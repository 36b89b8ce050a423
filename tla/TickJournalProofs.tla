--------------------------- MODULE TickJournalProofs ---------------------------
(***************************************************************************)
(* Theorems about TickJournal for every number of instances, every         *)
(* assignment of roles, every size of the windows and every number of      *)
(* crashes and faults; then about the lines of the journal when one        *)
(* incarnation of one instance appends and no I/O fails: their numbers     *)
(* increase, the deduplication window holds, and the index of an instance  *)
(* that alone compacts resolves as a walk from the beginning would.        *)
(***************************************************************************)
EXTENDS TickJournal, DataLemmas, SequenceTheorems, FunctionTheorems

-----------------------------------------------------------------------------
(* The operators keep their types *)

\* The end of a list is a list over the same set.
LEMMA LastNType ==
  ASSUME NEW S, NEW s \in Seq(S), NEW n \in Nat \ {0}
  PROVE  LastN(s, n) \in Seq(S)
<1>1. CASE Len(s) <= n
  BY <1>1 DEF LastN
<1>2. CASE ~(Len(s) <= n)
  <2>1. Len(s) - n + 1 \in 1 .. Len(s) + 1
    BY <1>2
  <2> QED BY <1>2, <2>1 DEF LastN
<1> QED BY <1>1, <1>2

\* A bucket keeps holding trade ids.
LEMMA RememberType ==
  ASSUME NEW seen \in [Symbols -> Seq(TradeIds)], NEW t \in Trades
  PROVE  Remember(seen, t) \in [Symbols -> Seq(TradeIds)]
<1>1. t.symbol \in Symbols /\ t.id \in TradeIds
  BY DEF Trades
<1>2. Append(seen[t.symbol], t.id) \in Seq(TradeIds)
  BY <1>1
<1>3. LastN(Append(seen[t.symbol], t.id), Window) \in Seq(TradeIds)
  BY <1>2, LastNType, SizesAssumption
<1> QED BY <1>1, <1>3 DEF Remember

\* The sparse index keeps holding entries.
LEMMA RecordedType ==
  ASSUME NEW index \in Seq(IndexEntry), NEW seq \in Nat, NEW off \in Nat
  PROVE  Recorded(index, seq, off) \in Seq(IndexEntry)
<1> DEFINE base == IF index = << >> THEN <<Origin>> ELSE index
           more == IF seq % IndexInterval = 0 /\ seq > base[Len(base)].seq
                   THEN Append(base, [seq |-> seq, off |-> off]) ELSE base
<1>1. Origin \in IndexEntry /\ [seq |-> seq, off |-> off] \in IndexEntry
  BY DEF Origin, IndexEntry
<1>2. base \in Seq(IndexEntry)
  BY <1>1
<1>3. more \in Seq(IndexEntry)
  <2> HIDE DEF base
  <2> QED BY <1>1, <1>2
<1>4. LastN(more, IndexMax) \in Seq(IndexEntry)
  <2> HIDE DEF more
  <2> QED BY <1>3, LastNType, SizesAssumption
<1> QED BY <1>4 DEF Recorded

\* Writing a line keeps the journal a list of lines.
LEMMA WriteLineType ==
  ASSUME NEW j \in Seq(Line), NEW l \in Line
  PROVE  WriteLine(j, l) \in Seq(Line)
<1> DEFINE merged == [seq |-> 0, trade |-> NoTrade, ended |-> l.ended]
<1>1. merged \in Line
  BY DEF Line
<1>2. CASE j # << >> /\ ~j[Len(j)].ended
  <2>1. [j EXCEPT ![Len(j)] = merged] \in Seq(Line)
    <3> HIDE DEF merged
    <3> QED BY <1>1, <1>2
  <2> QED BY <1>2, <2>1 DEF WriteLine
<1>3. CASE ~(j # << >> /\ ~j[Len(j)].ended)
  BY <1>3 DEF WriteLine
<1> QED BY <1>2, <1>3

-----------------------------------------------------------------------------
(* Tips *)

\* The tip of a meta payload is a number that is not below its latest_seq.
LEMMA MetaTipFacts ==
  ASSUME NEW d \in Meta
  PROVE  MetaTip(d) \in Nat /\ MetaTip(d) >= d.latest
<1> DEFINE f == [k \in 1 .. Len(d.index) |-> d.index[k].seq]
           S == {d.latest} \cup {e.seq : e \in Range(d.index)}
<1>1. d.latest \in Nat /\ d.index \in Seq(IndexEntry)
  BY DEF Meta
<1>2. Len(d.index) \in Nat /\ DOMAIN d.index = 1 .. Len(d.index)
  BY <1>1
<1>3. \A k \in 1 .. Len(d.index) : d.index[k] \in IndexEntry
  BY <1>1
<1>4. f \in [1 .. Len(d.index) -> Nat]
  BY <1>2, <1>3 DEF IndexEntry
<1>5. {e.seq : e \in Range(d.index)} = Range(f)
  BY <1>2 DEF Range
<1>6. \E x \in S : \A y \in S : x >= y
  BY <1>1, <1>2, <1>4, <1>5, MaxExists
<1>7. Max(S) \in S /\ \A y \in S : Max(S) >= y
  <2> HIDE DEF S
  <2> QED BY <1>6, Zenon DEF Max
<1>8. S \subseteq Nat
  BY <1>1, <1>4, <1>5 DEF Range
<1> QED BY <1>7, <1>8 DEF MetaTip

\* The larger of the two tips in memory.
LEMMA MemoryTipFacts ==
  ASSUME NEW m \in Memory
  PROVE  /\ MemoryTip(m) \in Nat
         /\ MemoryTip(m) >= m.latest
         /\ MemoryTip(m) >= m.highWater
         /\ MemoryTip(m) = m.latest \/ MemoryTip(m) = m.highWater
<1>1. m.latest \in Nat /\ m.highWater \in Nat
  BY DEF Memory
<1> QED BY <1>1, MaxOfTwo DEF MemoryTip

\* persist by the tip it finds: memory moves to the larger tip, nothing else in
\* it changes, and the file publishes a tip that is not below the one in memory,
\* nor below the old one unless the file could not be read.
LEMMA PersistFacts ==
  ASSUME meta \in Meta, NEW m \in Memory, NEW d \in {DiskTip, 0}
  PROVE  /\ Settled(m, d) \in Memory
         /\ Settled(m, d).latest = Settled(m, d).highWater
         /\ Settled(m, d).latest >= m.latest /\ Settled(m, d).latest >= m.highWater
         /\ Settled(m, d).seen = m.seen /\ Settled(m, d).index = m.index
         /\ Published(m, d) \in Meta
         /\ Published(m, d).index = m.index \/ Published(m, d).index = meta.index
         /\ d = DiskTip => MetaTip(Published(m, d)) >= DiskTip
         /\ MetaTip(Published(m, d)) >= Settled(m, d).latest
<1> DEFINE tip == Max({MemoryTip(m), d})
<1>1. MemoryTip(m) \in Nat /\ MemoryTip(m) >= m.latest /\ MemoryTip(m) >= m.highWater
  BY MemoryTipFacts
<1>2. DiskTip \in Nat /\ d \in Nat
  BY MetaTipFacts DEF DiskTip
<1>3. tip \in Nat /\ tip >= MemoryTip(m) /\ tip >= d
      /\ (tip = MemoryTip(m) \/ tip = d)
  BY <1>1, <1>2, MaxOfTwo
<1>4. Settled(m, d) = [m EXCEPT !.latest = tip, !.highWater = tip]
  BY DEF Settled
<1> HIDE DEF tip
<1>5. /\ Settled(m, d) \in Memory
      /\ Settled(m, d).latest = tip /\ Settled(m, d).highWater = tip
      /\ Settled(m, d).seen = m.seen /\ Settled(m, d).index = m.index
  BY <1>3, <1>4 DEF Memory
<1>6. m.latest \in Nat /\ m.highWater \in Nat
  BY DEF Memory
<1>7. CASE WritesMeta(m, d)
  <2>1. Published(m, d) = [latest |-> MemoryTip(m), seen |-> m.seen, index |-> m.index]
    BY <1>7 DEF Published
  <2>2. Published(m, d) \in Meta /\ Published(m, d).latest = MemoryTip(m)
        /\ Published(m, d).index = m.index
    BY <1>1, <2>1 DEF Meta, Memory
  <2>3. MetaTip(Published(m, d)) \in Nat /\ MetaTip(Published(m, d)) >= MemoryTip(m)
    BY <2>2, MetaTipFacts
  <2>4. d <= MemoryTip(m)
    BY <1>7 DEF WritesMeta
  <2> QED BY <1>1, <1>2, <1>3, <1>5, <1>6, <2>2, <2>3, <2>4
<1>8. CASE ~WritesMeta(m, d)
  <2>1. Published(m, d) = meta
    BY <1>8 DEF Published
  <2>2. d > MemoryTip(m)
    BY <1>8, <1>1, <1>2 DEF WritesMeta
  <2>3. MetaTip(Published(m, d)) = DiskTip /\ Published(m, d) \in Meta /\ d = DiskTip
    BY <1>1, <2>1, <2>2 DEF DiskTip
  <2> QED BY <1>1, <1>2, <1>3, <1>5, <1>6, <2>1, <2>2, <2>3
<1> QED BY <1>7, <1>8

\* persist and persist_locked by what they leave: a memory with both tips at the
\* same place, windows and index as they were, and a meta file that, unless the
\* step had an error, is behind neither that memory nor the old file.
LEMMA PersistOutcome ==
  ASSUME meta \in Meta, faults \in Nat, NEW i, NEW m \in Memory,
         Persist(i, m) \/ PersistLocked(i, m)
  PROVE  \E r \in Memory :
            /\ mem' = [mem EXCEPT ![i] = r]
            /\ r.latest = r.highWater /\ r.latest >= m.latest /\ r.latest >= m.highWater
            /\ r.seen = m.seen /\ r.index = m.index
            /\ meta' \in Meta
            /\ meta'.index = m.index \/ meta'.index = meta.index
            /\ \/ /\ faults' = faults
                  /\ MetaTip(meta') >= DiskTip /\ MetaTip(meta') >= r.latest
               \/ faults' = faults + 1
<1>1. PICK d \in {DiskTip, 0} :
         /\ Stores(m, d) \/ StoreFails(m, d)
         /\ \/ mem' = [mem EXCEPT ![i] = Settled(m, d)]
            \/ mem' = [mem EXCEPT ![i] = [Settled(m, d) EXCEPT !.timer = FALSE]]
            \/ mem' = [mem EXCEPT ![i] = [[Settled(m, d) EXCEPT !.timer = FALSE]
                                               EXCEPT !.dirty = FALSE]]
  BY DEF Persist, PersistLocked
<1> DEFINE s == Settled(m, d)
<1>2. /\ s \in Memory /\ s.latest = s.highWater
      /\ s.latest >= m.latest /\ s.latest >= m.highWater
      /\ s.seen = m.seen /\ s.index = m.index
      /\ Published(m, d) \in Meta
      /\ Published(m, d).index = m.index \/ Published(m, d).index = meta.index
      /\ d = DiskTip => MetaTip(Published(m, d)) >= DiskTip
      /\ MetaTip(Published(m, d)) >= s.latest
  BY PersistFacts
<1> HIDE DEF s
<1>3. PICK r \in Memory :
         /\ mem' = [mem EXCEPT ![i] = r]
         /\ r.latest = s.latest /\ r.highWater = s.highWater
         /\ r.seen = s.seen /\ r.index = s.index
  <2> DEFINE u == [s EXCEPT !.timer = FALSE]
             c == [u EXCEPT !.dirty = FALSE]
  <2>1. /\ u \in Memory /\ u.latest = s.latest /\ u.highWater = s.highWater
        /\ u.seen = s.seen /\ u.index = s.index
    BY <1>2 DEF Memory
  <2>2. mem' = [mem EXCEPT ![i] = s] \/ mem' = [mem EXCEPT ![i] = u]
        \/ mem' = [mem EXCEPT ![i] = c]
    BY <1>1 DEF s
  <2> HIDE DEF u
  <2>3. /\ c \in Memory /\ c.latest = s.latest /\ c.highWater = s.highWater
        /\ c.seen = s.seen /\ c.index = s.index
    BY <2>1 DEF Memory
  <2> HIDE DEF c
  <2> QED BY <1>2, <2>1, <2>2, <2>3
<1>4. CASE Stores(m, d)
  <2>1. meta' = Published(m, d) /\ ((d = DiskTip /\ faults' = faults) \/ faults' = faults + 1)
    BY <1>4 DEF Stores, Finds, Fault
  <2> QED BY <1>2, <1>3, <2>1
<1>5. CASE StoreFails(m, d)
  <2>1. meta' = meta /\ faults' = faults + 1
    BY <1>5 DEF StoreFails, Fault
  <2> QED BY <1>2, <1>3, <2>1
<1> QED BY <1>1, <1>4, <1>5

\* The memory after the bookkeeping of an append.
LEMMA AppendedFacts ==
  ASSUME NEW m \in Memory, NEW t \in Trades, NEW off \in Nat
  PROVE  /\ Appended(m, t, off) \in Memory
         /\ Appended(m, t, off).latest = m.latest + 1
         /\ Appended(m, t, off).highWater = Max({m.highWater, m.latest + 1})
         /\ Appended(m, t, off).appends = m.appends + 1
<1> DEFINE l == m.latest + 1
           h == Max({m.highWater, l})
           b == Remember(m.seen, t)
           x == Recorded(m.index, l, off)
           a == m.appends + 1
<1>1. /\ l \in Nat /\ m.highWater \in Nat /\ a \in Nat
      /\ m.seen \in [Symbols -> Seq(TradeIds)] /\ m.index \in Seq(IndexEntry)
  BY DEF Memory
<1>2. Appended(m, t, off) = [m EXCEPT !.latest = l, !.highWater = h, !.seen = b,
                                      !.index = x, !.appends = a]
  BY DEF Appended
<1>3. b \in [Symbols -> Seq(TradeIds)]
  BY <1>1, RememberType
<1> HIDE DEF l
<1>4. h \in Nat
  BY <1>1, MaxOfTwo
<1>5. x \in Seq(IndexEntry)
  BY <1>1, RecordedType
<1> HIDE DEF h, b, x, a
<1>6. /\ Appended(m, t, off) \in Memory
      /\ Appended(m, t, off).latest = l
      /\ Appended(m, t, off).highWater = h
      /\ Appended(m, t, off).appends = a
  BY <1>1, <1>2, <1>3, <1>4, <1>5 DEF Memory
<1> QED BY <1>6 DEF l, h, a

\* The memory after the index is rebuilt: the rest of it is as it was.
LEMMA ReindexedFacts ==
  ASSUME TypeOK, NEW m \in Memory, NEW f \in InOrder(IndexedLines)
  PROVE  /\ Reindexed(m, f) \in Memory
         /\ Reindexed(m, f).latest = m.latest
         /\ Reindexed(m, f).highWater = m.highWater
         /\ Reindexed(m, f).appends = m.appends
<1> DEFINE n == Cardinality(IndexedLines)
           g == [k \in 1 .. n |-> [seq |-> journal[f[k]].seq, off |-> f[k] - 1]]
<1>1. journal \in Seq(Line) /\ DOMAIN journal = 1 .. Len(journal)
  BY DEF TypeOK
<1>2. IndexedLines \subseteq 1 .. Len(journal) /\ Len(journal) \in Nat
  BY <1>1 DEF IndexedLines
<1>3. n \in Nat
  BY <1>2, PositionsCount
<1>4. f \in [1 .. n -> IndexedLines] /\ DOMAIN f = 1 .. n
  BY DEF InOrder
<1>5. \A k \in 1 .. n : journal[f[k]] \in Line /\ f[k] - 1 \in Nat
  <2> SUFFICES ASSUME NEW k \in 1 .. n
               PROVE  journal[f[k]] \in Line /\ f[k] - 1 \in Nat
    OBVIOUS
  <2>1. f[k] \in 1 .. Len(journal)
    BY <1>2, <1>4
  <2> HIDE DEF n
  <2> QED BY <1>1, <1>2, <2>1
<1>6. \A k \in 1 .. n : g[k] \in IndexEntry
  BY <1>5 DEF IndexEntry, Line
<1>7. g \in Seq(IndexEntry)
  BY <1>3, <1>6
<1>8. <<Origin>> \o g \in Seq(IndexEntry)
  <2>1. <<Origin>> \in Seq(IndexEntry)
    BY DEF Origin, IndexEntry
  <2> HIDE DEF g
  <2> QED BY <1>7, <2>1
<1>9. LastN(<<Origin>> \o g, IndexMax) \in Seq(IndexEntry)
  <2> HIDE DEF g
  <2> QED BY <1>8, LastNType, SizesAssumption
<1>10. Reindexed(m, f) = [m EXCEPT !.index = LastN(<<Origin>> \o g, IndexMax)]
  BY <1>4 DEF Reindexed
<1> HIDE DEF g
<1> QED BY <1>9, <1>10 DEF Memory

\* Compaction keeps the journal a list of lines.
LEMMA CompactedType ==
  ASSUME TypeOK, NEW n \in Nat, NEW f \in InOrder(Kept(n))
  PROVE  [p \in DOMAIN f |-> [journal[f[p]] EXCEPT !.ended = TRUE]] \in Seq(Line)
<1> DEFINE c == Cardinality(Kept(n))
<1>1. journal \in Seq(Line) /\ DOMAIN journal = 1 .. Len(journal)
  BY DEF TypeOK
<1>2. Kept(n) \subseteq 1 .. Len(journal) /\ Len(journal) \in Nat
  BY <1>1 DEF Kept
<1>3. c \in Nat
  BY <1>2, PositionsCount
<1>4. f \in [1 .. c -> Kept(n)] /\ DOMAIN f = 1 .. c
  BY DEF InOrder
<1>5. \A p \in 1 .. c : journal[f[p]] \in Line
  BY <1>1, <1>2, <1>4
<1>6. \A p \in 1 .. c : [journal[f[p]] EXCEPT !.ended = TRUE] \in Line
  BY <1>5 DEF Line
<1> QED BY <1>3, <1>4, <1>6

-----------------------------------------------------------------------------
(* The inductive invariant *)

\* What holds of one memory against a tip d on disk: the high-water mark is not
\* below the tip that appends count from; without faults it is ahead of the
\* disk by no more than the appends since the counter was due, and being ahead
\* means dirty with a timer armed.
Coherent(m) == m.latest <= m.highWater

WithinLag(m, d) == m.highWater <= d + (m.appends % PersistInterval)

TimedIfAhead(m, d) == m.highWater > d => m.dirty /\ (IdleFlush => m.timer)

\* TipLagBounded and UnpublishedIsTimed speak of latest_seq only and are not
\* inductive: a reload turns the high-water mark into latest_seq, so the mark
\* has to obey the same bounds.
TipInv ==
    /\ TypeOK
    /\ critical.op = "append" => critical.trade \in Trades
    /\ \A i \in Instances : Coherent(mem[i])
    /\ faults = 0 => \A i \in Instances : /\ WithinLag(mem[i], DiskTip)
                                          /\ TimedIfAhead(mem[i], DiskTip)

\* What every step does to the tips: none in memory goes back, and that on disk
\* only in a step with an I/O error.
TipsAdvance ==
    /\ DiskTip' >= DiskTip \/ faults' > faults
    /\ \A j \in Instances : up[j] /\ up'[j] => /\ mem'[j].latest >= mem[j].latest
                                               /\ mem'[j].highWater >= mem[j].highWater

\* A step that changes one memory keeps the invariant if the new memory obeys
\* it against the new tip: the other memories were bounded by a lower tip.
LEMMA OneMemoryChanges ==
  ASSUME TipInv, NEW i \in Instances, NEW m \in Memory,
         mem' = [mem EXCEPT ![i] = m],
         meta' \in Meta, MetaTip(meta') >= DiskTip \/ faults' > faults,
         journal' \in Seq(Line), up' \in [Instances -> BOOLEAN], critical' \in Sections,
         critical'.op = "append" => critical'.trade \in Trades,
         life' \in [Instances -> Nat], authors' \subseteq Instances \X Nat,
         faults' \in Nat, faults' = 0 => faults = 0,
         Coherent(m),
         faults' = 0 => WithinLag(m, MetaTip(meta')) /\ TimedIfAhead(m, MetaTip(meta')),
         up[i] /\ up'[i] => m.latest >= mem[i].latest /\ m.highWater >= mem[i].highWater
  PROVE  TipInv' /\ TipsAdvance
<1>1. mem \in [Instances -> Memory] /\ meta \in Meta
  BY DEF TipInv, TypeOK
<1>2. TypeOK'
  BY <1>1 DEF TypeOK
<1>3. DiskTip \in Nat /\ MetaTip(meta') \in Nat
  BY <1>1, MetaTipFacts DEF DiskTip
<1>4. DiskTip' = MetaTip(meta')
  BY DEF DiskTip
<1>5. \A j \in Instances : mem'[j] = IF j = i THEN m ELSE mem[j]
  BY <1>1
<1>6. \A j \in Instances : /\ mem[j].latest \in Nat /\ mem[j].highWater \in Nat
                           /\ mem[j].appends % PersistInterval \in Nat
  <2>1. \A j \in Instances : mem[j] \in Memory
    BY <1>1
  <2>2. \A j \in Instances : mem[j].appends \in Nat
    BY <2>1 DEF Memory
  <2>3. PersistInterval \in Nat \ {0}
    BY SizesAssumption
  <2>4. \A j \in Instances : mem[j].appends % PersistInterval \in 0 .. PersistInterval - 1
    BY <2>2, <2>3, Remainder
  <2>5. \A j \in Instances : mem[j].latest \in Nat /\ mem[j].highWater \in Nat
    BY <2>1 DEF Memory
  <2> QED BY <2>3, <2>4, <2>5
<1>7. \A j \in Instances : Coherent(mem'[j])
  BY <1>5 DEF TipInv
<1>8. ASSUME faults' = 0, NEW j \in Instances
      PROVE  WithinLag(mem'[j], DiskTip') /\ TimedIfAhead(mem'[j], DiskTip')
  <2>1. CASE j = i
    BY <1>4, <1>5, <1>8, <2>1
  <2>2. CASE j # i
    <3>1. mem'[j] = mem[j]
      BY <1>5, <2>2
    <3>2. WithinLag(mem[j], DiskTip) /\ TimedIfAhead(mem[j], DiskTip)
      BY <1>8 DEF TipInv
    <3>3. DiskTip' >= DiskTip /\ DiskTip' \in Nat
      BY <1>3, <1>4, <1>8
    <3> HIDE DEF DiskTip
    <3>4. WithinLag(mem[j], DiskTip')
      BY <1>3, <1>6, <3>2, <3>3 DEF WithinLag
    <3>5. TimedIfAhead(mem[j], DiskTip')
      BY <1>3, <1>6, <3>2, <3>3 DEF TimedIfAhead
    <3> QED BY <3>1, <3>4, <3>5
  <2> QED BY <2>1, <2>2
<1>9. TipInv'
  BY <1>2, <1>7, <1>8 DEF TipInv
<1>10. TipsAdvance
  BY <1>3, <1>4, <1>5, <1>6 DEF TipsAdvance
<1> QED BY <1>9, <1>10

\* A memory whose two tips are both on disk obeys every bound.
LEMMA SettledObeys ==
  ASSUME NEW r \in Memory, r.latest = r.highWater, NEW d \in Nat, d >= r.latest
  PROVE  Coherent(r) /\ WithinLag(r, d) /\ TimedIfAhead(r, d)
<1>1. r.latest \in Nat /\ r.highWater \in Nat /\ d >= r.highWater
  BY DEF Memory
<1>2. r.appends % PersistInterval \in 0 .. PersistInterval - 1
  BY Remainder, SizesAssumption DEF Memory
<1>3. r.appends % PersistInterval \in Nat
  BY <1>2, SizesAssumption
<1> QED BY <1>1, <1>3 DEF Coherent, WithinLag, TimedIfAhead

-----------------------------------------------------------------------------
(* Every step keeps the invariant and moves no tip back *)

\* What TipInv says of the parts, in the form the steps use.
LEMMA Parts ==
  ASSUME TipInv
  PROVE  /\ journal \in Seq(Line) /\ meta \in Meta /\ mem \in [Instances -> Memory]
         /\ up \in [Instances -> BOOLEAN] /\ critical \in Sections
         /\ life \in [Instances -> Nat] /\ authors \subseteq Instances \X Nat
         /\ faults \in Nat
         /\ DiskTip \in Nat /\ MetaTip(meta) = DiskTip
         /\ Idle \in Sections /\ Idle.op # "append"
<1>1. meta \in Meta /\ Idle \in Sections /\ Idle.op # "append"
  BY DEF TipInv, TypeOK, Idle, Sections
<1> QED BY <1>1, MetaTipFacts DEF TipInv, TypeOK, DiskTip

\* The constructor loads a memory that obeys the bounds.
LEMMA OpenStep ==
  ASSUME TipInv, NEW i \in Instances, Open(i)
  PROVE  TipInv' /\ TipsAdvance
<1>1. Loaded \in Memory /\ Coherent(Loaded)
      /\ WithinLag(Loaded, DiskTip) /\ TimedIfAhead(Loaded, DiskTip)
  <2>1. DiskTip >= meta.latest /\ DiskTip \in Nat
    BY Parts, MetaTipFacts
  <2>2. Loaded \in Memory
    BY <2>1, Parts DEF Loaded, Memory, Meta
  <2>3. Loaded.latest = meta.latest /\ Loaded.highWater = DiskTip /\ Loaded.appends = 0
    BY DEF Loaded
  <2>4. 0 % PersistInterval \in 0 .. PersistInterval - 1
    BY Remainder, SizesAssumption
  <2>5. 0 % PersistInterval \in Nat
    BY <2>4, SizesAssumption
  <2> QED BY <2>1, <2>2, <2>3, <2>5 DEF Coherent, WithinLag, TimedIfAhead
<1>2. ~up[i] /\ mem' = [mem EXCEPT ![i] = Loaded]
      /\ up' \in [Instances -> BOOLEAN] /\ life' \in [Instances -> Nat]
      /\ UNCHANGED <<journal, meta, critical, authors, faults>>
  BY Parts DEF Open
<1> HIDE DEF Open, Loaded
<1>3. MetaTip(meta') >= DiskTip /\ MetaTip(meta') = DiskTip
  BY <1>2, Parts
<1>4. critical'.op = "append" => critical'.trade \in Trades
  BY <1>2 DEF TipInv
<1> QED BY <1>1, <1>2, <1>3, <1>4, Parts, OneMemoryChanges

\* A process that ends leaves an empty memory.
LEMMA CrashStep ==
  ASSUME TipInv, NEW i \in Instances, Crash(i)
  PROVE  TipInv' /\ TipsAdvance
<1>1. NoMemory \in Memory /\ Coherent(NoMemory)
      /\ WithinLag(NoMemory, DiskTip) /\ TimedIfAhead(NoMemory, DiskTip)
  <2>1. NoMemory \in Memory
    BY DEF NoMemory, EmptyMeta, Memory, Origin, IndexEntry
  <2>2. NoMemory.latest = 0 /\ NoMemory.highWater = 0 /\ NoMemory.appends = 0
    BY DEF NoMemory
  <2>3. 0 % PersistInterval \in 0 .. PersistInterval - 1
    BY Remainder, SizesAssumption
  <2>4. 0 % PersistInterval \in Nat
    BY <2>3, SizesAssumption
  <2> QED BY <2>1, <2>2, <2>4, Parts DEF Coherent, WithinLag, TimedIfAhead
<1>2. ~up'[i] /\ mem' = [mem EXCEPT ![i] = NoMemory]
      /\ up' \in [Instances -> BOOLEAN] /\ critical' \in {critical, Idle}
      /\ UNCHANGED <<journal, meta, life, authors, faults>>
  BY Parts DEF Crash
<1>3. critical' \in Sections /\ (critical'.op = "append" => critical'.trade \in Trades)
  BY <1>2, Parts DEF TipInv
<1>4. MetaTip(meta') >= DiskTip /\ MetaTip(meta') = DiskTip
  BY <1>2, Parts
<1> HIDE DEF NoMemory
<1> QED BY <1>1, <1>2, <1>3, <1>4, Parts, OneMemoryChanges

\* A step that leaves memory and meta file alone keeps the invariant.
LEMMA NoMemoryChanges ==
  ASSUME TipInv, UNCHANGED <<mem, meta, up, life>>,
         journal' \in Seq(Line), critical' \in Sections,
         critical'.op = "append" => critical'.trade \in Trades,
         authors' \subseteq Instances \X Nat,
         faults' \in Nat, faults' = 0 => faults = 0
  PROVE  TipInv' /\ TipsAdvance
<1>1. DiskTip' = DiskTip /\ DiskTip \in Nat
  BY Parts DEF DiskTip
<1>2. TipInv'
  BY <1>1 DEF TipInv, TypeOK
<1>3. \A j \in Instances : mem[j].latest \in Nat /\ mem[j].highWater \in Nat
  <2>1. \A j \in Instances : mem[j] \in Memory
    BY Parts
  <2> QED BY <2>1 DEF Memory
<1> QED BY <1>1, <1>2, <1>3 DEF TipsAdvance

\* The first half of append writes a line and takes the locks.
LEMMA AppendLineStep ==
  ASSUME TipInv, NEW i \in Instances, NEW t \in Trades, AppendLine(i, t)
  PROVE  TipInv' /\ TipsAdvance
<1>1. NextLine(i, t) \in Line
  <2>1. mem[i] \in Memory
    BY Parts
  <2> QED BY <2>1 DEF NextLine, Line, Memory
<1>2. journal' \in Seq(Line)
  BY <1>1, WriteLineType, Parts DEF AppendLine
<1>3. Len(journal) \in Nat
  BY Parts
<1>4. critical' \in Sections /\ critical'.trade \in Trades
  BY <1>3 DEF AppendLine, Sections
<1>5. authors' \subseteq Instances \X Nat
  BY Parts DEF AppendLine
<1>6. UNCHANGED <<mem, meta, up, life, faults>>
  BY DEF AppendLine
<1> QED BY <1>2, <1>4, <1>5, <1>6, Parts, NoMemoryChanges

\* A write that fails leaves at most a fragment behind.
LEMMA AppendTornStep ==
  ASSUME TipInv, NEW i \in Instances, NEW t \in Trades, AppendTorn(i, t)
  PROVE  TipInv' /\ TipsAdvance
<1>1. /\ [NextLine(i, t) EXCEPT !.ended = FALSE] \in Line
      /\ [seq |-> 0, trade |-> NoTrade, ended |-> FALSE] \in Line
  <2>1. mem[i] \in Memory
    BY Parts
  <2>2. NextLine(i, t) \in Line
    BY <2>1 DEF NextLine, Line, Memory
  <2>3. \A l \in Line : [l EXCEPT !.ended = FALSE] \in Line
    BY DEF Line
  <2>4. [seq |-> 0, trade |-> NoTrade, ended |-> FALSE] \in Line
    BY DEF Line
  <2> QED BY <2>2, <2>3, <2>4
<1>2. journal' \in Seq(Line)
  <2>1. PICK l \in {[NextLine(i, t) EXCEPT !.ended = FALSE],
                    [seq |-> 0, trade |-> NoTrade, ended |-> FALSE]} :
               journal' = WriteLine(journal, l)
    BY DEF AppendTorn
  <2>2. l \in Line
    BY <1>1
  <2> QED BY <2>1, <2>2, WriteLineType, Parts
<1>3. authors' \subseteq Instances \X Nat
  BY Parts DEF AppendTorn
<1>4. UNCHANGED <<mem, meta, up, life, critical>>
  BY DEF AppendTorn
<1>5. faults' \in Nat /\ (faults' = 0 => faults = 0)
  BY Parts DEF AppendTorn, Fault
<1>6. critical' \in Sections /\ (critical'.op = "append" => critical'.trade \in Trades)
  BY <1>4, Parts DEF TipInv
<1> QED BY <1>2, <1>3, <1>4, <1>5, <1>6, NoMemoryChanges

\* persist, of a memory that is not behind the one it replaces: the two tips
\* settle on the disk, or the step has an error.
LEMMA PersistStep ==
  ASSUME TipInv, NEW i \in Instances, NEW m \in Memory,
         m.latest >= mem[i].latest, m.highWater >= mem[i].highWater,
         Persist(i, m) \/ PersistLocked(i, m),
         UNCHANGED <<journal, up, life, authors>>,
         critical' \in Sections, critical'.op = "append" => critical'.trade \in Trades
  PROVE  TipInv' /\ TipsAdvance
<1>1. PICK r \in Memory :
         /\ mem' = [mem EXCEPT ![i] = r]
         /\ r.latest = r.highWater /\ r.latest >= m.latest /\ r.latest >= m.highWater
         /\ r.seen = m.seen /\ r.index = m.index
         /\ meta' \in Meta
         /\ meta'.index = m.index \/ meta'.index = meta.index
         /\ \/ /\ faults' = faults
               /\ MetaTip(meta') >= DiskTip /\ MetaTip(meta') >= r.latest
            \/ faults' = faults + 1
  <2>1. meta \in Meta /\ faults \in Nat
    BY Parts
  <2> QED BY <2>1, PersistOutcome
<1>2. MetaTip(meta') \in Nat /\ faults \in Nat
  BY <1>1, MetaTipFacts, Parts
<1>3. r.latest >= mem[i].latest /\ r.highWater >= mem[i].highWater
  <2>1. mem[i] \in Memory
    BY Parts
  <2>2. /\ r.latest \in Nat /\ m.latest \in Nat /\ mem[i].latest \in Nat
        /\ r.highWater \in Nat /\ m.highWater \in Nat /\ mem[i].highWater \in Nat
    BY <2>1 DEF Memory
  <2> QED BY <1>1, <2>2
<1>4. Coherent(r)
  BY <1>1 DEF Coherent, Memory
<1>5. faults' \in Nat /\ (faults' = 0 => faults = 0)
      /\ (MetaTip(meta') >= DiskTip \/ faults' > faults)
  BY <1>1, <1>2
<1>6. faults' = 0 => WithinLag(r, MetaTip(meta')) /\ TimedIfAhead(r, MetaTip(meta'))
  BY <1>1, <1>2, SettledObeys
<1> QED BY <1>1, <1>3, <1>4, <1>5, <1>6, Parts, OneMemoryChanges

\* The second half of append: due, it settles memory and disk; not due, the
\* counter moves with the tip and the timer is armed.
LEMMA AppendMetaStep ==
  ASSUME TipInv, NEW i \in Instances, AppendMeta(i)
  PROVE  TipInv' /\ TipsAdvance
<1> DEFINE m == Appended(mem[i], critical.trade, critical.off)
<1>1. mem[i] \in Memory /\ critical.trade \in Trades /\ critical.off \in Nat
  BY Parts DEF AppendMeta, Holds, TipInv, Sections
<1>2. /\ m \in Memory /\ m.latest = mem[i].latest + 1
      /\ m.highWater = Max({mem[i].highWater, mem[i].latest + 1})
      /\ m.appends = mem[i].appends + 1
  BY <1>1, AppendedFacts
<1>3. mem[i].latest \in Nat /\ mem[i].highWater \in Nat /\ mem[i].appends \in Nat
  BY <1>1 DEF Memory
<1>4. /\ m.highWater \in Nat /\ m.highWater >= m.latest /\ m.highWater >= mem[i].highWater
      /\ m.highWater = mem[i].highWater \/ m.highWater = mem[i].latest + 1
  <2> DEFINE old == mem[i].highWater
             new == mem[i].latest + 1
  <2>1. old \in Nat /\ new \in Nat
    BY <1>3
  <2>2. m.highWater = Max({old, new}) /\ m.latest = new
    BY <1>2
  <2> HIDE DEF m, old, new
  <2>3. /\ m.highWater \in Nat /\ m.highWater >= new /\ m.highWater >= old
        /\ m.highWater = old \/ m.highWater = new
    BY <2>1, <2>2, MaxOfTwo
  <2> QED BY <2>2, <2>3 DEF old, new
<1>5. /\ UNCHANGED <<journal, up, life, authors>> /\ critical' = Idle
      /\ \/ PersistLocked(i, m)
         \/ ~PersistDue(m) /\ mem' = [mem EXCEPT ![i] = MarkedDirty(m)]
            /\ UNCHANGED <<meta, faults>>
  BY DEF AppendMeta
<1> HIDE DEF m
<1>6. CASE PersistLocked(i, m)
  <2>1. m.latest >= mem[i].latest /\ m.highWater >= mem[i].highWater
    BY <1>2, <1>3, <1>4
  <2> QED BY <1>2, <1>5, <1>6, <2>1, Parts, PersistStep
<1>7. CASE ~PersistDue(m) /\ mem' = [mem EXCEPT ![i] = MarkedDirty(m)]
           /\ UNCHANGED <<meta, faults>>
  <2> DEFINE r == MarkedDirty(m)
  <2>1. /\ r \in Memory /\ r.latest = m.latest /\ r.highWater = m.highWater
        /\ r.appends = m.appends /\ r.dirty = TRUE /\ r.timer = IdleFlush
    BY <1>2, SizesAssumption DEF MarkedDirty, Memory
  <2> HIDE DEF r
  <2>2. Coherent(r) /\ \A d \in Nat : TimedIfAhead(r, d)
    BY <1>4, <2>1 DEF Coherent, TimedIfAhead
  <2>3. faults = 0 => WithinLag(r, DiskTip)
    <3> SUFFICES ASSUME faults = 0 PROVE WithinLag(r, DiskTip)
      OBVIOUS
    <3>1. mem[i].latest <= mem[i].highWater
          /\ mem[i].highWater <= DiskTip + (mem[i].appends % PersistInterval)
      BY DEF TipInv, Coherent, WithinLag
    <3>2. PersistInterval \in Nat \ {0} /\ (mem[i].appends + 1) % PersistInterval # 0
      BY <1>2, <1>7, SizesAssumption DEF PersistDue
    <3>3. (mem[i].appends + 1) % PersistInterval = (mem[i].appends % PersistInterval) + 1
      BY <1>3, <3>2, RemainderStep
    <3>4. mem[i].appends % PersistInterval \in 0 .. PersistInterval - 1
      BY <1>3, <3>2, Remainder
    <3>5. DiskTip \in Nat
      BY Parts
    <3>6. m.highWater <= DiskTip + ((mem[i].appends % PersistInterval) + 1)
      BY <1>3, <1>4, <3>1, <3>2, <3>4, <3>5
    <3> QED BY <1>2, <2>1, <3>3, <3>6 DEF WithinLag
  <2>4. r.latest >= mem[i].latest /\ r.highWater >= mem[i].highWater
    BY <1>2, <1>3, <1>4, <2>1
  <2>5. mem' = [mem EXCEPT ![i] = r]
    BY <1>7 DEF r
  <2>6. MetaTip(meta') = DiskTip /\ MetaTip(meta') >= DiskTip /\ meta' \in Meta
    BY <1>7, Parts
  <2> QED BY <1>5, <1>7, <2>1, <2>2, <2>3, <2>4, <2>5, <2>6, Parts, OneMemoryChanges
<1> QED BY <1>5, <1>6, <1>7

\* A flush settles memory and disk.
LEMMA FlushStep ==
  ASSUME TipInv, NEW i \in Instances, Flush(i)
  PROVE  TipInv' /\ TipsAdvance
<1>1. mem[i] \in Memory /\ critical \in Sections /\ critical.op # "append"
  BY Parts DEF Flush, LockFree
<1>2. PersistLocked(i, mem[i]) /\ UNCHANGED <<journal, up, critical, life, authors>>
  BY DEF Flush
<1>3. mem[i].latest >= mem[i].latest /\ mem[i].highWater >= mem[i].highWater
  BY <1>1 DEF Memory
<1> QED BY <1>1, <1>2, <1>3, PersistStep

\* A flush without the lock takes the timer away and publishes nothing.
LEMMA IdleFlushTimesOutStep ==
  ASSUME TipInv, NEW i \in Instances, IdleFlushTimesOut(i)
  PROVE  TipInv' /\ TipsAdvance
<1> DEFINE r == [mem[i] EXCEPT !.timer = FALSE]
<1>1. mem[i] \in Memory
  BY Parts
<1>2. faults' = faults + 1 /\ UNCHANGED <<journal, meta, up, critical, life, authors>>
      /\ mem' = [mem EXCEPT ![i] = r]
  BY DEF IdleFlushTimesOut, Fault
<1>3. faults' \in Nat /\ faults' # 0 /\ meta' \in Meta /\ MetaTip(meta') >= DiskTip
  BY <1>2, Parts
<1>4. critical' \in Sections /\ (critical'.op = "append" => critical'.trade \in Trades)
  BY <1>2, Parts DEF TipInv
<1>5. Coherent(mem[i]) /\ mem[i].latest \in Nat /\ mem[i].highWater \in Nat
  BY <1>1 DEF TipInv, Memory
<1>6. r \in Memory /\ r.latest = mem[i].latest /\ r.highWater = mem[i].highWater
  BY <1>1 DEF Memory
<1> HIDE DEF r
<1>7. Coherent(r) /\ r.latest >= mem[i].latest /\ r.highWater >= mem[i].highWater
  BY <1>5, <1>6 DEF Coherent
<1> QED BY <1>2, <1>3, <1>4, <1>6, <1>7, Parts, OneMemoryChanges

\* A repair raises both tips and settles memory and disk, or fails to publish.
LEMMA EnsureStep ==
  ASSUME TipInv, NEW i \in Instances, NEW n \in 1 .. MaxSeq, EnsureLatestSeqAtLeast(i, n)
  PROVE  TipInv' /\ TipsAdvance
<1> DEFINE m == [mem[i] EXCEPT !.latest = n, !.highWater = Max({mem[i].highWater, n})]
<1>1. mem[i] \in Memory /\ critical \in Sections /\ critical.op # "append"
  BY Parts DEF EnsureLatestSeqAtLeast, LockFree
<1>2. n \in Nat /\ mem[i].latest \in Nat /\ mem[i].highWater \in Nat
  BY <1>1, SizesAssumption DEF Memory
<1>3. /\ Max({mem[i].highWater, n}) \in Nat
      /\ Max({mem[i].highWater, n}) >= mem[i].highWater
  BY <1>2, MaxOfTwo
<1>4. m \in Memory /\ m.latest = n /\ m.highWater >= mem[i].highWater
  BY <1>1, <1>2, <1>3 DEF Memory
<1>5. n > mem[i].latest /\ UNCHANGED <<journal, up, critical, life, authors>>
      /\ PersistLocked(i, m)
  BY DEF EnsureLatestSeqAtLeast
<1> HIDE DEF m
<1>6. m.latest >= mem[i].latest
  BY <1>2, <1>4, <1>5
<1> QED BY <1>1, <1>4, <1>5, <1>6, PersistStep

\* Reading the tip raises the high-water mark to the disk at most.
LEMMA ReadLatestStep ==
  ASSUME TipInv, NEW i \in Instances, ReadLatestSeqFromDisk(i)
  PROVE  TipInv' /\ TipsAdvance
<1> DEFINE h == Max({mem[i].highWater, DiskTip})
           r == [mem[i] EXCEPT !.highWater = h]
<1>1. mem[i] \in Memory
  BY Parts
<1>2. mem[i].latest \in Nat /\ mem[i].highWater \in Nat /\ mem[i].appends \in Nat
  BY <1>1 DEF Memory
<1>3. h \in Nat /\ h >= mem[i].highWater /\ h >= DiskTip
      /\ (h = mem[i].highWater \/ h = DiskTip)
  BY <1>2, MaxOfTwo, Parts
<1>4. mem' = [mem EXCEPT ![i] = r] /\ UNCHANGED <<journal, meta, up, critical, life, authors, faults>>
  BY DEF ReadLatestSeqFromDisk
<1> HIDE DEF h
<1>5. r \in Memory /\ r.latest = mem[i].latest /\ r.highWater = h
      /\ r.appends = mem[i].appends /\ r.dirty = mem[i].dirty /\ r.timer = mem[i].timer
  BY <1>1, <1>3 DEF Memory
<1> HIDE DEF r
<1>6. Coherent(mem[i]) /\ (critical.op = "append" => critical.trade \in Trades)
      /\ (faults = 0 => WithinLag(mem[i], DiskTip) /\ TimedIfAhead(mem[i], DiskTip))
  BY DEF TipInv
<1>7. mem[i].appends % PersistInterval \in Nat /\ DiskTip \in Nat
  <2>1. PersistInterval \in Nat \ {0}
    BY SizesAssumption
  <2>2. mem[i].appends % PersistInterval \in 0 .. PersistInterval - 1
    BY <1>2, <2>1, Remainder
  <2> QED BY <2>1, <2>2, Parts
<1>8. Coherent(r)
  BY <1>2, <1>3, <1>5, <1>6 DEF Coherent
<1>9. faults = 0 => WithinLag(r, DiskTip)
  BY <1>2, <1>3, <1>5, <1>6, <1>7 DEF WithinLag
<1>10. faults = 0 => TimedIfAhead(r, DiskTip)
  BY <1>2, <1>3, <1>5, <1>6, <1>7 DEF TimedIfAhead
<1>11. meta' \in Meta /\ MetaTip(meta') = DiskTip /\ MetaTip(meta') >= DiskTip
  BY <1>4, <1>7, Parts
<1>12. r.latest >= mem[i].latest /\ r.highWater >= mem[i].highWater
  BY <1>2, <1>3, <1>5
<1> QED BY <1>4, <1>5, <1>6, <1>8, <1>9, <1>10, <1>11, <1>12, Parts, OneMemoryChanges

\* A reload makes the raised high-water mark the tip.
LEMMA ReloadMetaStep ==
  ASSUME TipInv, NEW i \in Instances, ReloadMetaFromDisk(i)
  PROVE  TipInv' /\ TipsAdvance
<1> DEFINE h == Max({mem[i].highWater, DiskTip})
           r == [mem[i] EXCEPT !.latest = h, !.highWater = h,
                               !.seen = meta.seen, !.index = meta.index]
<1>1. mem[i] \in Memory /\ meta.seen \in [Symbols -> Seq(TradeIds)]
      /\ meta.index \in Seq(IndexEntry)
  BY Parts DEF Meta
<1>2. mem[i].latest \in Nat /\ mem[i].highWater \in Nat /\ mem[i].appends \in Nat
  BY <1>1 DEF Memory
<1>3. h \in Nat /\ h >= mem[i].highWater /\ h >= DiskTip
      /\ (h = mem[i].highWater \/ h = DiskTip)
  BY <1>2, MaxOfTwo, Parts
<1>4. mem' = [mem EXCEPT ![i] = r] /\ UNCHANGED <<journal, meta, up, critical, life, authors, faults>>
  BY DEF ReloadMetaFromDisk
<1> HIDE DEF h
<1>5. r \in Memory /\ r.latest = h /\ r.highWater = h
      /\ r.appends = mem[i].appends /\ r.dirty = mem[i].dirty /\ r.timer = mem[i].timer
  BY <1>1, <1>3 DEF Memory
<1> HIDE DEF r
<1>6. Coherent(mem[i]) /\ (critical.op = "append" => critical.trade \in Trades)
      /\ (faults = 0 => WithinLag(mem[i], DiskTip) /\ TimedIfAhead(mem[i], DiskTip))
  BY DEF TipInv
<1>7. mem[i].appends % PersistInterval \in Nat /\ DiskTip \in Nat
  <2>1. PersistInterval \in Nat \ {0}
    BY SizesAssumption
  <2>2. mem[i].appends % PersistInterval \in 0 .. PersistInterval - 1
    BY <1>2, <2>1, Remainder
  <2> QED BY <2>1, <2>2, Parts
<1>8. Coherent(r) /\ r.latest >= mem[i].latest /\ r.highWater >= mem[i].highWater
  BY <1>2, <1>3, <1>5, <1>6 DEF Coherent
<1>9. faults = 0 => WithinLag(r, DiskTip)
  BY <1>2, <1>3, <1>5, <1>6, <1>7 DEF WithinLag
<1>10. faults = 0 => TimedIfAhead(r, DiskTip)
  BY <1>2, <1>3, <1>5, <1>6, <1>7 DEF TimedIfAhead
<1>11. meta' \in Meta /\ MetaTip(meta') = DiskTip /\ MetaTip(meta') >= DiskTip
  BY <1>4, <1>7, Parts
<1> QED BY <1>4, <1>5, <1>6, <1>8, <1>9, <1>10, <1>11, Parts, OneMemoryChanges

\* Reloading the index touches no tip.
LEMMA ReloadIndexStep ==
  ASSUME TipInv, NEW i \in Instances, ReloadSeqIndexFromDisk(i)
  PROVE  TipInv' /\ TipsAdvance
<1> DEFINE r == [mem[i] EXCEPT !.index = meta.index]
<1>1. mem[i] \in Memory /\ meta.index \in Seq(IndexEntry)
  BY Parts DEF Meta
<1>2. mem' = [mem EXCEPT ![i] = r] /\ UNCHANGED <<journal, meta, up, critical, life, authors, faults>>
  BY DEF ReloadSeqIndexFromDisk
<1>3. r \in Memory /\ r.latest = mem[i].latest /\ r.highWater = mem[i].highWater
      /\ r.appends = mem[i].appends /\ r.dirty = mem[i].dirty /\ r.timer = mem[i].timer
  BY <1>1 DEF Memory
<1> HIDE DEF r
<1>4. Coherent(r) /\ (critical.op = "append" => critical.trade \in Trades)
      /\ (faults = 0 => WithinLag(r, DiskTip) /\ TimedIfAhead(r, DiskTip))
  BY <1>3 DEF TipInv, Coherent, WithinLag, TimedIfAhead
<1>5. r.latest >= mem[i].latest /\ r.highWater >= mem[i].highWater
  BY <1>1, <1>3 DEF Memory
<1>6. meta' \in Meta /\ MetaTip(meta') = DiskTip /\ MetaTip(meta') >= DiskTip
  BY <1>2, Parts
<1> QED BY <1>2, <1>3, <1>4, <1>5, <1>6, Parts, OneMemoryChanges

\* The first half of a compaction replaces the journal and takes the locks.
LEMMA CompactJournalStep ==
  ASSUME TipInv, NEW i \in Instances, NEW n \in 2 .. MaxSeq, CompactJournal(i, n)
  PROVE  TipInv' /\ TipsAdvance
<1>1. PICK f \in InOrder(Kept(n)) :
          journal' = [p \in DOMAIN f |-> [journal[f[p]] EXCEPT !.ended = TRUE]]
  BY DEF CompactJournal
<1>2. journal' \in Seq(Line)
  <2>1. n \in Nat
    BY SizesAssumption
  <2> QED BY <1>1, <2>1, CompactedType DEF TipInv
<1>3. critical' = [Idle EXCEPT !.by = i, !.op = "compact"]
  BY DEF CompactJournal
<1>4. critical' \in Sections /\ critical'.op # "append"
  BY <1>3 DEF Idle, Sections
<1>5. UNCHANGED <<meta, mem, up, life, authors, faults>>
  BY DEF CompactJournal
<1> QED BY <1>2, <1>4, <1>5, Parts, NoMemoryChanges

\* The second half settles memory and disk with the rebuilt index, or fails to
\* publish; flags and counter stay.
LEMMA CompactMetaStep ==
  ASSUME TipInv, NEW i \in Instances, CompactMeta(i)
  PROVE  TipInv' /\ TipsAdvance
<1>1. PICK f \in InOrder(IndexedLines) : Persist(i, Reindexed(mem[i], f))
  BY DEF CompactMeta
<1> DEFINE m == Reindexed(mem[i], f)
<1>2. mem[i] \in Memory /\ UNCHANGED <<journal, up, life, authors>> /\ critical' = Idle
  BY Parts DEF CompactMeta
<1>3. m \in Memory /\ m.latest = mem[i].latest /\ m.highWater = mem[i].highWater
  BY <1>2, ReindexedFacts DEF TipInv
<1>4. Persist(i, m)
  BY <1>1
<1> HIDE DEF m
<1>5. m.latest >= mem[i].latest /\ m.highWater >= mem[i].highWater
  BY <1>2, <1>3 DEF Memory
<1> QED BY <1>2, <1>3, <1>4, <1>5, Parts, PersistStep

\* Every step of every instance, and the steps that change nothing.
LEMMA NextKeeps ==
  ASSUME TipInv, [Next]_vars
  PROVE  TipInv' /\ TipsAdvance
<1>1. ASSUME NEW i \in Instances, Step(i) PROVE TipInv' /\ TipsAdvance
  <2>1. CASE Open(i)
    BY <2>1, OpenStep
  <2>2. CASE Crash(i)
    BY <2>2, CrashStep
  <2>3. CASE \E t \in Trades : AppendLine(i, t) \/ AppendTorn(i, t)
    BY <2>3, AppendLineStep, AppendTornStep
  <2>4. CASE AppendMeta(i)
    BY <2>4, AppendMetaStep
  <2>6. CASE FlushMeta(i) \/ IdleFlushCallback(i)
    BY <2>6, FlushStep DEF FlushMeta, IdleFlushCallback
  <2>7. CASE IdleFlushTimesOut(i)
    BY <2>7, IdleFlushTimesOutStep
  <2>8. CASE \E n \in 1 .. MaxSeq : EnsureLatestSeqAtLeast(i, n)
    BY <2>8, EnsureStep
  <2>9. CASE ReadLatestSeqFromDisk(i)
    BY <2>9, ReadLatestStep
  <2>10. CASE ReloadMetaFromDisk(i)
    BY <2>10, ReloadMetaStep
  <2>11. CASE ReloadSeqIndexFromDisk(i)
    BY <2>11, ReloadIndexStep
  <2>12. CASE \E n \in 2 .. MaxSeq : CompactJournal(i, n)
    BY <2>12, CompactJournalStep
  <2>13. CASE CompactMeta(i)
    BY <2>13, CompactMetaStep
  <2> QED BY <1>1, <2>1, <2>2, <2>3, <2>4, <2>6, <2>7, <2>8, <2>9, <2>10,
             <2>11, <2>12, <2>13 DEF Step
<1>2. CASE UNCHANGED vars
  <2>1. UNCHANGED <<journal, meta, mem, up, critical, life, authors, faults>>
    BY <1>2 DEF vars
  <2>2. critical' \in Sections /\ (critical'.op = "append" => critical'.trade \in Trades)
    BY <2>1, Parts DEF TipInv
  <2> QED BY <2>1, <2>2, Parts, NoMemoryChanges
<1> QED BY <1>1, <1>2 DEF Next

\* The initial state obeys the invariant.
LEMMA InitEstablishes ==
  ASSUME Init
  PROVE  TipInv
<1>1. NoMemory \in Memory /\ EmptyMeta \in Meta
  BY DEF NoMemory, EmptyMeta, Memory, Meta, Origin, IndexEntry
<1>2. Idle \in Sections /\ Idle.op = "none"
  BY DEF Idle, Sections
<1>3. meta \in Meta /\ DiskTip \in Nat
  BY <1>1, MetaTipFacts DEF Init, DiskTip
<1>4. TypeOK
  BY <1>1, <1>2 DEF Init, TypeOK
<1>5. NoMemory.latest = 0 /\ NoMemory.highWater = 0 /\ NoMemory.appends = 0
  BY DEF NoMemory
<1>6. 0 % PersistInterval \in Nat
  <2>1. PersistInterval \in Nat \ {0}
    BY SizesAssumption
  <2>2. 0 % PersistInterval \in 0 .. PersistInterval - 1
    BY <2>1, Remainder
  <2> QED BY <2>1, <2>2
<1>7. \A i \in Instances : mem[i] = NoMemory
  BY DEF Init
<1> HIDE DEF NoMemory
<1>8. \A i \in Instances : /\ Coherent(mem[i])
                           /\ WithinLag(mem[i], DiskTip)
                           /\ TimedIfAhead(mem[i], DiskTip)
  BY <1>3, <1>5, <1>6, <1>7 DEF Coherent, WithinLag, TimedIfAhead
<1> QED BY <1>2, <1>4, <1>8 DEF Init, TipInv

-----------------------------------------------------------------------------
(* Theorems *)

\* The invariant holds throughout.
THEOREM TipInvariant == Spec => []TipInv
<1>1. Init => TipInv
  BY InitEstablishes
<1>2. TipInv /\ [Next]_vars => TipInv'
  BY NextKeeps
<1> QED BY <1>1, <1>2, PTL DEF Spec

\* Types: files, memories and locks stay what the code takes them for.
THEOREM TypeCorrect == Spec => []TypeOK
<1>1. TipInv => TypeOK
  BY DEF TipInv
<1> QED BY <1>1, TipInvariant, PTL

\* No persist by anybody, stale, racing or retried, moves the tip in
\* tick_journal.meta.json back, unless an error in that very step keeps it from
\* reading the file.
THEOREM DiskTipMonotone == Spec => DiskTipNeverRegresses
<1>1. TipInv /\ [Next]_vars => [DiskTip' >= DiskTip \/ faults' > faults]_vars
  BY NextKeeps DEF TipsAdvance
<1> QED BY <1>1, TipInvariant, PTL DEF Spec, DiskTipNeverRegresses

\* No running instance ever reports an older tip than it did before.
THEOREM MemoryTipsMonotone == Spec => MemoryTipsNeverRegress
<1>1. TipInv /\ [Next]_vars =>
        [\A i \in Instances :
            up[i] /\ up'[i] => /\ mem'[i].latest >= mem[i].latest
                               /\ mem'[i].highWater >= mem[i].highWater]_vars
  BY NextKeeps DEF TipsAdvance
<1> QED BY <1>1, TipInvariant, PTL DEF Spec, MemoryTipsNeverRegress

\* Without faults the published tip is less than PersistInterval appends behind
\* any memory, and what is ahead of it is dirty and timed.
LEMMA PublicationBounds ==
  ASSUME TipInv PROVE TipLagBounded /\ UnpublishedIsTimed
<1>1. TipInv => TipLagBounded /\ UnpublishedIsTimed
  <2> SUFFICES ASSUME TipInv, faults = 0, NEW i \in Instances
               PROVE  /\ mem[i].latest - DiskTip < PersistInterval
                      /\ IdleFlush /\ mem[i].latest > DiskTip =>
                            mem[i].dirty /\ mem[i].timer
    BY DEF TipLagBounded, UnpublishedIsTimed
  <2>1. mem[i] \in Memory /\ DiskTip \in Nat
    BY Parts
  <2>2. mem[i].latest \in Nat /\ mem[i].highWater \in Nat /\ mem[i].appends \in Nat
    BY <2>1 DEF Memory
  <2>3. PersistInterval \in Nat \ {0} /\ IdleFlush \in BOOLEAN
    BY SizesAssumption
  <2>4. mem[i].appends % PersistInterval \in 0 .. PersistInterval - 1
    BY <2>2, <2>3, Remainder
  <2>5. /\ mem[i].latest <= mem[i].highWater
        /\ mem[i].highWater <= DiskTip + (mem[i].appends % PersistInterval)
        /\ mem[i].highWater > DiskTip => mem[i].dirty /\ (IdleFlush => mem[i].timer)
    BY DEF TipInv, Coherent, WithinLag, TimedIfAhead
  <2> HIDE DEF DiskTip
  <2>6. mem[i].latest - DiskTip < PersistInterval
    BY <2>1, <2>2, <2>3, <2>4, <2>5
  <2>7. mem[i].latest > DiskTip => mem[i].highWater > DiskTip
    BY <2>1, <2>2, <2>5
  <2>8. IdleFlush /\ mem[i].latest > DiskTip => mem[i].dirty /\ mem[i].timer
    BY <2>5, <2>7
  <2> QED BY <2>6, <2>8
<1> QED BY <1>1

\* Without faults the published tip is less than PersistInterval appends behind
\* any memory.
THEOREM TipLagIsBounded == Spec => []TipLagBounded
<1>1. TipInv => TipLagBounded
  BY PublicationBounds
<1> QED BY <1>1, TipInvariant, PTL

\* Without faults what is ahead of the published tip is dirty and timed.
THEOREM UnpublishedTipsAreTimed == Spec => []UnpublishedIsTimed
<1>1. TipInv => UnpublishedIsTimed
  BY PublicationBounds
<1> QED BY <1>1, TipInvariant, PTL

-----------------------------------------------------------------------------
(* The steps, by what they do to the lines, the windows and the indexes *)

\* The other instances are left alone.
OnlyOf(i) == \A j \in Instances \ {i} : mem'[j] = mem[j] /\ up'[j] = up[j]

\* The index on disk stays or is that of the memory of i after the step.
PublishesIndex(i) == meta'.index = meta.index \/ meta'.index = mem'[i].index

\* The second half of append: the line is booked in memory.
Books(i) ==
    /\ Holds(i, "append") /\ critical' = Idle /\ up' = up
    /\ mem'[i].latest >= mem[i].latest + 1
    /\ mem'[i].seen = Remember(mem[i].seen, critical.trade)
    /\ mem'[i].index = Recorded(mem[i].index, mem[i].latest + 1, critical.off)

\* The second half of a compaction: the index is rebuilt from the file.
Rebuilds(i) ==
    /\ Holds(i, "compact") /\ critical' = Idle /\ up' = up
    /\ mem'[i].seen = mem[i].seen
    /\ \E f \in InOrder(IndexedLines) : mem'[i].index = Reindexed(mem[i], f).index

\* Tips, flags and counters may change, windows and index do not.
Tends(i) ==
    /\ critical' = critical /\ up' = up
    /\ mem'[i].seen = mem[i].seen /\ mem'[i].index = mem[i].index

\* The index, and perhaps the windows, are replaced by those on disk.
Rereads(i) ==
    /\ i \in Reloaders /\ critical.by # i /\ critical' = critical /\ up' = up
    /\ mem'[i].index = meta.index

Ends(i) ==
    /\ ~up'[i] /\ mem'[i] = NoMemory /\ meta' = meta
    /\ critical' = IF critical.by = i THEN Idle ELSE critical

\* A step that writes no line.
Quiet(i) ==
    /\ UNCHANGED <<journal, life, authors>> /\ (faults' = 0 => faults = 0)
    /\ OnlyOf(i) /\ PublishesIndex(i)
    /\ Books(i) \/ Rebuilds(i) \/ Tends(i) \/ Rereads(i) \/ Ends(i)

\* What a rebuilt index leaves alone.
LEMMA ReindexKeeps ==
  ASSUME NEW m \in Memory, NEW f
  PROVE  Reindexed(m, f).seen = m.seen /\ Reindexed(m, f).latest = m.latest
<1> DEFINE x == LastN(<<Origin>> \o [k \in DOMAIN f |-> [seq |-> journal[f[k]].seq,
                                                         off |-> f[k] - 1]], IndexMax)
<1>1. Reindexed(m, f) = [m EXCEPT !.index = x]
  BY DEF Reindexed
<1> HIDE DEF x
<1> QED BY <1>1 DEF Memory

\* What the bookkeeping of an append does to windows and index.
LEMMA AppendedParts ==
  ASSUME NEW m \in Memory, NEW t, NEW off
  PROVE  /\ Appended(m, t, off).seen = Remember(m.seen, t)
         /\ Appended(m, t, off).index = Recorded(m.index, m.latest + 1, off)
<1> DEFINE l == m.latest + 1
           h == Max({m.highWater, l})
           b == Remember(m.seen, t)
           x == Recorded(m.index, l, off)
           a == m.appends + 1
<1>1. Appended(m, t, off) = [m EXCEPT !.latest = l, !.highWater = h, !.seen = b,
                                      !.index = x, !.appends = a]
  BY DEF Appended
<1> HIDE DEF h, b, x, a, l
<1>2. Appended(m, t, off).seen = b /\ Appended(m, t, off).index = x
  BY <1>1 DEF Memory
<1> QED BY <1>2 DEF b, x, l

\* One memory is replaced and nobody is started or ended.
LEMMA OnlyThisMemory ==
  ASSUME TipInv, NEW i \in Instances, NEW m, mem' = [mem EXCEPT ![i] = m],
         \A j \in Instances \ {i} : up'[j] = up[j]
  PROVE  OnlyOf(i) /\ mem'[i] = m
  BY Parts DEF OnlyOf

\* Appends that are booked, published or not.
LEMMA BookSteps ==
  ASSUME TipInv, NEW i \in Instances, AppendMeta(i)
  PROVE  Quiet(i)
<1> DEFINE m == Appended(mem[i], critical.trade, critical.off)
<1>1. mem[i] \in Memory /\ Holds(i, "append") /\ critical' = Idle
      /\ UNCHANGED <<journal, up, life, authors>> /\ meta \in Meta /\ faults \in Nat
  BY Parts DEF AppendMeta
<1>2. critical.trade \in Trades /\ critical.off \in Nat
  BY <1>1, Parts DEF TipInv, Holds, Sections
<1>3. /\ m \in Memory /\ m.latest = mem[i].latest + 1
      /\ m.seen = Remember(mem[i].seen, critical.trade)
      /\ m.index = Recorded(mem[i].index, mem[i].latest + 1, critical.off)
  <2>1. m \in Memory /\ m.latest = mem[i].latest + 1
    BY <1>1, <1>2, AppendedFacts
  <2>2. m.seen = Remember(mem[i].seen, critical.trade)
        /\ m.index = Recorded(mem[i].index, mem[i].latest + 1, critical.off)
    BY <1>1, AppendedParts
  <2> QED BY <2>1, <2>2
<1>4. \/ PersistLocked(i, m)
      \/ mem' = [mem EXCEPT ![i] = MarkedDirty(m)] /\ UNCHANGED <<meta, faults>>
  BY DEF AppendMeta
<1> HIDE DEF m
<1>5. PICK r : /\ mem' = [mem EXCEPT ![i] = r]
               /\ r.seen = m.seen /\ r.index = m.index /\ r.latest >= m.latest
               /\ meta'.index = m.index \/ meta'.index = meta.index
               /\ faults' = faults \/ faults' = faults + 1
  <2>1. CASE PersistLocked(i, m)
    BY <1>1, <1>3, <2>1, PersistOutcome
  <2>2. CASE mem' = [mem EXCEPT ![i] = MarkedDirty(m)] /\ UNCHANGED <<meta, faults>>
    <3> DEFINE r == MarkedDirty(m)
    <3>1. r.seen = m.seen /\ r.index = m.index /\ r.latest = m.latest /\ m.latest \in Nat
      BY <1>3 DEF MarkedDirty, Memory
    <3>2. mem' = [mem EXCEPT ![i] = r]
      BY <2>2
    <3> HIDE DEF r
    <3>3. r.latest >= m.latest /\ meta'.index = meta.index /\ faults' = faults
      BY <2>2, <3>1
    <3> QED BY <3>1, <3>2, <3>3
  <2> QED BY <1>4, <2>1, <2>2
<1>6. OnlyOf(i) /\ mem'[i] = r
  BY <1>1, <1>5, OnlyThisMemory
<1>7. PublishesIndex(i)
  BY <1>5, <1>6 DEF PublishesIndex
<1>8. faults' = 0 => faults = 0
  BY <1>1, <1>5
<1>9. Books(i)
  BY <1>1, <1>3, <1>5, <1>6 DEF Books
<1> QED BY <1>1, <1>6, <1>7, <1>8, <1>9 DEF Quiet

\* The second half of a compaction.
LEMMA RebuildSteps ==
  ASSUME TipInv, NEW i \in Instances, CompactMeta(i)
  PROVE  Quiet(i)
<1>1. PICK f \in InOrder(IndexedLines) : Persist(i, Reindexed(mem[i], f))
  BY DEF CompactMeta
<1> DEFINE m == Reindexed(mem[i], f)
<1>2. mem[i] \in Memory /\ Holds(i, "compact") /\ UNCHANGED <<journal, up, life, authors>>
      /\ critical' = Idle /\ meta \in Meta /\ faults \in Nat
  BY Parts DEF CompactMeta
<1>3. m \in Memory /\ m.seen = mem[i].seen
  BY <1>2, ReindexedFacts, ReindexKeeps DEF TipInv
<1>4. Persist(i, m) /\ m = Reindexed(mem[i], f)
  BY <1>1
<1> HIDE DEF m
<1>5. PICK r : /\ mem' = [mem EXCEPT ![i] = r]
               /\ r.seen = m.seen /\ r.index = m.index
               /\ meta'.index = m.index \/ meta'.index = meta.index
               /\ faults' = faults \/ faults' = faults + 1
  BY <1>2, <1>3, <1>4, PersistOutcome
<1>6. OnlyOf(i) /\ mem'[i] = r
  BY <1>2, <1>5, OnlyThisMemory
<1>7. PublishesIndex(i)
  BY <1>5, <1>6 DEF PublishesIndex
<1>8. faults' = 0 => faults = 0
  BY <1>2, <1>5
<1>9. Rebuilds(i)
  BY <1>2, <1>3, <1>4, <1>5, <1>6 DEF Rebuilds
<1> QED BY <1>2, <1>6, <1>7, <1>8, <1>9 DEF Quiet

\* Flushes, repairs, reads of the tip, and their failures.
LEMMA TendSteps ==
  ASSUME TipInv, NEW i \in Instances,
         \/ Flush(i) \/ IdleFlushTimesOut(i) \/ ReadLatestSeqFromDisk(i)
         \/ \E n \in 1 .. MaxSeq : EnsureLatestSeqAtLeast(i, n)
  PROVE  Quiet(i)
<1>1. mem[i] \in Memory /\ UNCHANGED <<journal, up, critical, life, authors>>
      /\ meta \in Meta /\ faults \in Nat
  BY Parts DEF Flush, IdleFlushTimesOut, ReadLatestSeqFromDisk, EnsureLatestSeqAtLeast
<1>2. PICK r : /\ mem' = [mem EXCEPT ![i] = r]
               /\ r.seen = mem[i].seen /\ r.index = mem[i].index
               /\ meta'.index = r.index \/ meta'.index = meta.index
               /\ faults' = faults \/ faults' = faults + 1
  <2>1. CASE Flush(i)
    BY <1>1, <2>1, PersistOutcome DEF Flush
  <2>2. CASE IdleFlushTimesOut(i)
    <3> DEFINE r == [mem[i] EXCEPT !.timer = FALSE]
    <3>1. meta' = meta /\ faults' = faults + 1 /\ mem' = [mem EXCEPT ![i] = r]
      BY <2>2 DEF IdleFlushTimesOut, Fault
    <3>2. r.seen = mem[i].seen /\ r.index = mem[i].index
      BY <1>1 DEF Memory
    <3> HIDE DEF r
    <3> QED BY <3>1, <3>2
  <2>3. CASE ReadLatestSeqFromDisk(i)
    <3> DEFINE h == Max({mem[i].highWater, DiskTip})
               r == [mem[i] EXCEPT !.highWater = h]
    <3>1. mem' = [mem EXCEPT ![i] = r] /\ meta' = meta /\ faults' = faults
      BY <2>3 DEF ReadLatestSeqFromDisk
    <3> HIDE DEF h
    <3>2. r.seen = mem[i].seen /\ r.index = mem[i].index
      BY <1>1 DEF Memory
    <3> HIDE DEF r
    <3> QED BY <3>1, <3>2
  <2>4. CASE \E n \in 1 .. MaxSeq : EnsureLatestSeqAtLeast(i, n)
    <3>1. PICK n \in 1 .. MaxSeq : EnsureLatestSeqAtLeast(i, n)
      BY <2>4
    <3> DEFINE h == Max({mem[i].highWater, n})
               m == [mem[i] EXCEPT !.latest = n, !.highWater = h]
    <3>2. PersistLocked(i, m)
      BY <3>1 DEF EnsureLatestSeqAtLeast
    <3>3. n \in Nat /\ mem[i].highWater \in Nat
      BY <1>1, SizesAssumption DEF Memory
    <3>4. h \in Nat
      BY <3>3, MaxOfTwo
    <3> HIDE DEF h
    <3>5. m \in Memory /\ m.seen = mem[i].seen /\ m.index = mem[i].index
      BY <1>1, <3>3, <3>4 DEF Memory
    <3> HIDE DEF m
    <3> QED BY <1>1, <3>2, <3>5, PersistOutcome
  <2> QED BY <2>1, <2>2, <2>3, <2>4
<1>3. OnlyOf(i) /\ mem'[i] = r
  BY <1>1, <1>2, OnlyThisMemory
<1>4. PublishesIndex(i)
  BY <1>2, <1>3 DEF PublishesIndex
<1>5. faults' = 0 => faults = 0
  BY <1>1, <1>2
<1>6. Tends(i)
  BY <1>1, <1>2, <1>3 DEF Tends
<1> QED BY <1>1, <1>3, <1>4, <1>5, <1>6 DEF Quiet

\* Reloads of the meta file or of its index.
LEMMA RereadSteps ==
  ASSUME TipInv, NEW i \in Reloaders, ReloadMetaFromDisk(i) \/ ReloadSeqIndexFromDisk(i)
  PROVE  Quiet(i)
<1>1. i \in Instances
  BY RolesAssumption
<1>2. mem[i] \in Memory /\ UNCHANGED <<journal, up, critical, life, authors, meta, faults>>
      /\ critical.by # i
  BY <1>1, Parts DEF ReloadMetaFromDisk, ReloadSeqIndexFromDisk
<1>3. PICK r : mem' = [mem EXCEPT ![i] = r] /\ r.index = meta.index
  <2>1. CASE ReloadMetaFromDisk(i)
    <3> DEFINE tip == Max({mem[i].highWater, DiskTip})
               r == [mem[i] EXCEPT !.latest = tip, !.highWater = tip,
                                   !.seen = meta.seen, !.index = meta.index]
    <3>1. mem' = [mem EXCEPT ![i] = r]
      BY <2>1 DEF ReloadMetaFromDisk
    <3> HIDE DEF tip
    <3>2. r.index = meta.index
      BY <1>2 DEF Memory
    <3> QED BY <3>1, <3>2
  <2>2. CASE ReloadSeqIndexFromDisk(i)
    <3> DEFINE r == [mem[i] EXCEPT !.index = meta.index]
    <3>1. mem' = [mem EXCEPT ![i] = r] /\ r.index = meta.index
      BY <1>2, <2>2 DEF ReloadSeqIndexFromDisk, Memory
    <3> QED BY <3>1
  <2> QED BY <2>1, <2>2
<1>4. OnlyOf(i) /\ mem'[i] = r
  BY <1>1, <1>2, <1>3, OnlyThisMemory
<1>5. Rereads(i) /\ PublishesIndex(i)
  BY <1>2, <1>3, <1>4 DEF Rereads, PublishesIndex
<1> QED BY <1>2, <1>4, <1>5 DEF Quiet

\* The end of a process.
LEMMA EndSteps ==
  ASSUME TipInv, NEW i \in Instances, Crash(i)
  PROVE  Quiet(i)
<1>1. /\ UNCHANGED <<journal, meta, life, authors, faults>>
      /\ mem' = [mem EXCEPT ![i] = NoMemory] /\ up' = [up EXCEPT ![i] = FALSE]
      /\ critical' = IF critical.by = i THEN Idle ELSE critical
  BY DEF Crash
<1>2. OnlyOf(i) /\ mem'[i] = NoMemory /\ ~up'[i]
  BY <1>1, Parts, OnlyThisMemory
<1> QED BY <1>1, <1>2 DEF Quiet, Ends, PublishesIndex

\* Every step is one of these or writes to the journal file.
LEMMA StepKinds ==
  ASSUME TipInv, NEW i \in Instances, Step(i)
  PROVE  \/ Quiet(i)
         \/ Open(i)
         \/ i \in Writers /\ \E t \in Trades : AppendLine(i, t) \/ AppendTorn(i, t)
         \/ i \in Compactors /\ \E n \in 2 .. MaxSeq : CompactJournal(i, n)
<1>1. CASE Crash(i)
  BY <1>1, EndSteps
<1>2. CASE AppendMeta(i)
  BY <1>2, BookSteps
<1>3. CASE FlushMeta(i) \/ IdleFlushCallback(i) \/ IdleFlushTimesOut(i)
           \/ ReadLatestSeqFromDisk(i) \/ \E n \in 1 .. MaxSeq : EnsureLatestSeqAtLeast(i, n)
  BY <1>3, TendSteps DEF FlushMeta, IdleFlushCallback
<1>4. CASE i \in Reloaders /\ (ReloadMetaFromDisk(i) \/ ReloadSeqIndexFromDisk(i))
  BY <1>4, RereadSteps
<1>5. CASE CompactMeta(i)
  BY <1>5, RebuildSteps
<1> QED BY <1>1, <1>2, <1>3, <1>4, <1>5 DEF Step

-----------------------------------------------------------------------------
(* The numbers of the lines *)

Calm == OneAuthor /\ faults = 0

Ascending(j) == \A p, q \in DOMAIN j : p < q => j[p].seq < j[q].seq

\* The lines of j are before the next one that i writes.  Between the two halves
\* of an append the last line is already there.
Behind(j, i) ==
    \A p \in DOMAIN j : \/ j[p].seq <= mem[i].latest
                        \/ Holds(i, "append") /\ j[p].seq <= mem[i].latest + 1

\* The author that runs: the instance, in the incarnation that appended.
Writes(i) == up[i] /\ <<i, life[i]>> \in authors

\* Ascending alone is not inductive: the next number comes from the memory of
\* the author, and only of the one incarnation that wrote the lines.
LinesInv ==
    /\ authors = {} => journal = << >>
    /\ \A a \in authors : a[2] <= life[a[1]]
    /\ \A i \in Instances : up[i] => life[i] >= 1
    /\ \A i \in Instances : Holds(i, "append") => Writes(i)
    /\ Calm => /\ \A p \in DOMAIN journal : journal[p].ended
               /\ Ascending(journal)
               /\ \A i \in Instances : Writes(i) => Behind(journal, i)

\* Nobody holds the lock when it is free.
LEMMA NobodyHolds ==
  ASSUME critical = Idle
  PROVE  \A i \in Instances, op \in {"append", "compact"} : ~Holds(i, op)
  BY RolesAssumption DEF Idle, Holds

\* A quiet step lets the others hold what they held, and only the one that steps
\* may let go.
LEMMA QuietHolds ==
  ASSUME TipInv, NEW i \in Instances, Quiet(i)
  PROVE  /\ \A j \in Instances : up'[j] => up[j]
         /\ \A j \in Instances, op \in {"append", "compact"} :
              Holds(j, op)' => Holds(j, op) /\ (up[j] => up'[j])
         /\ \A j \in Instances \ {i}, op \in {"append", "compact"} :
              Holds(j, op) => Holds(j, op)'
         /\ Holds(i, "append") => Holds(i, "append")' \/ Books(i) \/ Ends(i)
<1>1. \A j \in Instances \ {i} : up'[j] = up[j]
  BY DEF Quiet, OnlyOf
<1>2. CASE Books(i) \/ Rebuilds(i)
  <2>1. critical' = Idle /\ up' = up /\ critical.by = i
    BY <1>2 DEF Books, Rebuilds, Holds
  <2>2. \A j \in Instances, op \in {"append", "compact"} : ~Holds(j, op)'
    BY <2>1, RolesAssumption DEF Idle, Holds
  <2>3. \A j \in Instances \ {i}, op \in {"append", "compact"} : ~Holds(j, op)
    BY <2>1 DEF Holds
  <2>4. Holds(i, "append") => Books(i)
    BY <1>2 DEF Rebuilds, Holds
  <2> QED BY <2>1, <2>2, <2>3, <2>4
<1>3. CASE Tends(i) \/ Rereads(i)
  <2>1. critical' = critical /\ up' = up
    BY <1>3 DEF Tends, Rereads
  <2> QED BY <2>1 DEF Holds
<1>4. CASE Ends(i)
  <2>1. ~up'[i] /\ critical' = IF critical.by = i THEN Idle ELSE critical
    BY <1>4 DEF Ends
  <2>2. CASE critical.by = i
    <3>1. \A j \in Instances, op \in {"append", "compact"} : ~Holds(j, op)'
      BY <2>1, <2>2, RolesAssumption DEF Idle, Holds
    <3> QED BY <1>1, <1>4, <2>1, <2>2, <3>1 DEF Holds
  <2>3. CASE critical.by # i
    <3>1. critical' = critical
      BY <2>1, <2>3
    <3> QED BY <1>1, <1>4, <2>1, <2>3, <3>1 DEF Holds
  <2> QED BY <2>2, <2>3
<1> QED BY <1>2, <1>3, <1>4 DEF Quiet

\* The tips as numbers.
LEMMA TipNumbers ==
  ASSUME TipInv
  PROVE  /\ \A i \in Instances : mem[i] \in Memory /\ mem[i].latest \in Nat
         /\ \A p \in DOMAIN journal : p \in 1 .. Len(journal) /\ journal[p] \in Line
                                      /\ journal[p].seq \in Nat
         /\ Len(journal) \in Nat
<1>1. \A i \in Instances : mem[i] \in Memory
  BY Parts
<1>2. DOMAIN journal = 1 .. Len(journal) /\ Len(journal) \in Nat
      /\ \A p \in 1 .. Len(journal) : journal[p] \in Line
  BY Parts
<1> QED BY <1>1, <1>2 DEF Memory, Line

\* The lines stay as they are and no tip goes back.
LEMMA LinesQuiet ==
  ASSUME TipInv, TipInv', TipsAdvance, LinesInv, NEW i \in Instances, Quiet(i)
  PROVE  LinesInv'
<1>1. UNCHANGED <<journal, life, authors>> /\ (faults' = 0 => faults = 0)
  BY DEF Quiet
<1>2. Calm' => Calm
  BY <1>1 DEF Calm, OneAuthor
<1>3. \A j \in Instances : Writes(j)' => Writes(j)
  BY <1>1, QuietHolds DEF Writes
<1>4. \A j \in Instances : Holds(j, "append")' => Writes(j)'
  BY <1>1, QuietHolds DEF LinesInv, Writes
<1>5. ASSUME Calm, NEW j \in Instances, Writes(j)', NEW p \in DOMAIN journal
      PROVE  \/ journal[p].seq <= mem'[j].latest
             \/ Holds(j, "append")' /\ journal[p].seq <= mem'[j].latest + 1
  <2>1. Writes(j) /\ up[j] /\ up'[j]
    BY <1>3, <1>5 DEF Writes
  <2>2. mem[j].latest \in Nat /\ mem'[j].latest \in Nat /\ journal[p].seq \in Nat
        /\ mem'[j].latest >= mem[j].latest
    <3>1. mem'[j] \in Memory
      BY DEF TipInv, TypeOK
    <3>2. mem'[j].latest \in Nat
      BY <3>1 DEF Memory
    <3> QED BY <1>5, <2>1, <3>2, TipNumbers DEF TipsAdvance
  <2>3. CASE journal[p].seq <= mem[j].latest
    BY <2>2, <2>3
  <2>4. CASE Holds(j, "append") /\ journal[p].seq <= mem[j].latest + 1
    <3>1. CASE Holds(j, "append")'
      BY <2>2, <2>4, <3>1
    <3>2. CASE ~Holds(j, "append")'
      <4>1. j = i /\ Books(i)
        BY <2>1, <2>4, <3>2, QuietHolds DEF Ends
      <4>2. mem'[j].latest >= mem[j].latest + 1
        BY <4>1 DEF Books
      <4> QED BY <2>2, <2>4, <4>2
    <3> QED BY <3>1, <3>2
  <2> QED BY <1>5, <2>1, <2>3, <2>4 DEF LinesInv, Behind
<1>6. Calm => \A j \in Instances : Writes(j)' => Behind(journal, j)'
  BY <1>1, <1>5 DEF Behind
<1>7. /\ authors' = {} => journal' = << >>
      /\ \A a \in authors' : a[2] <= life'[a[1]]
  BY <1>1 DEF LinesInv
<1>8. \A j \in Instances : up'[j] => life'[j] >= 1
  BY <1>1, QuietHolds DEF LinesInv
<1>9. Calm' => /\ \A p \in DOMAIN journal' : journal'[p].ended
               /\ Ascending(journal')
  BY <1>1, <1>2 DEF LinesInv
<1> QED BY <1>2, <1>4, <1>6, <1>7, <1>8, <1>9 DEF LinesInv

\* A new process is not the author of anything yet, and the others go on.
LEMMA OpenFrame ==
  ASSUME TipInv, LinesInv, NEW i \in Instances, Open(i)
  PROVE  /\ UNCHANGED <<journal, meta, authors, critical, faults>> /\ ~up[i]
         /\ life'[i] = life[i] + 1 /\ life[i] \in Nat /\ mem'[i] = Loaded
         /\ \A j \in Instances \ {i} : up'[j] = up[j] /\ life'[j] = life[j] /\ mem'[j] = mem[j]
         /\ \A a \in authors : a[2] <= life'[a[1]]
         /\ ~Writes(i)' /\ \A j \in Instances \ {i} : Writes(j)' <=> Writes(j)
         /\ \A j \in Instances, op \in {"append", "compact"} : Holds(j, op)' <=> Holds(j, op)
         /\ Calm' <=> Calm
<1>1. /\ UNCHANGED <<journal, meta, authors, critical, faults>> /\ ~up[i]
      /\ up' = [up EXCEPT ![i] = TRUE] /\ life' = [life EXCEPT ![i] = @ + 1]
      /\ mem' = [mem EXCEPT ![i] = Loaded]
  BY DEF Open
<1>2. /\ \A j \in Instances : life[j] \in Nat
      /\ \A j \in Instances \ {i} : up'[j] = up[j] /\ life'[j] = life[j] /\ mem'[j] = mem[j]
      /\ life'[i] = life[i] + 1 /\ up'[i] /\ mem'[i] = Loaded
  BY <1>1, Parts
<1>3. \A a \in authors : a[1] \in Instances /\ a[2] \in Nat /\ a[2] <= life[a[1]]
  BY Parts DEF LinesInv
<1>4. \A a \in authors : a[2] <= life'[a[1]]
  <2> SUFFICES ASSUME NEW a \in authors PROVE a[2] <= life'[a[1]]
    OBVIOUS
  <2>1. CASE a[1] = i
    BY <1>2, <1>3, <2>1
  <2>2. CASE a[1] # i
    BY <1>2, <1>3, <2>2
  <2> QED BY <2>1, <2>2
<1>5. ~Writes(i)'
  <2>1. <<i, life'[i]>> \notin authors
    <3> SUFFICES ASSUME <<i, life'[i]>> \in authors PROVE FALSE
      OBVIOUS
    <3>1. life'[i] <= life[i]
      BY <1>3
    <3> QED BY <1>2, <3>1
  <2> QED BY <1>1, <2>1 DEF Writes
<1>6. \A j \in Instances \ {i} : Writes(j)' <=> Writes(j)
  BY <1>1, <1>2 DEF Writes
<1>7. \A j \in Instances, op \in {"append", "compact"} : Holds(j, op)' <=> Holds(j, op)
  BY <1>1 DEF Holds
<1>8. Calm' <=> Calm
  BY <1>1 DEF Calm, OneAuthor
<1> QED BY <1>1, <1>2, <1>4, <1>5, <1>6, <1>7, <1>8

\* A new process changes no line.
LEMMA LinesOpen ==
  ASSUME TipInv, LinesInv, NEW i \in Instances, Open(i)
  PROVE  LinesInv'
<1>1. ~Holds(i, "append")
  BY OpenFrame DEF LinesInv, Writes
<1>2. \A j \in Instances \ {i} : Behind(journal, j)' <=> Behind(journal, j)
  BY OpenFrame DEF Behind
<1>3. \A j \in Instances : up'[j] => life'[j] >= 1
  BY OpenFrame DEF LinesInv
<1>4. \A j \in Instances : Holds(j, "append")' => Writes(j)'
  BY <1>1, OpenFrame DEF LinesInv
<1>5. Calm' => \A j \in Instances : Writes(j)' => Behind(journal, j)'
  BY <1>2, OpenFrame DEF LinesInv
<1>6. /\ authors' = {} => journal' = << >>
      /\ Calm' => /\ \A p \in DOMAIN journal' : journal'[p].ended
                  /\ Ascending(journal')
  BY OpenFrame DEF LinesInv
<1>7. \A a \in authors' : a[2] <= life'[a[1]]
  BY OpenFrame
<1> QED BY <1>3, <1>4, <1>5, <1>6, <1>7 DEF LinesInv

\* A line written to a journal without an open end follows its last line.
LEMMA WrittenLine ==
  ASSUME NEW j \in Seq(Line), \A p \in DOMAIN j : j[p].ended, NEW l \in Line
  PROVE  /\ WriteLine(j, l) = Append(j, l)
         /\ WriteLine(j, l) \in Seq(Line) /\ Len(j) \in Nat
         /\ Len(WriteLine(j, l)) = Len(j) + 1 /\ DOMAIN WriteLine(j, l) = 1 .. Len(j) + 1
         /\ \A p \in 1 .. Len(j) : WriteLine(j, l)[p] = j[p]
         /\ WriteLine(j, l)[Len(j) + 1] = l
<1>1. j = << >> \/ j[Len(j)].ended
  <2>1. j # << >> => Len(j) \in DOMAIN j
    OBVIOUS
  <2> QED BY <2>1
<1>2. WriteLine(j, l) = Append(j, l)
  BY <1>1 DEF WriteLine
<1> QED BY <1>2

\* What the first half of append does, as far as the lines go.
LEMMA LineIsWritten ==
  ASSUME TipInv, LinesInv, NEW i \in Instances, NEW t \in Trades, AppendLine(i, t)
  PROVE  /\ up[i] /\ critical = Idle /\ UNCHANGED <<mem, up, life, meta, faults>>
         /\ Writes(i)' /\ Holds(i, "append")'
         /\ critical'.trade = t /\ critical'.off = Len(journal)
         /\ \A j \in Instances \ {i} : ~Holds(j, "append")' /\ ~Holds(j, "compact")'
         /\ NextLine(i, t) \in Line
         /\ Calm' => /\ Calm
                     /\ \A j \in Instances : Writes(j)' => j = i
                     /\ journal # << >> => Writes(i)
                     /\ journal' = Append(journal, NextLine(i, t))
                     /\ \A p \in DOMAIN journal : journal[p].seq <= mem[i].latest
<1>1. /\ up[i] /\ critical = Idle /\ UNCHANGED <<mem, up, life, meta, faults>>
      /\ authors' = authors \cup {<<i, life[i]>>}
      /\ journal' = WriteLine(journal, NextLine(i, t))
      /\ critical' = [by |-> i, op |-> "append", trade |-> t, off |-> Len(journal)]
  BY DEF AppendLine, MayAppend, LockFree
<1>2. Writes(i)' /\ Holds(i, "append")'
  BY <1>1 DEF Writes, Holds
<1>3. \A j \in Instances \ {i} : ~Holds(j, "append")' /\ ~Holds(j, "compact")'
  BY <1>1 DEF Holds
<1>4. NextLine(i, t) \in Line
  <2>1. mem[i].latest + 1 \in Nat
    BY TipNumbers
  <2> QED BY <2>1 DEF NextLine, Line
<1>5. ASSUME Calm'
      PROVE  /\ Calm
             /\ \A j \in Instances : Writes(j)' => j = i
             /\ journal # << >> => Writes(i)
             /\ journal' = Append(journal, NextLine(i, t))
             /\ \A p \in DOMAIN journal : journal[p].seq <= mem[i].latest
  <2>1. Calm
    BY <1>1, <1>5 DEF Calm, OneAuthor
  <2>2. \A a \in authors : a = <<i, life[i]>>
    BY <1>1, <1>5 DEF Calm, OneAuthor
  <2>3. \A j \in Instances : Writes(j)' => j = i
    BY <1>1, <2>2 DEF Writes
  <2>4. journal # << >> => Writes(i)
    BY <1>1, <2>2 DEF LinesInv, Writes
  <2>5. journal' = Append(journal, NextLine(i, t))
    BY <1>1, <1>4, <2>1, WrittenLine, Parts DEF LinesInv
  <2>6. \A p \in DOMAIN journal : journal[p].seq <= mem[i].latest
    <3>1. ~Holds(i, "append")
      BY <1>1, NobodyHolds
    <3>2. CASE journal = << >>
      BY <3>2
    <3>3. CASE journal # << >>
      BY <2>1, <2>4, <3>1, <3>3 DEF LinesInv, Behind
    <3> QED BY <3>2, <3>3
  <2> QED BY <2>1, <2>3, <2>4, <2>5, <2>6
<1> QED BY <1>1, <1>2, <1>3, <1>4, <1>5

\* An appended line gets the next number.
LEMMA LinesAppend ==
  ASSUME TipInv, LinesInv, NEW i \in Instances, NEW t \in Trades, AppendLine(i, t)
  PROVE  LinesInv'
<1>1. /\ UNCHANGED <<mem, up, life>> /\ Writes(i)' /\ Holds(i, "append")'
      /\ \A j \in Instances \ {i} : ~Holds(j, "append")'
  BY LineIsWritten
<1>2. authors' # {} /\ \A a \in authors' : a \in authors \/ a = <<i, life[i]>>
  BY DEF AppendLine
<1>3. \A a \in authors' : a[2] <= life'[a[1]]
  <2>1. life[i] \in Nat
    BY Parts
  <2>2. life[i] <= life[i]
    BY <2>1
  <2> QED BY <1>1, <1>2, <2>2 DEF LinesInv
<1>4. \A j \in Instances : up'[j] => life'[j] >= 1
  BY <1>1 DEF LinesInv
<1>5. \A j \in Instances : Holds(j, "append")' => Writes(j)'
  BY <1>1
<1>6. ASSUME Calm'
      PROVE  /\ \A p \in DOMAIN journal' : journal'[p].ended
             /\ Ascending(journal')
             /\ \A j \in Instances : Writes(j)' => Behind(journal, j)'
  <2> DEFINE l == NextLine(i, t)
             n == Len(journal)
  <2>1. /\ Calm /\ journal' = Append(journal, l) /\ l \in Line
        /\ \A j \in Instances : Writes(j)' => j = i
        /\ \A p \in DOMAIN journal : journal[p].seq <= mem[i].latest
    BY <1>6, LineIsWritten
  <2>2. l.seq = mem[i].latest + 1 /\ l.ended
    BY DEF NextLine
  <2> HIDE DEF l
  <2>3. /\ n \in Nat /\ DOMAIN journal' = 1 .. n + 1 /\ journal'[n + 1] = l
        /\ DOMAIN journal = 1 .. n
        /\ \A p \in 1 .. n : journal'[p] = journal[p] /\ journal[p].seq \in Nat
    BY <2>1, TipNumbers, Parts
  <2> HIDE DEF n
  <2>4. mem[i].latest \in Nat
    BY TipNumbers
  <2>5. \A p \in 1 .. n + 1 : p \in 1 .. n \/ p = n + 1
    BY <2>3
  <2>6. \A p \in DOMAIN journal' : journal'[p].ended
    BY <2>1, <2>2, <2>3, <2>5 DEF LinesInv
  <2>7. Ascending(journal')
    <3> SUFFICES ASSUME NEW p \in 1 .. n + 1, NEW q \in 1 .. n + 1, p < q
                 PROVE  journal'[p].seq < journal'[q].seq
      BY <2>3 DEF Ascending
    <3>1. p \in 1 .. n
      BY <2>3
    <3>2. CASE q \in 1 .. n
      <4>1. journal[p].seq < journal[q].seq
        BY <2>1, <2>3, <3>1, <3>2 DEF LinesInv, Ascending
      <4> QED BY <2>3, <3>1, <3>2, <4>1
    <3>3. CASE q = n + 1
      <4>1. journal[p].seq <= mem[i].latest /\ journal'[p].seq = journal[p].seq
            /\ journal[p].seq \in Nat
        BY <2>1, <2>3, <3>1
      <4>2. journal'[q].seq = mem[i].latest + 1
        BY <2>2, <2>3, <3>3
      <4> QED BY <2>4, <4>1, <4>2
    <3> QED BY <2>5, <3>2, <3>3
  <2>8. Behind(journal, i)'
    <3> SUFFICES ASSUME NEW p \in 1 .. n + 1 PROVE journal'[p].seq <= mem[i].latest + 1
      BY <1>1, <2>3 DEF Behind
    <3>1. CASE p \in 1 .. n
      <4>1. journal[p].seq <= mem[i].latest /\ journal'[p].seq = journal[p].seq
            /\ journal[p].seq \in Nat
        BY <2>1, <2>3, <3>1
      <4> QED BY <2>4, <4>1
    <3>2. CASE p = n + 1
      BY <2>2, <2>3, <2>4, <3>2
    <3> QED BY <2>5, <3>1, <3>2
  <2> QED BY <2>1, <2>6, <2>7, <2>8
<1> QED BY <1>2, <1>3, <1>4, <1>5, <1>6 DEF LinesInv

\* A write that fails ends what is claimed of runs without failures.
LEMMA LinesTorn ==
  ASSUME TipInv, LinesInv, NEW i \in Instances, NEW t \in Trades, AppendTorn(i, t)
  PROVE  LinesInv' /\ ~Calm'
<1>1. /\ up[i] /\ critical = Idle /\ UNCHANGED <<mem, up, life, critical>>
      /\ authors' = authors \cup {<<i, life[i]>>} /\ faults' = faults + 1
  BY DEF AppendTorn, MayAppend, LockFree, Fault
<1>2. ~Calm'
  BY <1>1, Parts DEF Calm
<1>3. \A j \in Instances : ~Holds(j, "append")'
  BY <1>1, NobodyHolds DEF Holds
<1>4. \A a \in authors' : a[2] <= life'[a[1]]
  <2>1. life[i] \in Nat
    BY Parts
  <2>2. life[i] <= life[i]
    BY <2>1
  <2> QED BY <1>1, <2>2 DEF LinesInv
<1>5. authors' # {} /\ \A j \in Instances : up'[j] => life'[j] >= 1
  BY <1>1 DEF LinesInv
<1> QED BY <1>2, <1>3, <1>4, <1>5 DEF LinesInv

-----------------------------------------------------------------------------
(* Compaction keeps the end of the journal *)

\* An increasing enumeration of the numbers from k + 1 to n counts them.
LEMMA EnumeratesTail ==
  ASSUME NEW n \in Nat, NEW k \in 0 .. n, NEW f \in InOrder(k + 1 .. n)
  PROVE  /\ DOMAIN f = 1 .. n - k
         /\ \A p \in 1 .. n - k : f[p] = k + p
<1> DEFINE c == n - k
<1>1. c \in Nat /\ k \in Nat /\ c + k = n
  OBVIOUS
<1>2. Cardinality(k + 1 .. n) = c
  <2>1. PICK a \in Int : a = k + 1
    BY <1>1
  <2>2. Cardinality(a .. n) = IF a > n THEN 0 ELSE n - a + 1
    BY <2>1, FS_Interval, n \in Int
  <2>3. (IF a > n THEN 0 ELSE n - a + 1) = c
    BY <1>1, <2>1
  <2> QED BY <2>1, <2>2, <2>3
<1>3. f \in [1 .. c -> k + 1 .. n] /\ DOMAIN f = 1 .. c
      /\ \A a, b \in 1 .. c : a < b => f[a] < f[b]
  BY <1>2 DEF InOrder
<1> HIDE DEF c
<1>4. \A p \in 1 .. c : f[p] \in Nat /\ k + 1 <= f[p] /\ f[p] <= n
  BY <1>1, <1>3
<1> DEFINE Up == {p \in Nat : p \in 1 .. c => f[p] >= k + p}
           Down == {p \in Nat : p \in 0 .. c - 1 => f[c - p] <= n - p}
<1>5. Up = Nat
  <2>1. 0 \in Up
    OBVIOUS
  <2>2. ASSUME NEW p \in Up PROVE p + 1 \in Up
    <3> SUFFICES ASSUME p + 1 \in 1 .. c PROVE f[p + 1] >= k + (p + 1)
      OBVIOUS
    <3>1. p \in Nat
      OBVIOUS
    <3>2. CASE p = 0
      <4>1. 1 \in 1 .. c /\ p + 1 = 1
        BY <3>2
      <4>2. f[1] >= k + 1
        BY <1>1, <1>4, <4>1
      <4> QED BY <4>1, <4>2
    <3>3. CASE p # 0
      <4>1. p \in 1 .. c /\ p < p + 1
        BY <1>1, <3>1, <3>3
      <4>2. f[p] < f[p + 1] /\ f[p] >= k + p
        BY <1>3, <4>1
      <4> QED BY <1>1, <1>4, <3>1, <4>1, <4>2
    <3> QED BY <3>2, <3>3
  <2>3. Up \subseteq Nat
    OBVIOUS
  <2> HIDE DEF Up
  <2> QED BY <2>1, <2>2, <2>3, SetInduction
<1>6. Down = Nat
  <2>1. 0 \in Down
    <3> SUFFICES ASSUME 0 \in 0 .. c - 1 PROVE f[c - 0] <= n - 0
      OBVIOUS
    <3>1. c \in 1 .. c /\ c - 0 = c /\ n - 0 = n
      BY <1>1
    <3> QED BY <1>4, <3>1
  <2>2. ASSUME NEW p \in Down PROVE p + 1 \in Down
    <3> SUFFICES ASSUME p + 1 \in 0 .. c - 1 PROVE f[c - (p + 1)] <= n - (p + 1)
      OBVIOUS
    <3>1. p \in Nat /\ p \in 0 .. c - 1
      BY <1>1
    <3>2. c - p \in 1 .. c /\ c - (p + 1) \in 1 .. c /\ c - (p + 1) < c - p
      BY <1>1, <3>1
    <3>3. f[c - (p + 1)] < f[c - p] /\ f[c - p] <= n - p
      BY <1>3, <3>1, <3>2
    <3> QED BY <1>1, <1>4, <3>1, <3>2, <3>3
  <2>3. Down \subseteq Nat
    OBVIOUS
  <2> HIDE DEF Down
  <2> QED BY <2>1, <2>2, <2>3, SetInduction
<1>7. ASSUME NEW p \in 1 .. c PROVE f[p] = k + p
  <2>1. f[p] >= k + p
    <3>1. p \in Up
      BY <1>5
    <3> QED BY <3>1
  <2>2. PICK d \in Nat : d = c - p
    BY <1>1
  <2>3. d \in 0 .. c - 1 /\ c - d = p
    BY <1>1, <2>2
  <2>4. f[p] <= n - d
    <3>1. d \in Down
      BY <1>6
    <3>2. f[c - d] <= n - d
      BY <2>3, <3>1
    <3> QED BY <2>3, <3>2
  <2>5. n - d = k + p
    BY <1>1, <2>2
  <2> QED BY <1>1, <1>4, <2>1, <2>4, <2>5
<1> QED BY <1>3, <1>7 DEF c

\* In a journal whose numbers increase the lines that survive are the last ones.
LEMMA KeptIsTheEnd ==
  ASSUME TypeOK, Ascending(journal), NEW m \in Nat
  PROVE  \E k \in 0 .. Len(journal) : Kept(m) = k + 1 .. Len(journal)
<1> DEFINE n == Len(journal)
<1>1. /\ DOMAIN journal = 1 .. n /\ n \in Nat
      /\ \A p \in 1 .. n : journal[p] \in Line
  BY DEF TypeOK
<1>2. \A p \in 1 .. n : journal[p].seq \in Nat
  BY <1>1 DEF Line
<1> HIDE DEF n
<1> DEFINE P(x) == \E k \in 0 .. x : \A p \in 1 .. x : journal[p].seq >= m <=> p > k
           S == {x \in Nat : x <= n => P(x)}
<1>3. 0 \in S
  <2>1. \A p \in 1 .. 0 : journal[p].seq >= m <=> p > 0
    OBVIOUS
  <2> QED BY <2>1
<1>4. ASSUME NEW x \in S PROVE x + 1 \in S
  <2> SUFFICES ASSUME x + 1 <= n PROVE P(x + 1)
    OBVIOUS
  <2>1. x \in Nat /\ x <= n /\ x + 1 \in 1 .. n
    BY <1>1
  <2>2. PICK k \in 0 .. x : \A p \in 1 .. x : journal[p].seq >= m <=> p > k
    BY <2>1
  <2>3. CASE journal[x + 1].seq >= m
    <3>1. \A p \in 1 .. x + 1 : journal[p].seq >= m <=> p > k
      BY <2>1, <2>2, <2>3
    <3> QED BY <2>1, <3>1, k \in 0 .. x + 1
  <2>4. CASE ~(journal[x + 1].seq >= m)
    <3>1. ASSUME NEW p \in 1 .. x + 1 PROVE ~(journal[p].seq >= m)
      <4>1. CASE p = x + 1
        BY <2>4, <4>1
      <4>2. CASE p # x + 1
        <5>1. p \in 1 .. n /\ p < x + 1
          BY <1>1, <2>1, <4>2
        <5>2. journal[p].seq < journal[x + 1].seq
          BY <1>1, <2>1, <5>1 DEF Ascending
        <5> QED BY <1>2, <2>1, <2>4, <5>1, <5>2
      <4> QED BY <4>1, <4>2
    <3>2. \A p \in 1 .. x + 1 : journal[p].seq >= m <=> p > x + 1
      BY <2>1, <3>1
    <3> QED BY <2>1, <3>2, x + 1 \in 0 .. x + 1
  <2> QED BY <2>3, <2>4
<1>5. S \subseteq Nat
  OBVIOUS
<1> HIDE DEF S
<1>6. S = Nat
  BY <1>3, <1>4, <1>5, SetInduction
<1>7. P(n)
  <2>1. n \in S /\ n <= n
    BY <1>1, <1>6
  <2> HIDE DEF P
  <2> QED BY <2>1, Zenon DEF S
<1>8. PICK k \in 0 .. n : \A p \in 1 .. n : journal[p].seq >= m <=> p > k
  BY <1>7
<1>9. Kept(m) = k + 1 .. n
  <2>1. Kept(m) = {p \in 1 .. n : journal[p].seq >= m}
    BY <1>1 DEF Kept
  <2>2. \A p \in 1 .. n : p > k <=> p \in k + 1 .. n
    BY <1>1
  <2>3. \A p \in k + 1 .. n : p \in 1 .. n
    BY <1>1
  <2> QED BY <1>8, <2>1, <2>2, <2>3
<1> QED BY <1>8, <1>9 DEF n

\* Compaction drops the first k lines and leaves the others as they are.
LEMMA CompactDropsFirst ==
  ASSUME TipInv, LinesInv, Calm, NEW i \in Instances, NEW m \in 2 .. MaxSeq,
         CompactJournal(i, m)
  PROVE  \E k \in 0 .. Len(journal) :
            /\ Len(journal') = Len(journal) - k /\ DOMAIN journal' = 1 .. Len(journal) - k
            /\ \A p \in 1 .. Len(journal) - k :
                  k + p \in 1 .. Len(journal) /\ journal'[p] = journal[k + p]
<1>1. m \in Nat /\ TypeOK /\ Ascending(journal)
  BY SizesAssumption DEF TipInv, LinesInv
<1>2. PICK k \in 0 .. Len(journal) : Kept(m) = k + 1 .. Len(journal)
  BY <1>1, KeptIsTheEnd
<1>3. PICK f \in InOrder(Kept(m)) :
          journal' = [p \in DOMAIN f |-> [journal[f[p]] EXCEPT !.ended = TRUE]]
  BY DEF CompactJournal
<1>4. Len(journal) \in Nat /\ \A p \in 1 .. Len(journal) : journal[p] \in Line /\ journal[p].ended
  BY TipNumbers, Parts DEF LinesInv
<1>5. DOMAIN f = 1 .. Len(journal) - k /\ \A p \in 1 .. Len(journal) - k : f[p] = k + p
  BY <1>2, <1>3, <1>4, EnumeratesTail
<1>6. \A p \in 1 .. Len(journal) - k : k + p \in 1 .. Len(journal)
  BY <1>4
<1>7. \A l \in Line : l.ended => [l EXCEPT !.ended = TRUE] = l
  BY DEF Line
<1>8. \A p \in 1 .. Len(journal) - k : journal'[p] = journal[k + p]
  <2> SUFFICES ASSUME NEW p \in 1 .. Len(journal) - k PROVE journal'[p] = journal[k + p]
    OBVIOUS
  <2>1. journal'[p] = [journal[f[p]] EXCEPT !.ended = TRUE]
    BY <1>3, <1>5
  <2>2. f[p] = k + p
    BY <1>5
  <2>3. PICK q \in 1 .. Len(journal) : q = k + p
    BY <1>6
  <2>4. journal[q] \in Line /\ journal[q].ended
    BY <1>4
  <2>5. [journal[q] EXCEPT !.ended = TRUE] = journal[q]
    BY <1>7, <2>4
  <2> QED BY <2>1, <2>2, <2>3, <2>5
<1>9. DOMAIN journal' = 1 .. Len(journal) - k
  BY <1>3, <1>5
<1>10. Len(journal') = Len(journal) - k
  <2>1. Len(journal) - k \in Nat
    BY <1>4
  <2>2. journal' \in Seq(Line)
    BY CompactJournalStep DEF TipInv, TypeOK
  <2> QED BY <1>9, <2>1, <2>2
<1> QED BY <1>6, <1>8, <1>9, <1>10

\* What a compaction leaves alone.
LEMMA CompactFrame ==
  ASSUME NEW i \in Instances, NEW m, CompactJournal(i, m)
  PROVE  /\ UNCHANGED <<meta, mem, up, life, authors, faults>> /\ up[i] /\ critical = Idle
         /\ journal # << >>
         /\ Holds(i, "compact")' /\ \A j \in Instances : ~Holds(j, "append")'
         /\ \A j \in Instances \ {i} : ~Holds(j, "compact")'
<1>1. /\ UNCHANGED <<meta, mem, up, life, authors, faults>> /\ up[i] /\ critical = Idle
      /\ critical' = [Idle EXCEPT !.by = i, !.op = "compact"]
      /\ Kept(m) # DOMAIN journal
  BY DEF CompactJournal, LockFree
<1>2. critical'.by = i /\ critical'.op = "compact"
  BY <1>1 DEF Idle
<1>3. journal # << >>
  BY <1>1 DEF Kept
<1> QED BY <1>1, <1>2, <1>3 DEF Holds

\* Lines that go leave the others in their order.
LEMMA LinesCompact ==
  ASSUME TipInv, LinesInv, NEW i \in Instances, NEW m \in 2 .. MaxSeq, CompactJournal(i, m)
  PROVE  LinesInv'
<1>1. /\ UNCHANGED <<mem, up, life, authors, faults>> /\ critical = Idle
      /\ \A j \in Instances : ~Holds(j, "append")' /\ ~Holds(j, "append")
      /\ authors # {}
  BY CompactFrame, NobodyHolds DEF LinesInv
<1>2. (Calm' <=> Calm) /\ \A j \in Instances : Writes(j)' <=> Writes(j)
  BY <1>1 DEF Calm, OneAuthor, Writes
<1>3. ASSUME Calm
      PROVE  /\ \A p \in DOMAIN journal' : journal'[p].ended
             /\ Ascending(journal')
             /\ \A j \in Instances : Writes(j)' => Behind(journal, j)'
  <2>1. PICK k \in 0 .. Len(journal) :
            /\ DOMAIN journal' = 1 .. Len(journal) - k
            /\ \A p \in 1 .. Len(journal) - k :
                  k + p \in 1 .. Len(journal) /\ journal'[p] = journal[k + p]
    BY <1>3, CompactDropsFirst
  <2>2. DOMAIN journal = 1 .. Len(journal) /\ Len(journal) \in Nat
    BY Parts
  <2>3. \A p \in DOMAIN journal' : journal'[p].ended
    BY <1>3, <2>1, <2>2 DEF LinesInv
  <2>4. Ascending(journal')
    <3> SUFFICES ASSUME NEW p \in 1 .. Len(journal) - k, NEW q \in 1 .. Len(journal) - k,
                        p < q
                 PROVE  journal'[p].seq < journal'[q].seq
      BY <2>1 DEF Ascending
    <3>1. k + p < k + q
      BY <2>2
    <3>2. journal[k + p].seq < journal[k + q].seq
      BY <1>3, <2>1, <2>2, <3>1 DEF LinesInv, Ascending
    <3> QED BY <2>1, <3>2
  <2>5. ASSUME NEW j \in Instances, Writes(j)' PROVE Behind(journal, j)'
    <3>1. \A p \in DOMAIN journal : journal[p].seq <= mem[j].latest
      BY <1>1, <1>2, <1>3, <2>5 DEF LinesInv, Behind
    <3>2. \A p \in DOMAIN journal' : journal'[p].seq <= mem[j].latest
      BY <2>1, <2>2, <3>1
    <3> QED BY <1>1, <3>2 DEF Behind
  <2> QED BY <2>3, <2>4, <2>5
<1> QED BY <1>1, <1>2, <1>3 DEF LinesInv

\* Every step keeps the order of the lines.
LEMMA LinesKept ==
  ASSUME TipInv, LinesInv, [Next]_vars
  PROVE  LinesInv'
<1>1. TipInv' /\ TipsAdvance
  BY NextKeeps
<1>2. ASSUME NEW i \in Instances, Step(i) PROVE LinesInv'
  <2>1. CASE Quiet(i)
    BY <1>1, <2>1, LinesQuiet
  <2>2. CASE Open(i)
    BY <2>2, LinesOpen
  <2>3. CASE \E t \in Trades : AppendLine(i, t) \/ AppendTorn(i, t)
    BY <2>3, LinesAppend, LinesTorn
  <2>4. CASE \E n \in 2 .. MaxSeq : CompactJournal(i, n)
    BY <2>4, LinesCompact
  <2> QED BY <1>2, <2>1, <2>2, <2>3, <2>4, StepKinds
<1>3. CASE UNCHANGED vars
  <2>1. UNCHANGED <<journal, mem, up, critical, life, authors, faults>>
    BY <1>3 DEF vars
  <2>2. /\ Calm' <=> Calm
        /\ \A j \in Instances : /\ Writes(j)' <=> Writes(j)
                                /\ Holds(j, "append")' <=> Holds(j, "append")
    BY <2>1 DEF Calm, OneAuthor, Writes, Holds
  <2>3. \A j \in Instances : Behind(journal, j)' <=> Behind(journal, j)
    BY <2>1, <2>2 DEF Behind
  <2>4. Ascending(journal)' <=> Ascending(journal)
    BY <2>1 DEF Ascending
  <2> QED BY <2>1, <2>2, <2>3, <2>4 DEF LinesInv
<1> QED BY <1>2, <1>3 DEF Next

\* The order of the lines as an inductive invariant.
THEOREM LinesInvariant == Spec => [](TipInv /\ LinesInv)
<1>1. Init => TipInv /\ LinesInv
  <2> SUFFICES ASSUME Init PROVE TipInv /\ LinesInv
    OBVIOUS
  <2>1. /\ journal = << >> /\ authors = {} /\ up = [i \in Instances |-> FALSE]
        /\ critical = Idle
    BY DEF Init
  <2>2. \A i \in Instances : ~Holds(i, "append") /\ ~up[i]
    BY <2>1, NobodyHolds
  <2>3. \A p \in DOMAIN journal : FALSE
    BY <2>1
  <2> QED BY <2>1, <2>2, <2>3, InitEstablishes DEF LinesInv, Ascending, Behind, Writes
<1>2. TipInv /\ LinesInv /\ [Next]_vars => (TipInv /\ LinesInv)'
  BY NextKeeps, LinesKept
<1> QED BY <1>1, <1>2, PTL DEF Spec

\* With one author and no failed write the numbers of the lines increase from line to
\* line, for any number of instances that compact, repair, adopt and crash beside it.
THEOREM SeqsIncrease == Spec => []SeqsIncreaseForOneAuthor
<1>1. LinesInv => SeqsIncreaseForOneAuthor
  BY DEF LinesInv, Calm, Ascending, SeqsIncreaseForOneAuthor
<1> QED BY <1>1, LinesInvariant, PTL

-----------------------------------------------------------------------------
(* The deduplication window *)

\* The lines of j after p and up to n with the symbol of p.
Later(j, p, n) == {r \in p + 1 .. n : j[r].trade.symbol = j[p].trade.symbol}

\* The windows hold the trade of each of the first n lines of j, at its place, as
\* long as fewer than Window lines of its symbol came later.
Recalls(seen, j, n) ==
    \A p \in 1 .. n :
        LET c == Cardinality(Later(j, p, n))
            w == seen[j[p].trade.symbol]
        IN  c < Window => c < Len(w) /\ w[Len(w) - c] = j[p].trade.id

\* The lines that the memory of i has booked.
Booked(i) == IF Holds(i, "append") THEN Len(journal) - 1 ELSE Len(journal)

Steady == \A a \in authors : a[1] \notin Reloaders

\* Lines with the same trade are far from each other.
Spread(j) ==
    \A p, q \in DOMAIN j :
        p < q /\ j[p].trade = j[q].trade => Cardinality(Later(j, p, q - 1)) >= Window

\* Spread alone is not inductive: the window of the author has to hold what the
\* lines say, in their order.
WindowInv ==
    Calm /\ Steady =>
        /\ \A p \in DOMAIN journal : journal[p].trade \in Trades
        /\ Spread(journal)
        /\ \A i \in Instances : Writes(i) =>
              /\ Recalls(mem[i].seen, journal, Booked(i))
              /\ Holds(i, "append") => /\ journal # << >>
                                       /\ journal[Len(journal)].trade = critical.trade

\* The end of a list, by its elements.
LEMMA LastNElements ==
  ASSUME NEW S, NEW s \in Seq(S), NEW n \in Nat \ {0}
  PROVE  /\ LastN(s, n) \in Seq(S) /\ Len(s) \in Nat /\ Len(LastN(s, n)) \in Nat
         /\ Len(LastN(s, n)) = IF Len(s) <= n THEN Len(s) ELSE n
         /\ \A x \in 1 .. Len(LastN(s, n)) :
              LastN(s, n)[x] = s[Len(s) - Len(LastN(s, n)) + x]
<1>1. Len(s) \in Nat
  OBVIOUS
<1>2. CASE Len(s) <= n
  <2>1. LastN(s, n) = s
    BY <1>2 DEF LastN
  <2>2. \A x \in 1 .. Len(s) : Len(s) - Len(s) + x = x
    BY <1>1
  <2> QED BY <1>1, <1>2, <2>1, <2>2
<1>3. CASE ~(Len(s) <= n)
  <2>1. PICK a \in Nat : a = Len(s) - n + 1
    BY <1>1, <1>3
  <2>2. LastN(s, n) = SubSeq(s, a, Len(s))
    BY <1>3, <2>1 DEF LastN
  <2>3. \A x \in a .. Len(s) : s[x] \in S
    BY <1>1, <1>3, <2>1
  <2>4. /\ SubSeq(s, a, Len(s)) \in Seq(S)
        /\ Len(SubSeq(s, a, Len(s))) = IF a <= Len(s) THEN Len(s) - a + 1 ELSE 0
        /\ \A x \in 1 .. Len(s) - a + 1 : SubSeq(s, a, Len(s))[x] = s[a + x - 1]
    BY <1>1, <2>3, SubSeqProperties
  <2>5. a <= Len(s) /\ Len(s) - a + 1 = n
        /\ \A x \in 1 .. n : a + x - 1 = Len(s) - n + x
    BY <1>1, <1>3, <2>1
  <2>6. Len(LastN(s, n)) = n
    BY <2>2, <2>4, <2>5
  <2>7. \A x \in 1 .. n : LastN(s, n)[x] = s[Len(s) - n + x]
    BY <2>2, <2>4, <2>5
  <2> QED BY <1>1, <1>3, <2>2, <2>4, <2>6, <2>7
<1> QED BY <1>2, <1>3

\* How many lines are later is a number.
LEMMA LaterCount ==
  ASSUME NEW j, NEW p \in Nat, NEW n \in Nat
  PROVE  IsFiniteSet(Later(j, p, n)) /\ Cardinality(Later(j, p, n)) \in Nat
<1>1. Later(j, p, n) \subseteq 1 .. n
  BY DEF Later
<1> QED BY <1>1, PositionsCount

\* Later lines are counted alike in journals that agree.
LEMMA LaterSame ==
  ASSUME NEW j, NEW h, NEW n \in Nat, \A r \in 1 .. n : h[r] = j[r], NEW p \in 1 .. n
  PROVE  Later(h, p, n) = Later(j, p, n)
<1>1. \A r \in p + 1 .. n : r \in 1 .. n
  OBVIOUS
<1> QED BY <1>1 DEF Later

\* What is recalled of a journal is recalled of one with the same first lines.
LEMMA RecallsSame ==
  ASSUME NEW seen, NEW j, NEW h, NEW n \in Nat, \A r \in 1 .. n : h[r] = j[r],
         Recalls(seen, j, n)
  PROVE  Recalls(seen, h, n)
<1> SUFFICES ASSUME NEW p \in 1 .. n, Cardinality(Later(h, p, n)) < Window
             PROVE  LET c == Cardinality(Later(h, p, n))
                        w == seen[h[p].trade.symbol]
                    IN  c < Len(w) /\ w[Len(w) - c] = h[p].trade.id
  BY DEF Recalls
<1>1. Later(h, p, n) = Later(j, p, n) /\ h[p] = j[p]
  BY LaterSame
<1> QED BY <1>1 DEF Recalls

\* One more line is later.
LEMMA OneMoreLater ==
  ASSUME NEW j, NEW n \in Nat, NEW p \in 1 .. n
  PROVE  /\ j[n + 1].trade.symbol # j[p].trade.symbol => Later(j, p, n + 1) = Later(j, p, n)
         /\ j[n + 1].trade.symbol = j[p].trade.symbol =>
              Cardinality(Later(j, p, n + 1)) = Cardinality(Later(j, p, n)) + 1
<1>1. p + 1 .. n + 1 = (p + 1 .. n) \cup {n + 1} /\ n + 1 \notin p + 1 .. n
  OBVIOUS
<1>2. CASE j[n + 1].trade.symbol # j[p].trade.symbol
  <2>1. Later(j, p, n + 1) = Later(j, p, n)
    BY <1>1, <1>2 DEF Later
  <2> QED BY <1>2, <2>1
<1>3. CASE j[n + 1].trade.symbol = j[p].trade.symbol
  <2>1. Later(j, p, n + 1) = Later(j, p, n) \cup {n + 1} /\ n + 1 \notin Later(j, p, n)
    BY <1>1, <1>3 DEF Later
  <2> QED BY <1>3, <2>1, LaterCount, FS_AddElement
<1> QED BY <1>2, <1>3

\* Booking the next line keeps the windows true to the lines.
LEMMA RecallsMore ==
  ASSUME NEW j, NEW n \in Nat, \A p \in 1 .. n + 1 : j[p].trade \in Trades,
         NEW seen \in [Symbols -> Seq(TradeIds)], Recalls(seen, j, n)
  PROVE  Recalls(Remember(seen, j[n + 1].trade), j, n + 1)
<1> DEFINE t == j[n + 1].trade
           q == seen[t.symbol]
           a == Append(q, t.id)
           w == LastN(a, Window)
<1>1. t \in Trades /\ t.symbol \in Symbols /\ t.id \in TradeIds
  BY n + 1 \in 1 .. n + 1 DEF Trades
<1>2. q \in Seq(TradeIds) /\ Len(q) \in Nat
  BY <1>1
<1> HIDE DEF q
<1>3. /\ a \in Seq(TradeIds) /\ Len(a) = Len(q) + 1 /\ a[Len(q) + 1] = t.id
      /\ \A x \in 1 .. Len(q) : a[x] = q[x]
  BY <1>1, <1>2
<1> HIDE DEF a
<1>4. Window \in Nat \ {0}
  BY SizesAssumption
<1>5. /\ Len(w) \in Nat /\ Len(w) = IF Len(a) <= Window THEN Len(a) ELSE Window
      /\ \A x \in 1 .. Len(w) : w[x] = a[Len(a) - Len(w) + x]
  BY <1>3, <1>4, LastNElements
<1>6. Remember(seen, t) = [seen EXCEPT ![t.symbol] = w]
  BY DEF Remember, w, a, q
<1> HIDE DEF w
<1>7. \A s \in Symbols : Remember(seen, t)[s] = IF s = t.symbol THEN w ELSE seen[s]
  BY <1>1, <1>6
<1>8. ASSUME NEW c \in Nat, c < Len(a), c < Window
      PROVE  c < Len(w) /\ w[Len(w) - c] = a[Len(a) - c]
  <2>1. c < Len(w)
    BY <1>5, <1>8
  <2> DEFINE L == Len(w)
             M == Len(a)
  <2>0. L \in Nat /\ M \in Nat /\ c < L
    BY <1>2, <1>3, <1>5, <2>1
  <2> HIDE DEF L, M
  <2>4. L - c \in 1 .. L
    BY <2>0
  <2>2. PICK x \in 1 .. L : x = L - c
    BY <2>4
  <2>5. M - L + x = M - c
    BY <2>0, <2>2
  <2>3. Len(a) - Len(w) + x = Len(a) - c /\ x \in 1 .. Len(w) /\ x = Len(w) - c
    BY <2>2, <2>5 DEF L, M
  <2> QED BY <1>5, <2>1, <2>3
<1> SUFFICES ASSUME NEW p \in 1 .. n + 1,
                    Cardinality(Later(j, p, n + 1)) < Window
             PROVE  LET c == Cardinality(Later(j, p, n + 1))
                        v == Remember(seen, t)[j[p].trade.symbol]
                    IN  c < Len(v) /\ v[Len(v) - c] = j[p].trade.id
  BY DEF Recalls
<1>9. j[p].trade.symbol \in Symbols
  BY DEF Trades
<1>10. CASE p = n + 1
  <2>1. Later(j, p, n + 1) = {}
    BY <1>10 DEF Later
  <2>2. Cardinality(Later(j, p, n + 1)) = 0
    BY <2>1, FS_EmptySet
  <2>3. 0 < Len(w) /\ w[Len(w) - 0] = a[Len(a) - 0]
    <3>1. 0 < Len(a) /\ 0 < Window
      BY <1>2, <1>3, <1>4
    <3> QED BY <1>8, <3>1
  <2>4. a[Len(a) - 0] = t.id
    BY <1>2, <1>3
  <2> QED BY <1>7, <1>9, <1>10, <2>2, <2>3, <2>4
<1>11. CASE p \in 1 .. n
  <2> DEFINE d == Cardinality(Later(j, p, n))
             c == Cardinality(Later(j, p, n + 1))
  <2>1. d \in Nat
    BY <1>11, LaterCount
  <2>2. d < Window => d < Len(seen[j[p].trade.symbol])
          /\ seen[j[p].trade.symbol][Len(seen[j[p].trade.symbol]) - d] = j[p].trade.id
    BY <1>11 DEF Recalls
  <2>3. CASE t.symbol # j[p].trade.symbol
    <3>1. c = d
      BY <1>11, <2>3, OneMoreLater
    <3>2. Remember(seen, t)[j[p].trade.symbol] = seen[j[p].trade.symbol]
      BY <1>7, <1>9, <2>3
    <3> HIDE DEF c, d
    <3> QED BY <2>2, <3>1, <3>2 DEF c
  <2>4. CASE t.symbol = j[p].trade.symbol
    <3>1. c = d + 1
      BY <1>11, <2>4, OneMoreLater
    <3>2. c < Window
      OBVIOUS
    <3> HIDE DEF c, d
    <3>3. d < Window /\ d + 1 < Window
      BY <1>4, <2>1, <3>1, <3>2
    <3>4. d < Len(q) /\ q[Len(q) - d] = j[p].trade.id
      BY <2>2, <2>4, <3>3 DEF q
    <3>5. c \in Nat /\ c < Len(a) /\ Len(a) - c = Len(q) - d /\ Len(q) - d \in 1 .. Len(q)
      BY <1>2, <1>3, <2>1, <3>1, <3>4
    <3>6. c < Len(w) /\ w[Len(w) - c] = a[Len(a) - c]
      BY <1>8, <3>2, <3>5
    <3>7. a[Len(a) - c] = j[p].trade.id
      BY <1>3, <3>4, <3>5
    <3>8. Remember(seen, t)[j[p].trade.symbol] = w
      BY <1>7, <1>9, <2>4
    <3> QED BY <3>6, <3>7, <3>8 DEF c
  <2> QED BY <2>3, <2>4
<1>12. p \in 1 .. n \/ p = n + 1
  OBVIOUS
<1> QED BY <1>10, <1>11, <1>12

\* A quiet step books at most the line that is written.
LEMMA WindowQuiet ==
  ASSUME TipInv, LinesInv, WindowInv, NEW i \in Instances, Quiet(i)
  PROVE  WindowInv'
<1>1. UNCHANGED <<journal, life, authors>> /\ (faults' = 0 => faults = 0)
  BY DEF Quiet
<1>3. Calm' /\ Steady' => Calm /\ Steady
  BY <1>1 DEF Calm, OneAuthor, Steady
<1>2. SUFFICES ASSUME Calm, Steady
               PROVE  \A j \in Instances : Writes(j)' =>
                         /\ Recalls(mem[j].seen, journal, Booked(j))'
                         /\ Holds(j, "append")' => /\ journal # << >>
                                                   /\ journal[Len(journal)].trade = critical'.trade
  <2>1. Calm /\ Steady =>
            (\A p \in DOMAIN journal' : journal'[p].trade \in Trades) /\ Spread(journal')
    BY <1>1 DEF WindowInv
  <2>2. journal' = journal
    BY <1>1
  <2> QED BY <1>2, <1>3, <2>1, <2>2 DEF WindowInv
<1> SUFFICES ASSUME NEW j \in Instances, Writes(j)'
             PROVE  /\ Recalls(mem[j].seen, journal, Booked(j))'
                    /\ Holds(j, "append")' => /\ journal # << >>
                                              /\ journal[Len(journal)].trade = critical'.trade
  OBVIOUS
<1>4. Writes(j) /\ up'[j] /\ j \notin Reloaders
  BY <1>1, <1>2, QuietHolds DEF Writes, Steady
<1>5. /\ Recalls(mem[j].seen, journal, Booked(j))
      /\ Holds(j, "append") => /\ journal # << >>
                               /\ journal[Len(journal)].trade = critical.trade
  BY <1>2, <1>4 DEF WindowInv
<1>6. CASE mem'[j].seen = mem[j].seen /\ (Holds(j, "append")' <=> Holds(j, "append"))
           /\ (Holds(j, "append") => critical' = critical)
  <2>1. Booked(j)' = Booked(j)
    BY <1>1, <1>6 DEF Booked
  <2>2. Recalls(mem[j].seen, journal, Booked(j))'
    BY <1>1, <1>5, <1>6, <2>1 DEF Recalls, Later
  <2> QED BY <1>5, <1>6, <2>2
<1>7. CASE j # i
  <2>1. mem'[j] = mem[j] /\ (Holds(j, "append")' <=> Holds(j, "append"))
    BY <1>7, QuietHolds DEF Quiet, OnlyOf
  <2>2. Holds(j, "append") => critical' = critical
    BY <1>7 DEF Quiet, Books, Rebuilds, Tends, Rereads, Ends, Holds
  <2> QED BY <1>6, <2>1, <2>2
<1>8. CASE j = i /\ Books(i)
  <2>1. /\ Holds(j, "append") /\ ~Holds(j, "append")'
        /\ mem'[j].seen = Remember(mem[j].seen, critical.trade)
    BY <1>8, RolesAssumption DEF Books, Holds, Idle
  <2>2. Booked(j) = Len(journal) - 1 /\ Booked(j)' = Len(journal)
    BY <1>1, <2>1 DEF Booked
  <2>3. PICK n \in Nat : n = Len(journal) - 1 /\ n + 1 = Len(journal)
    <3>1. Len(journal) \in Nat /\ Len(journal) # 0
      BY <1>5, <2>1, Parts
    <3> QED BY <3>1
  <2>4. mem[j].seen \in [Symbols -> Seq(TradeIds)]
    BY Parts DEF Memory
  <2>5. \A p \in 1 .. n + 1 : journal[p].trade \in Trades
    <3>1. DOMAIN journal = 1 .. n + 1
      BY <2>3, Parts
    <3> QED BY <1>2, <3>1 DEF WindowInv
  <2>6. Recalls(Remember(mem[j].seen, journal[n + 1].trade), journal, n + 1)
    BY <1>5, <2>2, <2>3, <2>4, <2>5, RecallsMore
  <2>7. journal[n + 1].trade = critical.trade
    BY <1>5, <2>1, <2>3
  <2>8. Recalls(mem'[j].seen, journal, Len(journal))
    BY <2>1, <2>3, <2>6, <2>7
  <2>9. Recalls(mem[j].seen, journal, Booked(j))'
    BY <1>1, <2>2, <2>8 DEF Recalls, Later
  <2> QED BY <2>1, <2>9
<1>9. CASE j = i /\ (Rebuilds(i) \/ Tends(i))
  <2>1. mem'[j].seen = mem[j].seen
    BY <1>9 DEF Rebuilds, Tends
  <2>2. (Holds(j, "append")' <=> Holds(j, "append")) /\ (Holds(j, "append") => critical' = critical)
    BY <1>9, RolesAssumption DEF Rebuilds, Tends, Holds, Idle
  <2> QED BY <1>6, <2>1, <2>2
<1>10. ~(j = i /\ (Rereads(i) \/ Ends(i)))
  BY <1>4 DEF Rereads, Ends
<1> QED BY <1>7, <1>8, <1>9, <1>10 DEF Quiet

\* A new process has written nothing that its windows should hold.
LEMMA WindowOpen ==
  ASSUME TipInv, LinesInv, WindowInv, NEW i \in Instances, Open(i)
  PROVE  WindowInv'
<1>1. /\ UNCHANGED <<journal, authors, critical>> /\ ~Writes(i)' /\ (Calm' <=> Calm)
      /\ \A j \in Instances \ {i} : Writes(j)' => Writes(j) /\ mem'[j] = mem[j]
      /\ \A j \in Instances : Holds(j, "append")' <=> Holds(j, "append")
  BY OpenFrame
<1>2. Steady' <=> Steady
  BY <1>1 DEF Steady
<1>3. \A j \in Instances : Booked(j)' = Booked(j)
  <2> SUFFICES ASSUME NEW j \in Instances PROVE Booked(j)' = Booked(j)
    OBVIOUS
  <2>1. (Holds(j, "append")' <=> Holds(j, "append")) /\ journal' = journal
    BY <1>1 DEF Holds
  <2> QED BY <2>1 DEF Booked
<1>4. \A j \in Instances \ {i} : Recalls(mem[j].seen, journal, Booked(j))' <=>
                                 Recalls(mem[j].seen, journal, Booked(j))
  <2> SUFFICES ASSUME NEW j \in Instances \ {i}
               PROVE  Recalls(mem[j].seen, journal, Booked(j))' <=>
                      Recalls(mem[j].seen, journal, Booked(j))
    OBVIOUS
  <2>1. CASE Writes(j)'
    BY <1>1, <1>3, <2>1 DEF Recalls, Later
  <2>2. mem'[j] = mem[j]
    BY OpenFrame
  <2> QED BY <1>1, <1>3, <2>2 DEF Recalls, Later
<1>5. Spread(journal)' <=> Spread(journal)
  BY <1>1 DEF Spread, Later
<1> QED BY <1>1, <1>2, <1>4, <1>5 DEF WindowInv

\* A line is written only when the window does not hold its trade.
LEMMA WindowAppend ==
  ASSUME TipInv, LinesInv, WindowInv, NEW i \in Instances, NEW t \in Trades, AppendLine(i, t)
  PROVE  WindowInv'
<1>1. SUFFICES ASSUME Calm', Steady'
               PROVE  /\ \A p \in DOMAIN journal' : journal'[p].trade \in Trades
                      /\ Spread(journal')
                      /\ \A j \in Instances : Writes(j)' =>
                            /\ Recalls(mem[j].seen, journal, Booked(j))'
                            /\ Holds(j, "append")' =>
                                  /\ journal' # << >>
                                  /\ journal'[Len(journal')].trade = critical'.trade
  BY DEF WindowInv
<1> DEFINE l == NextLine(i, t)
           n == Len(journal)
<1>2. /\ mem' = mem /\ critical = Idle /\ Holds(i, "append")' /\ critical'.trade = t
      /\ Calm /\ journal' = Append(journal, l) /\ l \in Line
      /\ \A j \in Instances : Writes(j)' => j = i
      /\ journal # << >> => Writes(i)
  BY <1>1, LineIsWritten
<1>3. Steady
  BY <1>1 DEF Steady, AppendLine
<1>4. l.trade = t /\ t.symbol \in Symbols /\ t.id \in TradeIds
  BY DEF NextLine, Trades
<1>5. t.id \notin Range(mem[i].seen[t.symbol])
  BY DEF AppendLine, MayAppend
<1> HIDE DEF l
<1>6. /\ n \in Nat /\ DOMAIN journal' = 1 .. n + 1 /\ Len(journal') = n + 1
      /\ journal'[n + 1] = l /\ DOMAIN journal = 1 .. n
      /\ \A p \in 1 .. n : journal'[p] = journal[p]
  BY <1>2, TipNumbers, Parts
<1>7. \A p \in 1 .. n + 1 : p \in 1 .. n \/ p = n + 1
  BY <1>6
<1>8. (\A p \in 1 .. n : journal[p].trade \in Trades) /\ Spread(journal)
  BY <1>2, <1>3, <1>6 DEF WindowInv
<1>9. \A p \in DOMAIN journal' : journal'[p].trade \in Trades
  BY <1>4, <1>6, <1>7, <1>8
<1>10. Booked(i) = n /\ Booked(i)' = n
  <2>1. ~Holds(i, "append")
    BY <1>2, NobodyHolds
  <2>2. n + 1 - 1 = n
    BY <1>6
  <2> QED BY <1>2, <1>6, <2>1, <2>2 DEF Booked
<1>11. Recalls(mem[i].seen, journal, n)
  <2>1. CASE journal = << >>
    <3>1. n = 0
      BY <2>1
    <3> HIDE DEF n
    <3>2. \A p : p \notin 1 .. n
      BY <3>1
    <3> QED BY <3>2, Zenon DEF Recalls
  <2>2. CASE journal # << >>
    BY <1>2, <1>3, <1>10, <2>2 DEF WindowInv
  <2> QED BY <2>1, <2>2
<1> HIDE DEF n
<1>12. Recalls(mem[i].seen, journal', n)
  BY <1>6, <1>11, RecallsSame
<1>13. ASSUME NEW p \in 1 .. n + 1, NEW q \in 1 .. n + 1, p < q,
              journal'[p].trade = journal'[q].trade
       PROVE  Cardinality(Later(journal', p, q - 1)) >= Window
  <2>1. p \in 1 .. n /\ q - 1 \in Nat /\ p \in 1 .. q - 1
    BY <1>6, <1>13
  <2>2. CASE q \in 1 .. n
    <3>1. Cardinality(Later(journal, p, q - 1)) >= Window
      BY <1>6, <1>8, <1>13, <2>1, <2>2 DEF Spread
    <3>2. PICK m \in Nat : m = q - 1
      BY <2>1
    <3>3. \A r \in 1 .. m : journal'[r] = journal[r]
      BY <1>6, <2>2, <3>2
    <3>4. Later(journal', p, m) = Later(journal, p, m)
      BY <2>1, <3>2, <3>3, LaterSame
    <3> QED BY <3>1, <3>2, <3>4
  <2>3. CASE q = n + 1
    <3> DEFINE c == Cardinality(Later(journal', p, n))
               w == mem[i].seen[t.symbol]
    <3>1. q - 1 = n /\ journal'[p].trade = t
      BY <1>4, <1>6, <1>13, <2>3
    <3>2. c \in Nat
      BY <1>6, <2>1, LaterCount
    <3>3. w \in Seq(TradeIds) /\ Len(w) \in Nat
      <4>1. mem[i].seen \in [Symbols -> Seq(TradeIds)]
        BY Parts DEF Memory
      <4> QED BY <1>4, <4>1
    <3>4. ~(c < Window)
      <4> SUFFICES ASSUME c < Window PROVE FALSE
        OBVIOUS
      <4>1. c < Len(w) /\ w[Len(w) - c] = t.id
        BY <1>12, <2>1, <3>1 DEF Recalls
      <4> HIDE DEF c, w
      <4>2. Len(w) - c \in 1 .. Len(w)
        BY <3>2, <3>3, <4>1
      <4>3. t.id \in Range(w)
        <5>1. DOMAIN w = 1 .. Len(w)
          BY <3>3
        <5> QED BY <4>1, <4>2, <5>1 DEF Range
      <4> QED BY <1>5, <4>3 DEF w
    <3>5. Window \in Nat
      BY SizesAssumption
    <3> QED BY <3>1, <3>2, <3>4, <3>5
  <2> QED BY <1>7, <2>2, <2>3
<1>14. Spread(journal')
  BY <1>6, <1>13 DEF Spread
<1>15. Recalls(mem[i].seen, journal, Booked(i))'
  <2>1. Recalls(mem'[i].seen, journal', Booked(i)')
    BY <1>2, <1>10, <1>12
  <2> QED BY <2>1 DEF Recalls, Later
<1>16. journal' # << >> /\ journal'[Len(journal')].trade = critical'.trade
  BY <1>2, <1>4, <1>6
<1> QED BY <1>2, <1>9, <1>14, <1>15, <1>16

\* The n lines of h are those of j after its first k.
Shifted(h, j, k, n) == \A r \in 1 .. n : h[r] = j[k + r]

\* Sets of later lines that are shifted have the same size.
LEMMA LaterShifted ==
  ASSUME NEW j, NEW h, NEW k \in Nat, NEW n \in Nat, Shifted(h, j, k, n),
         NEW p \in 1 .. n, NEW q \in 0 .. n,
         NEW a \in Nat, a = k + p, NEW b \in Nat, b = k + q
  PROVE  Cardinality(Later(h, p, q)) = Cardinality(Later(j, a, b))
<1> DEFINE A == Later(h, p, q)
           B == Later(j, a, b)
           f == [r \in A |-> k + r]
<1>1. \A r \in p + 1 .. q : r \in 1 .. n /\ h[r] = j[k + r] /\ k + r \in a + 1 .. b
  BY DEF Shifted
<1>2. h[p] = j[a]
  BY DEF Shifted
<1>3. \A r \in A : k + r \in B /\ r \in Nat
  BY <1>1, <1>2 DEF Later
<1>4. \A s \in B : s - k \in A /\ k + (s - k) = s
  <2> SUFFICES ASSUME NEW s \in B PROVE s - k \in A /\ k + (s - k) = s
    OBVIOUS
  <2>1. s \in a + 1 .. b /\ j[s].trade.symbol = j[a].trade.symbol
    BY DEF Later
  <2>2. PICK r \in p + 1 .. q : r = s - k /\ k + r = s
    BY <2>1
  <2>3. h[r] = j[s]
    BY <1>1, <2>2
  <2> QED BY <1>2, <2>1, <2>2, <2>3 DEF Later
<1>5. IsFiniteSet(A)
  BY LaterCount
<1> HIDE DEF A, B
<1>6. f \in Bijection(A, B)
  <2>1. f \in [A -> B]
    BY <1>3
  <2>2. \A x, y \in A : f[x] = f[y] => x = y
    BY <1>3
  <2>3. \A y \in B : \E x \in A : f[x] = y
    BY <1>4
  <2> QED BY <2>1, <2>2, <2>3, Fun_IsBij
<1>7. ExistsBijection(A, B)
  BY <1>6 DEF ExistsBijection
<1> QED BY <1>5, <1>7, FS_Bijection DEF A, B

\* What is left after a compaction is as far apart, and as well recalled, as before.
LEMMA WindowCompact ==
  ASSUME TipInv, LinesInv, WindowInv, NEW i \in Instances, NEW m \in 2 .. MaxSeq,
         CompactJournal(i, m)
  PROVE  WindowInv'
<1>1. /\ UNCHANGED <<mem, up, life, authors, faults>> /\ critical = Idle
      /\ \A j \in Instances : ~Holds(j, "append")' /\ ~Holds(j, "append")
  BY CompactFrame, NobodyHolds
<1>2. /\ Calm' <=> Calm
      /\ Steady' <=> Steady
      /\ \A j \in Instances : Writes(j)' <=> Writes(j)
  BY <1>1 DEF Calm, OneAuthor, Steady, Writes
<1>3. SUFFICES ASSUME Calm, Steady
               PROVE  /\ \A p \in DOMAIN journal' : journal'[p].trade \in Trades
                      /\ Spread(journal')
                      /\ \A j \in Instances : Writes(j)' =>
                            Recalls(mem[j].seen, journal, Booked(j))'
  BY <1>1, <1>2 DEF WindowInv
<1>4. PICK k \in 0 .. Len(journal) :
          /\ Len(journal') = Len(journal) - k /\ DOMAIN journal' = 1 .. Len(journal) - k
          /\ \A p \in 1 .. Len(journal) - k :
                k + p \in 1 .. Len(journal) /\ journal'[p] = journal[k + p]
  BY <1>3, CompactDropsFirst
<1>5. PICK n \in Nat : n = Len(journal) - k /\ k + n = Len(journal)
  <2>1. Len(journal) \in Nat
    BY Parts
  <2> QED BY <2>1
<1>6. /\ k \in Nat /\ DOMAIN journal = 1 .. k + n /\ DOMAIN journal' = 1 .. n
      /\ Len(journal') = n
      /\ \A p \in 1 .. n : k + p \in 1 .. k + n /\ journal'[p] = journal[k + p]
  BY <1>4, <1>5, Parts
<1>7. (\A p \in 1 .. k + n : journal[p].trade \in Trades) /\ Spread(journal)
  BY <1>3, <1>6 DEF WindowInv
<1>8. \A p \in DOMAIN journal' : journal'[p].trade \in Trades
  BY <1>6, <1>7
<1>13. \A p \in 1 .. n, q \in 0 .. n :
          Cardinality(Later(journal', p, q)) = Cardinality(Later(journal, k + p, k + q))
  <2> SUFFICES ASSUME NEW p \in 1 .. n, NEW q \in 0 .. n
               PROVE  Cardinality(Later(journal', p, q)) = Cardinality(Later(journal, k + p, k + q))
    OBVIOUS
  <2>1. PICK h : h = journal'
    OBVIOUS
  <2>2. PICK j : j = journal
    OBVIOUS
  <2>3. k \in Nat /\ Shifted(h, j, k, n)
    BY <1>6, <2>1, <2>2 DEF Shifted
  <2>4. PICK a \in Nat : a = k + p
    BY <1>6
  <2>5. PICK b \in Nat : b = k + q
    BY <1>6
  <2>6. Cardinality(Later(h, p, q)) = Cardinality(Later(j, a, b))
    BY <2>3, <2>4, <2>5, LaterShifted
  <2> QED BY <2>1, <2>2, <2>4, <2>5, <2>6
<1>9. ASSUME NEW p \in 1 .. n, NEW q \in 1 .. n, p < q, journal'[p].trade = journal'[q].trade
      PROVE  Cardinality(Later(journal', p, q - 1)) >= Window
  <2>1. PICK a \in 1 .. k + n : a = k + p
    BY <1>6
  <2>2. PICK b \in 1 .. k + n : b = k + q
    BY <1>6
  <2>3. a < b /\ journal[a].trade = journal[b].trade
    BY <1>6, <1>9, <2>1, <2>2
  <2>4. Cardinality(Later(journal, a, b - 1)) >= Window
    BY <1>6, <1>7, <2>3 DEF Spread
  <2>5. PICK d \in 0 .. n : d = q - 1 /\ k + d = b - 1
    BY <1>6, <2>2
  <2>6. Cardinality(Later(journal', p, d)) = Cardinality(Later(journal, k + p, k + d))
    BY <1>13, <2>5
  <2> QED BY <2>1, <2>4, <2>5, <2>6
<1>10. Spread(journal')
  BY <1>6, <1>9 DEF Spread
<1>11. ASSUME NEW j \in Instances, Writes(j) PROVE Recalls(mem[j].seen, journal', n)
  <2>1. Recalls(mem[j].seen, journal, k + n)
    <3>1. Booked(j) = k + n
      BY <1>1, <1>5 DEF Booked
    <3> QED BY <1>3, <1>11, <3>1 DEF WindowInv
  <2> SUFFICES ASSUME NEW p \in 1 .. n, Cardinality(Later(journal', p, n)) < Window
               PROVE  LET c == Cardinality(Later(journal', p, n))
                          w == mem[j].seen[journal'[p].trade.symbol]
                      IN  c < Len(w) /\ w[Len(w) - c] = journal'[p].trade.id
    BY DEF Recalls
  <2>2. Cardinality(Later(journal', p, n)) = Cardinality(Later(journal, k + p, k + n))
    BY <1>13, n \in 0 .. n
  <2>3. PICK a \in 1 .. k + n : a = k + p
    BY <1>6
  <2>4. journal'[p] = journal[a]
    BY <1>6, <2>3
  <2> QED BY <2>1, <2>2, <2>3, <2>4 DEF Recalls
<1>12. \A j \in Instances : Writes(j)' => Recalls(mem[j].seen, journal, Booked(j))'
  <2> SUFFICES ASSUME NEW j \in Instances, Writes(j)'
               PROVE  Recalls(mem[j].seen, journal, Booked(j))'
    OBVIOUS
  <2>1. Booked(j)' = n /\ Writes(j)
    BY <1>1, <1>2, <1>6 DEF Booked
  <2>2. Recalls(mem'[j].seen, journal', Booked(j)')
    BY <1>1, <1>11, <2>1
  <2> QED BY <2>2 DEF Recalls, Later
<1> QED BY <1>8, <1>10, <1>12

\* Every step keeps the windows true to the lines.
LEMMA WindowKept ==
  ASSUME TipInv, LinesInv, WindowInv, [Next]_vars
  PROVE  WindowInv'
<1>1. ASSUME NEW i \in Instances, Step(i) PROVE WindowInv'
  <2>1. CASE Quiet(i)
    BY <2>1, WindowQuiet
  <2>2. CASE Open(i)
    BY <2>2, WindowOpen
  <2>3. ASSUME NEW t \in Trades, AppendLine(i, t) PROVE WindowInv'
    BY <2>3, WindowAppend
  <2>4. ASSUME NEW t \in Trades, AppendTorn(i, t) PROVE WindowInv'
    BY <2>4, LinesTorn DEF WindowInv
  <2>5. CASE \E n \in 2 .. MaxSeq : CompactJournal(i, n)
    BY <2>5, WindowCompact
  <2> QED BY <1>1, <2>1, <2>2, <2>3, <2>4, <2>5, StepKinds
<1>2. CASE UNCHANGED vars
  <2>1. UNCHANGED <<journal, mem, up, critical, life, authors, faults>>
    BY <1>2 DEF vars
  <2>2. /\ Calm' <=> Calm
        /\ Steady' <=> Steady
        /\ \A j \in Instances : /\ Writes(j)' <=> Writes(j)
                                /\ Holds(j, "append")' <=> Holds(j, "append")
    BY <2>1 DEF Calm, OneAuthor, Steady, Writes, Holds
  <2>3. Spread(journal)' <=> Spread(journal)
    BY <2>1 DEF Spread, Later
  <2>4. ASSUME NEW j \in Instances
        PROVE  Recalls(mem[j].seen, journal, Booked(j))' <=>
               Recalls(mem[j].seen, journal, Booked(j))
    <3>1. Booked(j)' = Booked(j)
      BY <2>1 DEF Booked, Holds
    <3> QED BY <2>1, <3>1 DEF Recalls, Later
  <2> QED BY <2>1, <2>2, <2>3, <2>4 DEF WindowInv
<1> QED BY <1>1, <1>2 DEF Next

\* The windows and the lines as an inductive invariant.
THEOREM WindowInvariant == Spec => [](TipInv /\ LinesInv /\ WindowInv)
<1>1. Init => WindowInv
  <2> SUFFICES ASSUME Init PROVE WindowInv
    OBVIOUS
  <2>1. /\ journal = << >> /\ up = [i \in Instances |-> FALSE]
    BY DEF Init
  <2>2. \A i \in Instances : ~Writes(i)
    BY <2>1 DEF Writes
  <2>3. \A p \in DOMAIN journal : FALSE
    BY <2>1
  <2> QED BY <2>2, <2>3 DEF WindowInv, Spread
<1>2. TipInv /\ LinesInv /\ WindowInv /\ [Next]_vars => WindowInv'
  BY WindowKept
<1> QED BY <1>1, <1>2, LinesInvariant, PTL DEF Spec

\* An author that neither restarts nor reloads writes a trade again only after Window
\* other trades of its symbol, for every window, any number of symbols, and whatever
\* is compacted away in between.
THEOREM DedupHolds == Spec => []DedupWithinWindow
<1>1. WindowInv => DedupWithinWindow
  BY DEF WindowInv, Calm, Steady, Spread, Later, DedupWithinWindow
<1> QED BY <1>1, WindowInvariant, PTL

-----------------------------------------------------------------------------
(* The index *)

\* The offset of an entry is in the file and every line before it has a lower seq:
\* a read that starts at the seq of the entry, or at a later one, misses nothing.
Points(e, j) == e.off <= Len(j) /\ \A p \in 1 .. Len(j) : p <= e.off => j[p].seq < e.seq

Sound(index, j) == \A k \in 1 .. Len(index) : Points(index[k], j)

\* The index of i is only known to be sound between the compactions of i and in its
\* first life: a compaction moves the lines before it rebuilds the index, and a
\* process that dies in between leaves the old index on disk for its next life.
\* Until i has lived nobody compacted, and all indexes are sound.
SoundFor(i) ==
    /\ life[i] = 0 => /\ Sound(meta.index, journal)
                      /\ \A j \in Instances : Sound(mem[j].index, journal)
    /\ life[i] = 1 /\ up[i] /\ ~Holds(i, "compact") /\ i \notin Reloaders =>
          Sound(mem[i].index, journal)

IndexInv ==
    Calm => /\ \A i \in Instances :
                  Holds(i, "append") => Len(journal) > 0 /\ critical.off = Len(journal) - 1
            /\ \A i \in Instances : Compactors \subseteq {i} => SoundFor(i)

\* The end of a sound index is sound.
LEMMA LastNSound ==
  ASSUME NEW index \in Seq(IndexEntry), NEW n \in Nat \ {0}, NEW j, Sound(index, j)
  PROVE  Sound(LastN(index, n), j)
<1> DEFINE l == LastN(index, n)
<1>1. /\ Len(index) \in Nat /\ Len(l) \in Nat /\ Len(l) <= Len(index)
      /\ \A x \in 1 .. Len(l) : l[x] = index[Len(index) - Len(l) + x]
  BY LastNElements
<1> HIDE DEF l
<1>2. SUFFICES ASSUME NEW x \in 1 .. Len(l) PROVE Points(l[x], j)
  BY DEF Sound, l
<1>3. PICK y \in 1 .. Len(index) : y = Len(index) - Len(l) + x
  BY <1>1
<1>4. l[x] = index[y]
  BY <1>1, <1>3
<1> QED BY <1>4 DEF Sound

\* An index that records a sound entry stays sound.
LEMMA RecordedSound ==
  ASSUME NEW index \in Seq(IndexEntry), NEW seq \in Nat, NEW off \in Nat,
         NEW j \in Seq(Line), Sound(index, j), Points([seq |-> seq, off |-> off], j)
  PROVE  Sound(Recorded(index, seq, off), j)
<1> DEFINE e == [seq |-> seq, off |-> off]
           base == IF index = << >> THEN <<Origin>> ELSE index
           more == IF seq % IndexInterval = 0 /\ seq > base[Len(base)].seq
                   THEN Append(base, e) ELSE base
<1>1. e \in IndexEntry /\ Origin \in IndexEntry
  BY DEF IndexEntry, Origin
<1>2. Points(Origin, j)
  <2>1. Len(j) \in Nat /\ Origin.off = 0
    BY DEF Origin
  <2> QED BY <2>1 DEF Points
<1>3. base \in Seq(IndexEntry) /\ Sound(base, j)
  <2>1. CASE index = << >>
    BY <1>1, <1>2, <2>1 DEF Sound
  <2>2. CASE index # << >>
    BY <2>2
  <2> QED BY <2>1, <2>2
<1> HIDE DEF base
<1>4. Append(base, e) \in Seq(IndexEntry) /\ Sound(Append(base, e), j)
  <2> HIDE DEF e
  <2>1. /\ Append(base, e) \in Seq(IndexEntry) /\ Len(Append(base, e)) = Len(base) + 1
        /\ Append(base, e)[Len(base) + 1] = e /\ Len(base) \in Nat
        /\ \A x \in 1 .. Len(base) : Append(base, e)[x] = base[x]
    BY <1>1, <1>3
  <2>2. Points(e, j)
    BY DEF e
  <2>3. \A x \in 1 .. Len(base) + 1 : x \in 1 .. Len(base) \/ x = Len(base) + 1
    BY <2>1
  <2>4. \A x \in 1 .. Len(base) + 1 : Points(Append(base, e)[x], j)
    BY <1>3, <2>1, <2>2, <2>3 DEF Sound
  <2> QED BY <2>1, <2>4 DEF Sound
<1>5. more \in Seq(IndexEntry) /\ Sound(more, j)
  <2> HIDE DEF e
  <2> QED BY <1>3, <1>4
<1>6. Recorded(index, seq, off) = LastN(more, IndexMax)
  BY DEF Recorded, base
<1> HIDE DEF more
<1> QED BY <1>5, <1>6, LastNSound, SizesAssumption

\* A rebuilt index is sound.
LEMMA ReindexedSound ==
  ASSUME TypeOK, Ascending(journal), NEW m \in Memory, NEW f \in InOrder(IndexedLines)
  PROVE  Sound(Reindexed(m, f).index, journal)
<1> DEFINE n == Cardinality(IndexedLines)
           g == [k \in 1 .. n |-> [seq |-> journal[f[k]].seq, off |-> f[k] - 1]]
<1>1. /\ journal \in Seq(Line) /\ DOMAIN journal = 1 .. Len(journal) /\ Len(journal) \in Nat
      /\ \A p \in 1 .. Len(journal) : journal[p].seq \in Nat
  <2>1. \A p \in 1 .. Len(journal) : journal[p] \in Line
    BY DEF TypeOK
  <2> QED BY <2>1 DEF TypeOK, Line
<1>2. IndexedLines \subseteq 1 .. Len(journal)
  BY <1>1 DEF IndexedLines
<1>3. n \in Nat
  BY <1>1, <1>2, PositionsCount
<1>4. f \in [1 .. n -> IndexedLines] /\ DOMAIN f = 1 .. n
  BY DEF InOrder
<1> HIDE DEF n
<1>5. ASSUME NEW k \in 1 .. n PROVE g[k] \in IndexEntry /\ Points(g[k], journal)
  <2>1. PICK r \in 1 .. Len(journal) : r = f[k]
    BY <1>2, <1>4
  <2>2. g[k] = [seq |-> journal[r].seq, off |-> r - 1]
    BY <2>1
  <2>3. g[k].seq = journal[r].seq /\ g[k].off = r - 1
    BY <2>2
  <2>4. g[k] \in IndexEntry
    BY <1>1, <2>2 DEF IndexEntry
  <2> HIDE DEF g
  <2>5. \A p \in 1 .. Len(journal) : p <= r - 1 => journal[p].seq < journal[r].seq
    BY <1>1 DEF Ascending
  <2> QED BY <1>1, <2>3, <2>4, <2>5 DEF Points
<1>6. g \in Seq(IndexEntry) /\ Len(g) = n
  BY <1>3, <1>5
<1> HIDE DEF g
<1> DEFINE c == <<Origin>> \o g
<1>7. <<Origin>> \in Seq(IndexEntry) /\ Len(<<Origin>>) = 1 /\ <<Origin>>[1] = Origin
  BY DEF Origin, IndexEntry
<1>8. /\ c \in Seq(IndexEntry) /\ Len(c) = 1 + n /\ c[1] = Origin
      /\ \A x \in 2 .. 1 + n : c[x] = g[x - 1]
  BY <1>3, <1>6, <1>7
<1> HIDE DEF c
<1>9. Points(Origin, journal)
  <2>1. Origin.off = 0
    BY DEF Origin
  <2> QED BY <1>1, <2>1 DEF Points
<1>10. ASSUME NEW x \in 1 .. Len(c) PROVE Points(c[x], journal)
  <2>1. CASE x = 1
    BY <1>8, <1>9, <2>1
  <2>2. CASE x # 1
    <3>1. x \in 2 .. 1 + n /\ x - 1 \in 1 .. n
      BY <1>3, <1>8, <2>2
    <3> QED BY <1>5, <1>8, <3>1
  <2> QED BY <2>1, <2>2
<1>11. Sound(LastN(c, IndexMax), journal)
  BY <1>8, <1>10, LastNSound, SizesAssumption DEF Sound
<1>12. Reindexed(m, f) = [m EXCEPT !.index = LastN(c, IndexMax)]
  BY <1>4 DEF Reindexed, c, g
<1>13. Reindexed(m, f).index = LastN(c, IndexMax)
  BY <1>12 DEF Memory
<1> QED BY <1>11, <1>13

\* A sound index stays sound when lines are added after it.
LEMMA SoundLonger ==
  ASSUME NEW index \in Seq(IndexEntry), NEW j, NEW h, NEW n \in Nat, NEW k \in Nat,
         Len(j) = n, Len(h) = k, n <= k, \A p \in 1 .. n : h[p] = j[p], Sound(index, j)
  PROVE  Sound(index, h)
<1> SUFFICES ASSUME NEW x \in 1 .. Len(index) PROVE Points(index[x], h)
  BY DEF Sound
<1>1. Points(index[x], j) /\ index[x] \in IndexEntry
  BY DEF Sound
<1>2. PICK off \in Nat : off = index[x].off
  BY <1>1 DEF IndexEntry
<1>3. off <= n /\ \A p \in 1 .. n : p <= off => j[p].seq < index[x].seq
  BY <1>1, <1>2 DEF Points
<1> QED BY <1>2, <1>3 DEF Points

\* The tables of indexes as types.
LEMMA IndexTypes ==
  ASSUME TipInv
  PROVE  /\ meta.index \in Seq(IndexEntry)
         /\ \A j \in Instances : mem[j].index \in Seq(IndexEntry)
  BY Parts DEF Meta, Memory

\* The lock after a quiet step.
LEMMA QuietLock ==
  ASSUME NEW i \in Instances, Quiet(i)
  PROVE  critical' = critical \/ critical' = Idle
  BY DEF Quiet, Books, Rebuilds, Tends, Rereads, Ends

\* A quiet step leaves a sound index sound, whether it records the line of an
\* append or is rebuilt from the file; only a reload takes it from disk.
LEMMA QuietIndex ==
  ASSUME TipInv, LinesInv, IndexInv, Calm, NEW i \in Instances, Quiet(i)
  PROVE  \/ mem'[i].index = meta.index /\ Rereads(i)
         \/ Sound(mem[i].index, journal) => Sound(mem'[i].index, journal)
<1>1. Ascending(journal) /\ TypeOK /\ journal \in Seq(Line) /\ Len(journal) \in Nat
      /\ mem[i] \in Memory
  BY Parts, TipNumbers DEF LinesInv, TipInv
<1>2. CASE Books(i)
  <2>1. /\ Holds(i, "append") /\ Behind(journal, i)
        /\ mem'[i].index = Recorded(mem[i].index, mem[i].latest + 1, critical.off)
    BY <1>2 DEF Books, LinesInv
  <2>2. Len(journal) > 0 /\ critical.off = Len(journal) - 1
    BY <2>1 DEF IndexInv
  <2>3. PICK s \in Nat : s = mem[i].latest + 1
    BY TipNumbers
  <2>4. PICK o \in Nat : o = critical.off
    BY <1>1, <2>2
  <2>5. \A p \in 1 .. Len(journal) : p <= o => journal[p].seq < s
    <3> SUFFICES ASSUME NEW p \in 1 .. Len(journal), p <= o PROVE journal[p].seq < s
      OBVIOUS
    <3>1. p < Len(journal) /\ Len(journal) \in 1 .. Len(journal) /\ DOMAIN journal = 1 .. Len(journal)
      BY <1>1, <2>2, <2>4
    <3>2. journal[p].seq < journal[Len(journal)].seq
      BY <1>1, <3>1 DEF Ascending
    <3>3. /\ journal[p].seq \in Nat /\ journal[Len(journal)].seq \in Nat
          /\ mem[i].latest \in Nat
      BY <3>1, TipNumbers
    <3>4. journal[Len(journal)].seq <= mem[i].latest + 1
      BY <2>1, <3>1, <3>3 DEF Behind
    <3> QED BY <2>3, <3>2, <3>3, <3>4
  <2>6. Points([seq |-> s, off |-> o], journal)
    BY <1>1, <2>2, <2>4, <2>5 DEF Points
  <2>7. Sound(mem[i].index, journal) => Sound(mem'[i].index, journal)
    BY <1>1, <2>1, <2>3, <2>4, <2>6, IndexTypes, RecordedSound
  <2> QED BY <1>2, <2>7
<1>3. CASE Rebuilds(i)
  <2>1. PICK f \in InOrder(IndexedLines) : mem'[i].index = Reindexed(mem[i], f).index
    BY <1>3 DEF Rebuilds
  <2>2. Sound(Reindexed(mem[i], f).index, journal)
    BY <1>1, ReindexedSound
  <2> QED BY <2>1, <2>2
<1>4. CASE Tends(i)
  BY <1>4 DEF Tends
<1>5. CASE Rereads(i)
  BY <1>5 DEF Rereads
<1>6. CASE Ends(i)
  <2>1. mem'[i].index = <<Origin>>
    BY <1>6 DEF Ends, NoMemory, EmptyMeta
  <2>2. Len(<<Origin>>) = 1 /\ <<Origin>>[1] = Origin /\ Origin.off = 0
    BY DEF Origin
  <2>3. Sound(<<Origin>>, journal)
    <3> SUFFICES ASSUME NEW x \in 1 .. Len(<<Origin>>) PROVE Points(<<Origin>>[x], journal)
      BY DEF Sound
    <3>1. <<Origin>>[x] = Origin
      BY <2>2
    <3> QED BY <1>1, <2>2, <3>1 DEF Points
  <2> QED BY <2>1, <2>3
<1> QED BY <1>2, <1>3, <1>4, <1>5, <1>6 DEF Quiet

\* A step that writes no line keeps the indexes sound.
LEMMA IndexQuiet ==
  ASSUME TipInv, LinesInv, IndexInv, NEW i \in Instances, Quiet(i)
  PROVE  IndexInv'
<1>1. /\ UNCHANGED <<journal, life, authors>> /\ (faults' = 0 => faults = 0)
      /\ \A j \in Instances \ {i} : mem'[j] = mem[j] /\ up'[j] = up[j]
      /\ meta'.index = meta.index \/ meta'.index = mem'[i].index
  BY DEF Quiet, OnlyOf, PublishesIndex
<1>2. SUFFICES ASSUME Calm
               PROVE  /\ \A j \in Instances : Holds(j, "append")' =>
                            Len(journal') > 0 /\ critical'.off = Len(journal') - 1
                      /\ \A j \in Instances : Compactors \subseteq {j} => SoundFor(j)'
  BY <1>1 DEF IndexInv, Calm, OneAuthor
<1>3. ASSUME NEW j \in Instances, Holds(j, "append")'
      PROVE  Len(journal') > 0 /\ critical'.off = Len(journal') - 1
  <2>1. Holds(j, "append") /\ critical' = critical
    BY <1>3, QuietHolds, QuietLock, RolesAssumption DEF Holds, Idle
  <2> QED BY <1>1, <1>2, <2>1 DEF IndexInv
<1>4. ASSUME NEW j \in Instances, Compactors \subseteq {j}, life[j] = 0
      PROVE  /\ Sound(meta'.index, journal)
             /\ \A k \in Instances : Sound(mem'[k].index, journal)
  <2>1. Sound(meta.index, journal) /\ \A k \in Instances : Sound(mem[k].index, journal)
    BY <1>2, <1>4 DEF IndexInv, SoundFor
  <2>2. Sound(mem'[i].index, journal)
    BY <1>2, <2>1, QuietIndex
  <2>3. \A k \in Instances : k = i \/ mem'[k] = mem[k]
    BY <1>1
  <2> QED BY <1>1, <2>1, <2>2, <2>3
<1>5. ASSUME NEW j \in Instances, Compactors \subseteq {j}, life[j] = 1, up'[j],
             ~Holds(j, "compact")', j \notin Reloaders
      PROVE  Sound(mem'[j].index, journal)
  <2>1. up[j]
    BY <1>5, QuietHolds
  <2>2. CASE j # i
    <3>1. ~Holds(j, "compact")
      BY <1>5, <2>2, QuietHolds
    <3>2. Sound(mem[j].index, journal)
      BY <1>2, <1>5, <2>1, <3>1 DEF IndexInv, SoundFor
    <3> QED BY <1>1, <2>2, <3>2
  <2>3. CASE j = i /\ Holds(i, "compact")
    <3>1. Rebuilds(i)
      <4>1. ~Books(i) /\ ~Ends(i)
        BY <1>5, <2>3 DEF Books, Ends, Holds
      <4>2. ~Tends(i) /\ ~Rereads(i)
        BY <1>5, <2>3 DEF Tends, Rereads, Holds
      <4> QED BY <4>1, <4>2 DEF Quiet
    <3>2. PICK f \in InOrder(IndexedLines) : mem'[i].index = Reindexed(mem[i], f).index
      BY <3>1 DEF Rebuilds
    <3>3. Sound(Reindexed(mem[i], f).index, journal)
      <4>1. TypeOK /\ Ascending(journal) /\ mem[i] \in Memory
        BY <1>2, Parts DEF TipInv, LinesInv
      <4> QED BY <4>1, ReindexedSound
    <3> QED BY <2>3, <3>2, <3>3
  <2>4. CASE j = i /\ ~Holds(i, "compact")
    <3>1. Sound(mem[j].index, journal)
      BY <1>2, <1>5, <2>1, <2>4 DEF IndexInv, SoundFor
    <3>2. ~Rereads(i)
      BY <1>5, <2>4 DEF Rereads
    <3> QED BY <1>2, <2>4, <3>1, <3>2, QuietIndex
  <2> QED BY <2>2, <2>3, <2>4
<1>6. \A j \in Instances : Compactors \subseteq {j} => SoundFor(j)'
  <2> SUFFICES ASSUME NEW j \in Instances, Compactors \subseteq {j} PROVE SoundFor(j)'
    OBVIOUS
  <2>1. life'[j] = 0 => Sound(meta'.index, journal')
                        /\ \A k \in Instances : Sound(mem'[k].index, journal')
    BY <1>1, <1>4
  <2>2. life'[j] = 1 /\ up'[j] /\ ~Holds(j, "compact")' /\ j \notin Reloaders =>
            Sound(mem'[j].index, journal')
    BY <1>1, <1>5
  <2> QED BY <2>1, <2>2 DEF SoundFor, Sound
<1> QED BY <1>3, <1>6

\* A process that starts takes the index on disk.
LEMMA IndexOpen ==
  ASSUME TipInv, LinesInv, IndexInv, NEW i \in Instances, Open(i)
  PROVE  IndexInv'
<1>1. /\ UNCHANGED <<journal, meta, critical>> /\ (Calm' <=> Calm)
      /\ life'[i] = life[i] + 1 /\ life[i] \in Nat /\ mem'[i].index = meta.index
      /\ \A j \in Instances \ {i} : up'[j] = up[j] /\ life'[j] = life[j] /\ mem'[j] = mem[j]
      /\ \A j \in Instances, op \in {"append", "compact"} : Holds(j, op)' <=> Holds(j, op)
  BY OpenFrame DEF Loaded
<1>2. SUFFICES ASSUME Calm, NEW j \in Instances, Compactors \subseteq {j} PROVE SoundFor(j)'
  BY <1>1 DEF IndexInv
<1>3. SoundFor(j)
  BY <1>2 DEF IndexInv
<1>4. CASE j = i
  <2>1. life'[i] = 1 => Sound(mem'[i].index, journal')
    BY <1>1, <1>3, <1>4 DEF SoundFor
  <2>2. life'[i] # 0
    BY <1>1
  <2> QED BY <1>4, <2>1, <2>2 DEF SoundFor, Sound
<1>5. CASE j # i
  <2>1. life'[j] = 0 => Sound(meta'.index, journal')
                        /\ \A k \in Instances : Sound(mem'[k].index, journal')
    <3> SUFFICES ASSUME life[j] = 0
                 PROVE  Sound(meta'.index, journal')
                        /\ \A k \in Instances : Sound(mem'[k].index, journal')
      BY <1>1, <1>5
    <3>1. Sound(meta.index, journal) /\ \A k \in Instances : Sound(mem[k].index, journal)
      BY <1>3 DEF SoundFor
    <3>2. \A k \in Instances : mem'[k].index = meta.index \/ mem'[k] = mem[k]
      BY <1>1
    <3> QED BY <1>1, <3>1, <3>2
  <2>2. life'[j] = 1 /\ up'[j] /\ ~Holds(j, "compact")' /\ j \notin Reloaders =>
            Sound(mem'[j].index, journal')
    BY <1>1, <1>3, <1>5 DEF SoundFor
  <2> QED BY <2>1, <2>2 DEF SoundFor, Sound
<1> QED BY <1>4, <1>5

\* A line that is added leaves the indexes sound, and its offset is the one of its
\* first character.
LEMMA IndexAppend ==
  ASSUME TipInv, LinesInv, IndexInv, NEW i \in Instances, NEW t \in Trades, AppendLine(i, t)
  PROVE  IndexInv'
<1>1. SUFFICES ASSUME Calm'
               PROVE  /\ \A j \in Instances : Holds(j, "append")' =>
                            Len(journal') > 0 /\ critical'.off = Len(journal') - 1
                      /\ \A j \in Instances : Compactors \subseteq {j} => SoundFor(j)'
  BY DEF IndexInv
<1>2. /\ UNCHANGED <<mem, up, life, meta>> /\ critical = Idle /\ Calm
      /\ critical'.off = Len(journal) /\ NextLine(i, t) \in Line
      /\ journal' = Append(journal, NextLine(i, t))
  BY <1>1, LineIsWritten
<1>3. /\ Len(journal) \in Nat /\ Len(journal') = Len(journal) + 1
      /\ \A p \in 1 .. Len(journal) : journal'[p] = journal[p]
  <2>1. journal \in Seq(Line)
    BY Parts
  <2> HIDE DEF NextLine
  <2> QED BY <1>2, <2>1
<1>4. Len(journal') > 0 /\ critical'.off = Len(journal') - 1
  BY <1>2, <1>3
<1>5. \A index \in Seq(IndexEntry) : Sound(index, journal) => Sound(index, journal')
  <2>1. PICK n \in Nat : n = Len(journal)
    BY <1>3
  <2>2. PICK h : h = journal'
    OBVIOUS
  <2>3. PICK j : j = journal
    OBVIOUS
  <2>4. n + 1 \in Nat /\ Len(j) = n /\ Len(h) = n + 1 /\ n <= n + 1
        /\ \A p \in 1 .. n : h[p] = j[p]
    BY <1>3, <2>1, <2>2, <2>3
  <2>5. \A index \in Seq(IndexEntry) : Sound(index, j) => Sound(index, h)
    BY <2>4, SoundLonger
  <2> QED BY <2>2, <2>3, <2>5
<1>6. ASSUME NEW j \in Instances, Compactors \subseteq {j} PROVE SoundFor(j)'
  <2>1. SoundFor(j) /\ ~Holds(j, "compact")
    BY <1>2, <1>6, NobodyHolds DEF IndexInv
  <2>2. life'[j] = 0 => Sound(meta'.index, journal')
                        /\ \A k \in Instances : Sound(mem'[k].index, journal')
    BY <1>2, <1>5, <2>1, IndexTypes DEF SoundFor
  <2>3. life'[j] = 1 /\ up'[j] /\ j \notin Reloaders => Sound(mem'[j].index, journal')
    BY <1>2, <1>5, <2>1, IndexTypes DEF SoundFor
  <2> QED BY <2>2, <2>3 DEF SoundFor, Sound
<1> QED BY <1>4, <1>6

\* Between the two halves of a compaction nothing is said of its index; no other
\* instance compacts, and it has lived.
LEMMA IndexCompact ==
  ASSUME TipInv, LinesInv, IndexInv, NEW i \in Compactors, NEW m, CompactJournal(i, m)
  PROVE  IndexInv'
<1>1. i \in Instances
  BY RolesAssumption
<1>2. /\ life' = life /\ up[i] /\ Holds(i, "compact")'
      /\ \A j \in Instances : ~Holds(j, "append")'
  BY <1>1, CompactFrame
<1>3. ASSUME NEW j \in Instances, Compactors \subseteq {j} PROVE SoundFor(j)'
  <2>1. j = i
    BY <1>3
  <2>2. life'[i] # 0
    BY <1>1, <1>2 DEF LinesInv
  <2> QED BY <1>2, <2>1, <2>2 DEF SoundFor
<1> QED BY <1>2, <1>3 DEF IndexInv

\* Every step keeps the indexes sound.
LEMMA IndexKept ==
  ASSUME TipInv, LinesInv, IndexInv, [Next]_vars
  PROVE  IndexInv'
<1>1. ASSUME NEW i \in Instances, Step(i) PROVE IndexInv'
  <2>1. CASE Quiet(i)
    BY <2>1, IndexQuiet
  <2>2. CASE Open(i)
    BY <2>2, IndexOpen
  <2>3. ASSUME NEW t \in Trades, AppendLine(i, t) PROVE IndexInv'
    BY <2>3, IndexAppend
  <2>4. ASSUME NEW t \in Trades, AppendTorn(i, t) PROVE IndexInv'
    BY <2>4, LinesTorn DEF IndexInv
  <2>5. ASSUME i \in Compactors, NEW n \in 2 .. MaxSeq, CompactJournal(i, n) PROVE IndexInv'
    BY <2>5, IndexCompact
  <2> QED BY <1>1, <2>1, <2>2, <2>3, <2>4, <2>5, StepKinds
<1>2. CASE UNCHANGED vars
  <2>1. UNCHANGED <<journal, meta, mem, up, critical, life, authors, faults>>
    BY <1>2 DEF vars
  <2> QED BY <2>1 DEF IndexInv, SoundFor, Sound, Points, Calm, OneAuthor, Holds
<1> QED BY <1>1, <1>2 DEF Next

\* The lines and the indexes as an inductive invariant.
THEOREM IndexInvariant == Spec => [](TipInv /\ LinesInv /\ IndexInv)
<1>1. Init => IndexInv
  <2> SUFFICES ASSUME Init PROVE IndexInv
    OBVIOUS
  <2>1. /\ journal = << >> /\ meta = EmptyMeta /\ mem = [j \in Instances |-> NoMemory]
        /\ life = [j \in Instances |-> 0] /\ critical = Idle
    BY DEF Init
  <2>2. \A j \in Instances : ~Holds(j, "append")
    BY <2>1, NobodyHolds
  <2>3. meta.index = <<Origin>> /\ \A j \in Instances : mem[j].index = <<Origin>>
    BY <2>1 DEF EmptyMeta, NoMemory
  <2>4. Sound(<<Origin>>, journal)
    <3>1. /\ Len(<<Origin>>) = 1 /\ <<Origin>>[1] = Origin /\ Origin.off = 0
          /\ Len(journal) = 0
      BY <2>1 DEF Origin
    <3> SUFFICES ASSUME NEW x \in 1 .. Len(<<Origin>>) PROVE Points(<<Origin>>[x], journal)
      BY DEF Sound
    <3>2. <<Origin>>[x] = Origin
      BY <3>1
    <3> QED BY <3>1, <3>2 DEF Points
  <2>5. \A i \in Instances : life[i] = 0
    BY <2>1
  <2> QED BY <2>2, <2>3, <2>4, <2>5 DEF IndexInv, SoundFor
<1>2. TipInv /\ LinesInv /\ IndexInv /\ [Next]_vars => IndexInv'
  BY IndexKept
<1> QED BY <1>1, <1>2, LinesInvariant, PTL DEF Spec

\* The hint is the beginning or the offset of an entry that is not beyond start.
LEMMA HintIsAnEntry ==
  ASSUME NEW index \in Seq(IndexEntry), NEW start \in Nat
  PROVE  \/ IndexedHint(index, start) = 0
         \/ \E k \in 1 .. Len(index) : /\ index[k].seq <= start
                                       /\ IndexedHint(index, start) = index[k].off
<1> DEFINE beyond == {k \in DOMAIN index : index[k].seq > start}
           n == IF beyond = {} THEN Len(index) ELSE Min(beyond) - 1
<1>1. /\ DOMAIN index = 1 .. Len(index) /\ Len(index) \in Nat
      /\ \A k \in 1 .. Len(index) : index[k].seq \in Nat
  <2>1. \A k \in 1 .. Len(index) : index[k] \in IndexEntry
    OBVIOUS
  <2> QED BY <2>1 DEF IndexEntry
<1>2. n \in 0 .. Len(index) /\ n \notin beyond
  <2>1. CASE beyond = {}
    BY <1>1, <2>1
  <2>2. CASE beyond # {}
    <3>1. beyond \subseteq 1 .. Len(index) /\ beyond \subseteq Nat
      BY <1>1
    <3> HIDE DEF beyond
    <3>2. Min(beyond) \in beyond /\ \A y \in beyond : Min(beyond) <= y
      BY <2>2, <3>1, LeastOf
    <3>3. n = Min(beyond) - 1
      BY <2>2
    <3>4. PICK m \in 1 .. Len(index) : m = Min(beyond)
      BY <3>1, <3>2
    <3>5. m - 1 \in 0 .. Len(index) /\ \A y \in beyond : m - 1 # y
      <4>1. \A y \in beyond : y \in Nat /\ m <= y
        BY <3>1, <3>2, <3>4
      <4> QED BY <1>1, <4>1
    <3> HIDE DEF n
    <3> QED BY <3>3, <3>4, <3>5
  <2> QED BY <2>1, <2>2
<1>3. IndexedHint(index, start) = IF n = 0 THEN 0 ELSE index[n].off
  BY DEF IndexedHint
<1>4. CASE n = 0
  BY <1>3, <1>4
<1>5. CASE n # 0
  <2>1. n \in 1 .. Len(index)
    <3> HIDE DEF n
    <3> QED BY <1>1, <1>2, <1>5
  <2>2. ~(index[n].seq > start)
    <3> HIDE DEF n
    <3> QED BY <1>1, <1>2, <2>1
  <2> HIDE DEF n
  <2>3. index[n].seq <= start
    BY <1>1, <2>1, <2>2
  <2> QED BY <1>3, <1>5, <2>1, <2>3
<1> QED BY <1>4, <1>5

\* A walk from a hint that passes over nothing ends where the whole walk does.
LEMMA HintOnlySaves ==
  ASSUME TipInv, NEW start \in Nat, NEW hint \in 0 .. Len(journal),
         \A p \in 1 .. Len(journal) :
            journal[p].ended /\ (p <= hint => journal[p].seq < start)
  PROVE  Resolve(start, hint) = Resolve(start, 0)
<1> DEFINE Stops(from) == {p \in from + 1 .. Len(journal) :
                              journal[p].seq >= start \/ ~journal[p].ended}
<1>1. /\ Len(journal) \in Nat
      /\ \A p \in 1 .. Len(journal) : journal[p].seq \in Nat
  <2>1. Len(journal) \in Nat /\ DOMAIN journal = 1 .. Len(journal)
    BY Parts
  <2> QED BY <2>1, TipNumbers
<1>2. Stops(hint) = Stops(0)
  BY <1>1
<1>3. ~(hint > Len(journal)) /\ ~(0 > Len(journal))
  BY <1>1
<1>4. \A h : ~(h > Len(journal)) =>
          Resolve(start, h) = IF Stops(h) = {} THEN Len(journal) ELSE Min(Stops(h)) - 1
  BY DEF Resolve
<1> HIDE DEF Stops
<1> QED BY <1>2, <1>3, <1>4

\* byte_offset_for_seq with the index finds what it would find without.
THEOREM IndexResolves == Spec => []OwnIndexResolves
<1>1. TipInv /\ LinesInv /\ IndexInv => OwnIndexResolves
  <2> SUFFICES ASSUME TipInv, LinesInv, IndexInv, Calm,
                      NEW i \in Instances \ Reloaders, NEW start \in 2 .. MaxSeq + 1,
                      up[i], critical.by # i, Compactors \subseteq {i}, life[i] = 1
               PROVE  ByteOffsetForSeq(i, start) = Resolve(start, 0)
    BY DEF OwnIndexResolves, Calm
  <2>1. start \in Nat /\ start > 1
    BY SizesAssumption
  <2>2. Sound(mem[i].index, journal) /\ mem[i].index \in Seq(IndexEntry)
    BY IndexTypes DEF IndexInv, SoundFor, Holds
  <2>3. /\ Len(journal) \in Nat /\ DOMAIN journal = 1 .. Len(journal)
        /\ \A p \in 1 .. Len(journal) : journal[p].ended /\ journal[p].seq \in Nat
    <3>1. Len(journal) \in Nat /\ DOMAIN journal = 1 .. Len(journal)
      BY Parts
    <3> QED BY <3>1, TipNumbers DEF LinesInv
  <2>4. PICK h : h = IndexedHint(mem[i].index, start)
    OBVIOUS
  <2>5. h \in 0 .. Len(journal) /\ \A p \in 1 .. Len(journal) : p <= h => journal[p].seq < start
    <3>1. CASE h = 0
      BY <2>3, <3>1
    <3>2. ASSUME NEW k \in 1 .. Len(mem[i].index), mem[i].index[k].seq <= start,
                 h = mem[i].index[k].off
          PROVE  /\ h \in 0 .. Len(journal)
                 /\ \A p \in 1 .. Len(journal) : p <= h => journal[p].seq < start
      <4>1. PICK e : e = mem[i].index[k]
        OBVIOUS
      <4>2. e \in IndexEntry
        BY <2>2, <4>1
      <4>3. e.seq \in Nat /\ e.off \in Nat /\ e.off = h /\ e.seq <= start
        BY <3>2, <4>1, <4>2 DEF IndexEntry
      <4>4. Points(e, journal)
        BY <2>2, <4>1 DEF Sound
      <4> QED BY <2>1, <2>3, <4>3, <4>4 DEF Points
    <3> QED BY <2>1, <2>2, <2>4, <3>1, <3>2, HintIsAnEntry
  <2>6. Resolve(start, h) = Resolve(start, 0)
    BY <2>1, <2>3, <2>5, HintOnlySaves
  <2> QED BY <2>1, <2>4, <2>6 DEF ByteOffsetForSeq
<1> QED BY <1>1, IndexInvariant, PTL

=============================================================================
