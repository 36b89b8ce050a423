----------------------------- MODULE TickJournal -----------------------------
(***************************************************************************)
(* The tick journal of core/journal: an append-only file of numbered trade *)
(* lines, a meta file that publishes the tip, the deduplication windows    *)
(* and a sparse index, and any number of TickJournal instances, each in    *)
(* its own process, that share the two files through an advisory lock.     *)
(*                                                                         *)
(* A journal offset counts lines, not bytes: an offset inside a line is    *)
(* the one of the next line, where every reader of the code realigns.      *)
(*                                                                         *)
(* Operations that hold both locks from start to end and touch one file    *)
(* are one step.  append and compact_before_seq change the journal file    *)
(* first and the meta file later, so they are two steps: a process may die *)
(* in between, and what takes no file lock may see the first alone.        *)
(***************************************************************************)
EXTENDS Integers, Sequences, FiniteSets, FiniteSetsExt, Functions

CONSTANTS
    Instances,        \* the TickJournal objects, one per process
    Writers,          \* those that append: the collectors
    Compactors,       \* those that compact
    Healers,          \* those that call ensure_latest_seq_at_least
    Reloaders,        \* those that call reload_meta_from_disk
    Symbols,          \* instrument ids
    TradeIds,         \* exchange trade ids
    NoTrade,          \* the trade of a line that does not parse
    NoInstance,       \* nobody holds the file lock
    Window,           \* dedup_window
    PersistInterval,  \* META_PERSIST_INTERVAL
    IndexInterval,    \* seq_index_interval
    IndexMax,         \* _SEQ_INDEX_MAX_ENTRIES
    IdleFlush,        \* meta_idle_flush_seconds > 0
    MaxSeq,           \* bound: no seq above it is assigned
    MaxLives,         \* bound: times an instance may be constructed
    MaxFaults         \* bound: I/O errors and lock timeouts

ASSUME RolesAssumption ==
    /\ Writers \subseteq Instances
    /\ Compactors \subseteq Instances
    /\ Healers \subseteq Instances
    /\ Reloaders \subseteq Instances
    /\ NoInstance \notin Instances

ASSUME SizesAssumption ==
    /\ Window \in Nat \ {0}
    /\ PersistInterval \in Nat \ {0}
    /\ IndexInterval \in Nat \ {0}
    /\ IndexMax \in Nat \ {0}
    /\ IdleFlush \in BOOLEAN
    /\ MaxSeq \in Nat
    /\ MaxLives \in Nat
    /\ MaxFaults \in Nat

VARIABLES
    journal,   \* tick_journal.jsonl, its lines in order
    meta,      \* tick_journal.meta.json
    mem,       \* per instance: the meta store and its durability counters
    up,        \* per instance: the process runs
    critical,  \* who holds the file lock between two steps, and for what
    life,      \* history: how often an instance was constructed
    authors,   \* history: the <<instance, life>> pairs that appended
    faults     \* history: I/O errors and lock timeouts so far

vars == <<journal, meta, mem, up, critical, life, authors, faults>>

-----------------------------------------------------------------------------
(* Data *)

Trades == [symbol : Symbols, id : TradeIds]

\* A line: seq 0 when it does not parse, ended when its newline is there.
Line == [seq : Nat, trade : Trades \cup {NoTrade}, ended : BOOLEAN]

IndexEntry == [seq : Nat, off : Nat]

Meta == [latest : Nat, seen : [Symbols -> Seq(TradeIds)], index : Seq(IndexEntry)]

Memory == [latest : Nat, highWater : Nat,
           seen : [Symbols -> Seq(TradeIds)], index : Seq(IndexEntry),
           dirty : BOOLEAN, appends : Nat, timer : BOOLEAN]

Origin == [seq |-> 0, off |-> 0]

EmptyMeta == [latest |-> 0, seen |-> [s \in Symbols |-> << >>], index |-> <<Origin>>]

\* The tip a meta payload stands for: its latest_seq or its index, if ahead.
MetaTip(d) == Max({d.latest} \cup {e.seq : e \in Range(d.index)})

DiskTip == MetaTip(meta)

\* What the constructor keeps of the payload it loads.  The tip an append
\* counts from is the payload's latest_seq, not the tip of its index, and the
\* journal file is not scanned.
Loaded == [latest |-> meta.latest, highWater |-> DiskTip,
           seen |-> meta.seen, index |-> meta.index,
           dirty |-> FALSE, appends |-> 0, timer |-> FALSE]

\* The memory of a process that does not run.
NoMemory == [latest |-> 0, highWater |-> 0,
             seen |-> EmptyMeta.seen, index |-> EmptyMeta.index,
             dirty |-> FALSE, appends |-> 0, timer |-> FALSE]

\* The last n elements of a list, all of them when it is shorter.
LastN(s, n) == IF Len(s) <= n THEN s ELSE SubSeq(s, Len(s) - n + 1, Len(s))

\* Mutant of Remember: the bucket evicts one entry too early.
RememberTooFew(seen, t) ==
    [seen EXCEPT ![t.symbol] = LastN(Append(@, t.id), Window - 1)]

\* SymbolDedupBucket.add: first in, first out beyond the window.
Remember(seen, t) == [seen EXCEPT ![t.symbol] = LastN(Append(@, t.id), Window)]

\* TickJournalSeqIndex.record
Recorded(index, seq, off) ==
    LET base == IF index = << >> THEN <<Origin>> ELSE index
    IN  LastN(IF seq % IndexInterval = 0 /\ seq > base[Len(base)].seq
              THEN Append(base, [seq |-> seq, off |-> off])
              ELSE base,
              IndexMax)

\* Text written at the end of the file: it continues a line whose newline is
\* missing, and the two together do not parse.
WriteLine(j, l) ==
    IF j # << >> /\ ~j[Len(j)].ended
    THEN [j EXCEPT ![Len(j)] = [seq |-> 0, trade |-> NoTrade, ended |-> l.ended]]
    ELSE Append(j, l)

\* The enumerations of a finite set of positions in increasing order (one).
InOrder(S) ==
    {f \in [1 .. Cardinality(S) -> S] : \A a, b \in DOMAIN f : a < b => f[a] < f[b]}

-----------------------------------------------------------------------------
(* TickJournalMetaStore.persist *)

MemoryTip(m) == Max({m.latest, m.highWater})

\* Mutant of WritesMeta: a stale instance writes over a newer tip.
AlwaysWritesMeta(m, tip) == TRUE

\* A tip found on disk above the one in memory is adopted, nothing is written.
WritesMeta(m, tip) == tip <= MemoryTip(m)

\* The meta file after persist.
Published(m, tip) ==
    IF WritesMeta(m, tip)
    THEN [latest |-> MemoryTip(m), seen |-> m.seen, index |-> m.index]
    ELSE meta

\* The meta store after persist.
Settled(m, tip) ==
    LET settled == Max({MemoryTip(m), tip})
    IN  [m EXCEPT !.latest = settled, !.highWater = settled]

Fault == faults < MaxFaults /\ faults' = faults + 1

\* The tip persist finds on disk: of a file that cannot be read or parsed it is
\* 0, and the memory is written over whatever is there.
Finds(tip) ==
    \/ tip = DiskTip /\ UNCHANGED faults
    \/ tip = 0 /\ Fault

\* The write of the meta file succeeds, or raises and leaves the old file.
Stores(m, tip) == Finds(tip) /\ meta' = Published(m, tip)

StoreFails(m, tip) == WritesMeta(m, tip) /\ Fault /\ UNCHANGED meta

\* persist by instance i of the meta store m.
Persist(i, m) ==
    \E tip \in {DiskTip, 0} :
        /\ Stores(m, tip) \/ StoreFails(m, tip)
        /\ mem' = [mem EXCEPT ![i] = Settled(m, tip)]

\* TickJournalMetaDurability.persist_locked: the timer is cancelled first, the
\* dirty flag is cleared last, so a write that fails leaves it set.
PersistLocked(i, m) ==
    \E tip \in {DiskTip, 0} :
        LET settled == [Settled(m, tip) EXCEPT !.timer = FALSE]
        IN  \/ /\ Stores(m, tip)
               /\ mem' = [mem EXCEPT ![i] = [settled EXCEPT !.dirty = FALSE]]
            \/ /\ StoreFails(m, tip)
               /\ mem' = [mem EXCEPT ![i] = settled]

-----------------------------------------------------------------------------
(* The file lock and the thread lock *)

Sections == [by : Instances \cup {NoInstance}, op : {"none", "append", "compact"},
             trade : Trades \cup {NoTrade}, off : Nat]

Idle == [by |-> NoInstance, op |-> "none", trade |-> NoTrade, off |-> 0]

LockFree == critical = Idle

Holds(i, op) == critical.by = i /\ critical.op = op

-----------------------------------------------------------------------------
(* Processes *)

Init ==
    /\ journal = << >>
    /\ meta = EmptyMeta
    /\ mem = [i \in Instances |-> NoMemory]
    /\ up = [i \in Instances |-> FALSE]
    /\ critical = Idle
    /\ life = [i \in Instances |-> 0]
    /\ authors = {}
    /\ faults = 0

\* TickJournal.__init__ in a new process.
Open(i) ==
    /\ ~up[i] /\ life[i] < MaxLives
    /\ up' = [up EXCEPT ![i] = TRUE]
    /\ life' = [life EXCEPT ![i] = @ + 1]
    /\ mem' = [mem EXCEPT ![i] = Loaded]
    /\ UNCHANGED <<journal, meta, critical, authors, faults>>

\* The process ends, by a crash or a stop: nothing flushes the meta on the way
\* out and the idle timer is a daemon thread.  The kernel drops the file lock.
\* Only an instance that may come back is ended (MaxLives).
Crash(i) ==
    /\ up[i] /\ life[i] < MaxLives
    /\ up' = [up EXCEPT ![i] = FALSE]
    /\ mem' = [mem EXCEPT ![i] = NoMemory]
    /\ critical' = IF critical.by = i THEN Idle ELSE critical
    /\ UNCHANGED <<journal, meta, life, authors, faults>>

-----------------------------------------------------------------------------
(* append *)

\* Mutant of MayAppend: append does not take the file lock.
MayAppendUnlocked(i, t) ==
    /\ up[i]
    /\ mem[i].latest < MaxSeq
    /\ t.id \notin Range(mem[i].seen[t.symbol])

\* A trade that the window holds is not written: append then changes nothing.
MayAppend(i, t) ==
    /\ up[i] /\ LockFree
    /\ mem[i].latest < MaxSeq
    /\ t.id \notin Range(mem[i].seen[t.symbol])

NextLine(i, t) == [seq |-> mem[i].latest + 1, trade |-> t, ended |-> TRUE]

\* Mutant of AppendLine: the offset is taken after the write.
AppendLineOffsetAfter(i, t) ==
    /\ MayAppend(i, t)
    /\ journal' = WriteLine(journal, NextLine(i, t))
    /\ critical' = [by |-> i, op |-> "append", trade |-> t, off |-> Len(journal')]
    /\ authors' = authors \cup {<<i, life[i]>>}
    /\ UNCHANGED <<meta, mem, up, life, faults>>

\* The line is written and synced; the locks stay held.
AppendLine(i, t) ==
    /\ MayAppend(i, t)
    /\ journal' = WriteLine(journal, NextLine(i, t))
    /\ critical' = [by |-> i, op |-> "append", trade |-> t, off |-> Len(journal)]
    /\ authors' = authors \cup {<<i, life[i]>>}
    /\ UNCHANGED <<meta, mem, up, life, faults>>

\* The write fails part of the way: a fragment that does not parse, or the whole
\* record without its newline.  append raises before it touches the meta store.
AppendTorn(i, t) ==
    /\ MayAppend(i, t)
    /\ Fault
    /\ \E l \in {[NextLine(i, t) EXCEPT !.ended = FALSE],
                 [seq |-> 0, trade |-> NoTrade, ended |-> FALSE]} :
          journal' = WriteLine(journal, l)
    /\ authors' = authors \cup {<<i, life[i]>>}
    /\ UNCHANGED <<meta, mem, up, critical, life>>

\* bucket.add, set_latest_seq, seq_index.record and the append counter.
Appended(m, t, off) ==
    LET seq == m.latest + 1
    IN  [m EXCEPT !.latest = seq,
                  !.highWater = Max({@, seq}),
                  !.seen = Remember(@, t),
                  !.index = Recorded(@, seq, off),
                  !.appends = @ + 1]

\* Mutant of PersistDue: one append too late.
PersistDueLate(m) == m.appends % (PersistInterval + 1) = 0

PersistDue(m) == m.appends % PersistInterval = 0

\* The memory after mark_dirty; the mutant cancels the timer and arms no new one.
MarkedDirtyUntimed(m) == [m EXCEPT !.dirty = TRUE, !.timer = FALSE]

MarkedDirty(m) == [m EXCEPT !.dirty = TRUE, !.timer = IdleFlush]

\* note_append_locked: publish on every PersistInterval-th append, else mark
\* dirty and re-arm the idle timer.  When the meta file cannot be written append
\* raises although the line is in the journal.
AppendMeta(i) ==
    /\ Holds(i, "append")
    /\ LET m == Appended(mem[i], critical.trade, critical.off)
       IN  \/ PersistDue(m) /\ PersistLocked(i, m)
           \/ /\ ~PersistDue(m)
              /\ mem' = [mem EXCEPT ![i] = MarkedDirty(m)]
              /\ UNCHANGED <<meta, faults>>
    /\ critical' = Idle
    /\ UNCHANGED <<journal, up, life, authors>>

-----------------------------------------------------------------------------
(* Durability of the meta file *)

\* flush: looked at under the thread lock, looked at again under both locks.
\* The caller is flush_meta or the idle timer's thread, which swallows an error;
\* nothing re-arms the timer.
Flush(i) ==
    /\ up[i] /\ LockFree /\ mem[i].dirty
    /\ PersistLocked(i, mem[i])
    /\ UNCHANGED <<journal, up, critical, life, authors>>

FlushMeta(i) == Flush(i)

IdleFlushCallback(i) == mem[i].timer /\ Flush(i)

\* The timer's thread waits 30 s for the file lock and gives up.
IdleFlushTimesOut(i) ==
    /\ up[i] /\ mem[i].timer /\ mem[i].dirty /\ ~LockFree
    /\ Fault
    /\ mem' = [mem EXCEPT ![i].timer = FALSE]
    /\ UNCHANGED <<journal, meta, up, critical, life, authors>>

\* ensure_latest_seq_at_least; a seq that is not ahead changes nothing.
EnsureLatestSeqAtLeast(i, n) ==
    /\ up[i] /\ LockFree /\ n > mem[i].latest
    /\ PersistLocked(i, [mem[i] EXCEPT !.latest = n, !.highWater = Max({@, n})])
    /\ UNCHANGED <<journal, up, critical, life, authors>>

-----------------------------------------------------------------------------
(* Reads of the meta file; none takes the file lock *)

\* It reports the tip and remembers it as the high-water mark.
ReadLatestSeqFromDisk(i) ==
    /\ up[i]
    /\ mem' = [mem EXCEPT ![i].highWater = Max({@, DiskTip})]
    /\ UNCHANGED <<journal, meta, up, critical, life, authors, faults>>

\* Mutant of ReloadMetaFromDisk: latest_seq is taken from disk as it is.
ReloadMetaUnclamped(i) ==
    /\ up[i] /\ critical.by # i
    /\ mem' = [mem EXCEPT ![i].latest = meta.latest,
                          ![i].highWater = Max({@, DiskTip}),
                          ![i].seen = meta.seen, ![i].index = meta.index]
    /\ UNCHANGED <<journal, meta, up, critical, life, authors, faults>>

\* The thread lock keeps the next two out of the instance's own append.
ReloadMetaFromDisk(i) ==
    /\ up[i] /\ critical.by # i
    /\ LET tip == Max({mem[i].highWater, DiskTip})
       IN  mem' = [mem EXCEPT ![i].latest = tip, ![i].highWater = tip,
                              ![i].seen = meta.seen, ![i].index = meta.index]
    /\ UNCHANGED <<journal, meta, up, critical, life, authors, faults>>

ReloadSeqIndexFromDisk(i) ==
    /\ up[i] /\ critical.by # i
    /\ mem' = [mem EXCEPT ![i].index = meta.index]
    /\ UNCHANGED <<journal, meta, up, critical, life, authors, faults>>

-----------------------------------------------------------------------------
(* Compaction *)

\* The lines that survive; a line that does not parse has seq 0 and goes.
Kept(minRetain) == {p \in DOMAIN journal : journal[p].seq >= minRetain}

\* The journal file is replaced by its surviving lines, each with a newline.
CompactJournal(i, minRetain) ==
    /\ up[i] /\ LockFree
    /\ minRetain > 1 /\ Kept(minRetain) # DOMAIN journal
    /\ \E f \in InOrder(Kept(minRetain)) :
          journal' = [p \in DOMAIN f |-> [journal[f[p]] EXCEPT !.ended = TRUE]]
    /\ critical' = [Idle EXCEPT !.by = i, !.op = "compact"]
    /\ UNCHANGED <<meta, mem, up, life, authors, faults>>

\* The lines the rebuilt index points at: the first and the checkpoints.
IndexedLines == {p \in DOMAIN journal : p = 1 \/ journal[p].seq % IndexInterval = 0}

\* Mutant of Reindexed: offsets counted from minus one.
ReindexedOffByOne(m, f) ==
    [m EXCEPT !.index =
        LastN(<<Origin>> \o [k \in DOMAIN f |-> [seq |-> journal[f[k]].seq,
                                                 off |-> f[k] - 2]],
              IndexMax)]

Reindexed(m, f) ==
    [m EXCEPT !.index =
        LastN(<<Origin>> \o [k \in DOMAIN f |-> [seq |-> journal[f[k]].seq,
                                                 off |-> f[k] - 1]],
              IndexMax)]

\* The index is replaced and the meta persisted: the dirty flag and the timer
\* are left as they are.
CompactMeta(i) ==
    /\ Holds(i, "compact")
    /\ \E f \in InOrder(IndexedLines) : Persist(i, Reindexed(mem[i], f))
    /\ critical' = Idle
    /\ UNCHANGED <<journal, up, life, authors>>

-----------------------------------------------------------------------------
(* TickJournalSeqIndex: where a read that starts at a seq begins *)

\* The last entry before the first that is beyond start.
IndexedHint(index, start) ==
    LET beyond == {k \in DOMAIN index : index[k].seq > start}
        n == IF beyond = {} THEN Len(index) ELSE Min(beyond) - 1
    IN  IF n = 0 THEN 0 ELSE index[n].off

\* From the hint, or from the beginning when the hint is past the end, to the
\* first line with a seq that is not below start, to a line without newline, or
\* to the end.
Resolve(start, hint) ==
    LET from == IF hint > Len(journal) THEN 0 ELSE hint
        stops == {p \in from + 1 .. Len(journal) :
                     journal[p].seq >= start \/ ~journal[p].ended}
    IN  IF stops = {} THEN Len(journal) ELSE Min(stops) - 1

ByteOffsetForSeq(i, start) ==
    IF start <= 1 THEN 0 ELSE Resolve(start, IndexedHint(mem[i].index, start))

-----------------------------------------------------------------------------
Step(i) ==
    \/ Open(i)
    \/ Crash(i)
    \/ i \in Writers /\ \E t \in Trades : AppendLine(i, t) \/ AppendTorn(i, t)
    \/ AppendMeta(i)
    \/ FlushMeta(i)
    \/ IdleFlushCallback(i)
    \/ IdleFlushTimesOut(i)
    \/ i \in Healers /\ \E n \in 1 .. MaxSeq : EnsureLatestSeqAtLeast(i, n)
    \/ ReadLatestSeqFromDisk(i)
    \/ i \in Reloaders /\ (ReloadMetaFromDisk(i) \/ ReloadSeqIndexFromDisk(i))
    \/ i \in Compactors /\ \E n \in 2 .. MaxSeq : CompactJournal(i, n)
    \/ CompactMeta(i)

Next == \E i \in Instances : Step(i)

\* A process that runs goes on with what it began, and an armed timer fires.
Fairness ==
    \A i \in Instances : /\ WF_vars(AppendMeta(i))
                         /\ WF_vars(CompactMeta(i))
                         /\ WF_vars(IdleFlushCallback(i))

Spec == Init /\ [][Next]_vars

FairSpec == Spec /\ Fairness

-----------------------------------------------------------------------------
(* Properties *)

TypeOK ==
    /\ journal \in Seq(Line)
    /\ meta \in Meta
    /\ mem \in [Instances -> Memory]
    /\ up \in [Instances -> BOOLEAN]
    /\ critical \in Sections
    /\ life \in [Instances -> Nat]
    /\ authors \subseteq Instances \X Nat
    /\ faults \in Nat

\* Whichever process persists, however stale its memory and whatever failed
\* before, it adopts a higher tip on disk instead of writing over it: the tip
\* that tick_journal.meta.json publishes goes back only in a step with an I/O
\* error of its own: persist then could not read the file that it replaced.
DiskTipNeverRegresses == [][DiskTip' >= DiskTip \/ faults' > faults]_vars

\* While a process runs, latest_seq() and the high-water mark behind
\* read_latest_seq_from_disk never go back, across appends, reloads, repairs,
\* adopted tips and failed writes.
MemoryTipsNeverRegress ==
    [][\A i \in Instances :
          up[i] /\ up'[i] => /\ mem'[i].latest >= mem[i].latest
                             /\ mem'[i].highWater >= mem[i].highWater]_vars

\* As long as no I/O fails, the published tip is less than PersistInterval
\* appends behind the tip in memory of any running instance, although flushes,
\* repairs, reloads and compactions publish and adopt tips in between without
\* resetting the append counter.
TipLagBounded ==
    faults = 0 =>
        \A i \in Instances : up[i] => mem[i].latest - DiskTip < PersistInterval

\* As long as no I/O fails, what is not published is known to be dirty and an
\* idle timer is armed to publish it.
UnpublishedIsTimed ==
    faults = 0 /\ IdleFlush =>
        \A i \in Instances :
            up[i] /\ mem[i].latest > DiskTip => mem[i].dirty /\ mem[i].timer

\* Every seq is the seq of one line of the journal at most.
SeqUnique ==
    \A p, q \in DOMAIN journal :
        journal[p].seq = journal[q].seq /\ journal[p].seq > 0 => p = q

\* Only one incarnation of one instance ever appended.
OneAuthor == \A a, b \in authors : a = b

\* With one author and no failed write, the seqs of the lines strictly increase
\* from line to line, whatever the other instances compact, repair or adopt.
SeqsIncreaseForOneAuthor ==
    OneAuthor /\ faults = 0 =>
        \A p, q \in DOMAIN journal : p < q => journal[p].seq < journal[q].seq

\* Between two lines with the same trade an author that neither restarted nor
\* reloaded has written at least Window other trades of the symbol.
DedupWithinWindow ==
    OneAuthor /\ faults = 0 /\ (\A a \in authors : a[1] \notin Reloaders) =>
        \A p, q \in DOMAIN journal :
            p < q /\ journal[p].trade = journal[q].trade =>
                Cardinality({r \in p + 1 .. q - 1 :
                    journal[r].trade.symbol = journal[p].trade.symbol}) >= Window

\* byte_offset_for_seq returns the offset of the first line whose seq is not
\* below the one asked for, so the index only saves part of the walk: for an
\* instance in its first incarnation that is the only one to compact and keeps
\* its own index, while one author appends.
OwnIndexResolves ==
    OneAuthor /\ faults = 0 =>
        \A i \in Instances \ Reloaders, start \in 2 .. MaxSeq + 1 :
            up[i] /\ critical.by # i /\ Compactors \subseteq {i} /\ life[i] = 1 =>
                ByteOffsetForSeq(i, start) = Resolve(start, 0)

\* Every tip that a running instance holds is published in the end, or its
\* process has ended.
TipEventuallyPublished ==
    \A i \in Instances, n \in 1 .. MaxSeq :
        (up[i] /\ mem[i].latest >= n) ~> (~up[i] \/ DiskTip >= n)

=============================================================================
