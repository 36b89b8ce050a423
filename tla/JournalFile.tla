------------------------------ MODULE JournalFile ------------------------------
(***************************************************************************)
(* tick_journal.jsonl and tick_journal.meta.json as another process sees   *)
(* them, which takes no lock: the collector appends to the file, dies in   *)
(* the middle of a line, rewrites the file and publishes its index.        *)
(*                                                                         *)
(* The file is a sequence of pieces: the line of record s is written as    *)
(* the pieces 1 to Width[s] of s, the last of which holds the closing      *)
(* brace and the newline, and every other opens with a brace.  Offsets     *)
(* count pieces, so after a rewrite an old offset may lie inside a line.   *)
(*                                                                         *)
(* The records that are complete carry increasing numbers here: what a     *)
(* restarted collector does to the numbers, and a compaction that dies     *)
(* half way, are modelled in TickJournal.                                  *)
(***************************************************************************)
EXTENDS Integers, Sequences, FiniteSets, FiniteSetsExt

CONSTANTS
    Width,          \* pieces per record, and with it the records there are
    IndexInterval,  \* seq_index_interval
    PersistInterval,\* META_PERSIST_INTERVAL
    MaxTorn,        \* bound: lines the collector dies in
    MaxRewrites     \* bound: compactions

ASSUME WidthAssumption == Width \in Seq(Nat) /\ \A s \in DOMAIN Width : Width[s] > 1

ASSUME FileAssumption ==
    /\ IndexInterval \in Nat \ {0}
    /\ PersistInterval \in Nat \ {0}
    /\ {MaxTorn, MaxRewrites} \subseteq Nat

VARIABLES
    file,       \* tick_journal.jsonl
    tip,        \* the collector: latest_seq
    writing,    \* the collector: pieces written of the line of tip + 1
    index,      \* the collector: its seq_index, in memory
    published,  \* tick_journal.meta.json: latest_seq and seq_index
    torn,       \* history: lines the collector died in
    rewrites    \* history: compactions; an index is of the era it was made in

fileVars == <<file, tip, writing, index, published, torn, rewrites>>

Records == DOMAIN Width

Origin == [seq |-> 0, off |-> 0]
EmptyIndex == [era |-> 0, entries |-> <<Origin>>]

FileInit ==
    /\ file = << >>
    /\ tip = 0
    /\ writing = 0
    /\ index = EmptyIndex
    /\ published = [latest |-> 0, index |-> EmptyIndex]
    /\ torn = 0
    /\ rewrites = 0

-----------------------------------------------------------------------------
(* Lines of a file f, read on from the offset o *)

IsEnd(c) == c.piece = Width[c.seq]

Ends(f, o) == {k \in (o + 1)..Len(f) : IsEnd(f[k])}

\* Where readline leaves the file position.
LineEnd(f, o) == IF Ends(f, o) = {} THEN Len(f) ELSE Min(Ends(f, o))

\* Where the calls of readline start; no line is complete after the last.
LineStarts(f, o) == {o} \cup Ends(f, o)
Unended(f, o) == Ends(f, o) = {}

\* The record that starts right after the offset a, if it is complete.
RecordAt(f, a) ==
    /\ a < Len(f)
    /\ LET s == f[a + 1].seq IN
       /\ a + Width[s] <= Len(f)
       /\ \A k \in 1..Width[s] : f[a + k] = [seq |-> s, piece |-> k]

SeqAt(f, a) == f[a + 1].seq

\* is_in_progress_journal_fragment: the last piece alone is no opening.
InProgress(c) == ~IsEnd(c)

\* The next line start, unless the byte before o ends a line.
NextBol(f, o) == IF o > 0 /\ o <= Len(f) /\ ~IsEnd(f[o]) THEN LineEnd(f, o) ELSE o

\* indexed_hint: the entries up to the first one beyond s.
IndexedHint(entries, s) ==
    LET within == {i \in DOMAIN entries : \A j \in 1..i : entries[j].seq <= s}
    IN  IF within = {} THEN 0 ELSE entries[Max(within)].off

\* byte_offset_for_seq: from the hint, or the start when the hint is beyond
\* the file, to the first complete record from s on or the unended tail.
ByteOffsetForSeq(f, entries, s) ==
    LET hint == IndexedHint(entries, s)
        o == IF hint > Len(f) THEN 0 ELSE NextBol(f, hint)
    IN  IF s <= 1 THEN 0
        ELSE Min({a \in LineStarts(f, o) :
                    Unended(f, a) \/ (RecordAt(f, a) /\ SeqAt(f, a) >= s)})

-----------------------------------------------------------------------------
(* The collector *)

\* compact_before_seq holds the locks until it has persisted the meta file.
Compacting == index.era # published.index.era

\* append, as the file shows it to others: piece after piece.
WritePiece ==
    LET s == tip + 1
        last == writing + 1 = Width[s]
        sparse == s % IndexInterval = 0
    IN  /\ s \in Records
        /\ ~Compacting
        /\ file' = Append(file, [seq |-> s, piece |-> writing + 1])
        /\ writing' = IF last THEN 0 ELSE writing + 1
        /\ tip' = IF last THEN s ELSE tip
        /\ index' = IF last /\ sparse
                    THEN [index EXCEPT !.entries =
                            Append(@, [seq |-> s, off |-> Len(file) - writing])]
                    ELSE index
        /\ UNCHANGED <<published, torn, rewrites>>

\* The process ends in the middle of a line; the next one appends to it.
DieInLine ==
    /\ writing > 0
    /\ torn < MaxTorn
    /\ writing' = 0
    /\ index' = published.index
    /\ torn' = torn + 1
    /\ UNCHANGED <<file, tip, published, rewrites>>

\* The meta file is persisted: after so many records, or after a rewrite.
Persist ==
    /\ writing = 0
    /\ tip - published.latest >= PersistInterval \/ Compacting
    /\ published' = [latest |-> tip, index |-> index]
    /\ UNCHANGED <<file, tip, writing, index, torn, rewrites>>

\* A finite set of places as a sequence, in increasing order: an explicit
\* function, which a proof can take apart as it cannot a sort.
InOrder(S) ==
    [i \in 1..Cardinality(S) |-> CHOOSE p \in S : Cardinality({q \in S : q < p}) = i - 1]

\* The places of the records from minRetain on, each a line of its own.
Retained(minRetain) ==
    UNION {(a + 1)..(a + Width[SeqAt(file, a)]) : a \in {b \in LineStarts(file, 0) :
        RecordAt(file, b) /\ SeqAt(file, b) >= minRetain}}

\* compact_before_seq, up to the replacement of the file.
Rewrite(minRetain) ==
    LET kept == InOrder(Retained(minRetain))
        new == [i \in DOMAIN kept |-> file[kept[i]]]
        starts == InOrder({i \in DOMAIN new :
                              /\ new[i].piece = 1
                              /\ i = 1 \/ new[i].seq % IndexInterval = 0})
    IN  /\ writing = 0
        /\ rewrites < MaxRewrites
        /\ ~Compacting
        /\ new # file
        /\ file' = new
        /\ index' = [era |-> rewrites + 1,
                     entries |-> <<Origin>> \o
                        [i \in DOMAIN starts |-> [seq |-> new[starts[i]].seq, off |-> starts[i] - 1]]]
        /\ rewrites' = rewrites + 1
        /\ UNCHANGED <<tip, writing, published, torn>>

-----------------------------------------------------------------------------
Cell == [seq : Records, piece : Nat \ {0}]
Index == [era : Nat, entries : Seq([seq : Nat, off : Nat])]

FileTypeOK ==
    /\ file \in Seq(Cell)
    /\ tip \in {0} \cup Records
    /\ writing \in Nat
    /\ index \in Index
    /\ published \in [latest : {0} \cup Records, index : Index]
    /\ torn \in 0..MaxTorn
    /\ rewrites \in 0..MaxRewrites

================================================================================
