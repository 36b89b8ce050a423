------------------------------ MODULE ReaderSteps ------------------------------
(***************************************************************************)
(* What JournalIncrementalReader does to its fields, as functions of them, *)
(* of the file and of the published meta: JournalReader lets one reader    *)
(* take these steps, EnginePipeline the reader of a running engine.        *)
(***************************************************************************)
EXTENDS JournalFile

CONSTANT MetaLag    \* TIP_META_LAG_TOLERANCE_SEQ

ASSUME MetaLagAssumption == MetaLag \in Nat

None == -1

-----------------------------------------------------------------------------
(* The reader's own steps, as functions of its fields r *)

Idle == [off |-> None, len |-> None, ripe |-> FALSE]

\* IncompleteTrailingFragmentPolicy.clear
ClearWait(r) == [r EXCEPT !.wait = Idle]

\* __align_read_offset_to_line_boundary
Align(r, f) ==
    LET o == IF r.off >= Len(f) THEN Len(f) ELSE NextBol(f, r.off)
    IN  CASE r.off = 0     -> [r EXCEPT !.bol = 0]
          [] r.off # 0 /\ r.bol = r.off -> r
          [] r.off # 0 /\ r.bol # r.off ->
               IF o = r.off THEN r ELSE ClearWait([r EXCEPT !.off = o, !.bol = o])

\* __abandon_incomplete_tip_at_cursor(force=True)
AbandonTip(r, f) ==
    ClearWait(IF Unended(f, r.off) THEN [r EXCEPT !.off = Len(f)] ELSE r)

\* Mutant: the offset a seek ends at is not marked as a line start.
SeekToUnmarked(r, f, o, s) ==
    [AbandonTip(Align([r EXCEPT !.off = o], f), f) EXCEPT !.next = s]

\* The tail shared by the two seeks: align, abandon, trust the offset.
SeekTo(r, f, o, s) ==
    LET a == AbandonTip(Align([r EXCEPT !.off = o], f), f)
    IN  [a EXCEPT !.bol = a.off, !.next = s]

\* __choose_reset_offset keeps the cursor where it is.
KeepsCursor(r, f, s) ==
    /\ s = r.next
    /\ r.off > ByteOffsetForSeq(f, r.index.entries, s)
    /\ r.off <= Len(f)

\* reset_from_seq
ResetFromSeq(r, f, s) ==
    SeekTo(r, f, IF KeepsCursor(r, f, s) THEN r.off
                 ELSE ByteOffsetForSeq(f, r.index.entries, s), s)

\* force_rebind_from_seq
ForceRebind(r, f, s) ==
    SeekTo([ClearWait(r) EXCEPT !.bol = None], f, ByteOffsetForSeq(f, r.index.entries, s), s)

\* Mutant: a cursor beyond the end is only clamped to it.
ResyncClamps(r, f, disk) ==
    IF r.off > Len(f)
    THEN ClearWait([r EXCEPT !.index = disk.index, !.off = Len(f), !.bol = Len(f), !.size = Len(f)])
    ELSE [r EXCEPT !.size = Len(f)]

\* __resync_if_journal_rewritten
Resync(r, f, disk) ==
    LET s == CASE r.off > Len(f) -> ResetFromSeq([r EXCEPT !.index = disk.index], f, r.next)
               [] r.off <= Len(f) /\ Len(f) < r.size -> Align(ClearWait(r), f)
               [] OTHER -> r
    IN  [s EXCEPT !.size = Len(f)]

\* The records one pass over the file returns: each beyond all before it.
Returned(r, f) ==
    LET records == {a \in LineStarts(f, r.off) : RecordAt(f, a)}
    IN  {SeqAt(f, a) : a \in {b \in records :
            /\ SeqAt(f, b) >= r.next
            /\ \A c \in records : c < b => SeqAt(f, c) < SeqAt(f, b)}}

\* Mutant: a fragment that looks like an append is waited for without limit.
SkipsNowNever(r, f, o) == ~InProgress(f[o + 1])

\* should_skip_now, for the fragment after the offset o.
SkipsNow(r, f, o) ==
    \/ ~InProgress(f[o + 1])
    \/ r.wait = [off |-> o, len |-> Len(f) - o, ripe |-> TRUE]

Waiting(r, f, o) ==
    IF r.wait.off = o /\ r.wait.len = Len(f) - o THEN r.wait
    ELSE [off |-> o, len |-> Len(f) - o, ripe |-> FALSE]

\* __read_new_records, after the cursor is aligned.
ReadOn(r, f) ==
    LET o == Max(LineStarts(f, r.off))
        read == IF o = r.off THEN r
                ELSE ClearWait([r EXCEPT !.off = o, !.bol = o,
                                         !.next = Max({r.next} \cup {s + 1 : s \in Returned(r, f)})])
    IN  CASE o >= Len(f) -> read
          [] o < Len(f) /\ SkipsNow(read, f, o) ->
               ClearWait([read EXCEPT !.off = Len(f), !.bol = Len(f)])
          [] OTHER -> [read EXCEPT !.wait = Waiting(read, f, o)]

-----------------------------------------------------------------------------
(* A new reader, and when force_tail_resync_if_unread does something *)

FreshReader(disk) ==
    [off |-> 0, next |-> 1, bol |-> 0, size |-> None, wait |-> Idle, index |-> disk.index]

Stuck(r) == r.wait # Idle

\* compute_read_progress_snapshot: latest_seq and lag_seq.
LatestSeq(r) ==
    IF r.next - 1 - published.latest > MetaLag THEN published.latest
    ELSE Max({published.latest, r.next - 1})

Lags(r) == LatestSeq(r) >= r.next \/ Stuck(r)

CaughtUpAtEof(r) == r.off >= Len(file) /\ ~Lags(r)

TrailingBytesOnly(r) == ~Stuck(r) /\ r.off < Len(file) /\ r.next > LatestSeq(r)

Unread(r) == ~CaughtUpAtEof(r) /\ ~TrailingBytesOnly(r)

ReaderType ==
    [off : Nat, next : Nat \ {0}, bol : Nat, size : Nat \cup {None},
     wait : [off : Nat \cup {None}, len : Nat \cup {None}, ripe : BOOLEAN],
     index : Index]

\* The record being written, when the cursor passes what there is of it.
GivenUp(r) == IF writing > 0 /\ r.off = Len(file) THEN {tip + 1} ELSE {}

================================================================================
