------------------------ MODULE JournalTickStreamProofs ------------------------
(***************************************************************************)
(* Theorems about JournalTickStream, for every set of symbols and any      *)
(* number of lines, restarts, calls and failures.                          *)
(***************************************************************************)
EXTENDS JournalTickStream, DataLemmas, SequenceTheorems

-----------------------------------------------------------------------------
(* Selecting from a list *)

\* f goes through the recursion of Selected for the first n elements of s.
IsSelection(f, s, A, n) ==
    f = [k \in 0 .. n |->
            IF k = 0 THEN << >>
            ELSE IF s[k] \in A THEN Append(f[k - 1], s[k]) ELSE f[k - 1]]

\* The recursion, read element by element.
LEMMA SelectionSteps ==
  ASSUME NEW f, NEW s, NEW A, NEW n \in Nat, IsSelection(f, s, A, n)
  PROVE  /\ f[0] = << >>
         /\ \A k \in 1 .. n : f[k] = IF s[k] \in A THEN Append(f[k - 1], s[k]) ELSE f[k - 1]
<1> DEFINE step(k) == IF k = 0 THEN << >>
                      ELSE IF s[k] \in A THEN Append(f[k - 1], s[k]) ELSE f[k - 1]
<1>1. f = [k \in 0 .. n |-> step(k)]
  BY Zenon DEF IsSelection
<1> HIDE DEF step
<1>2. \A k \in 0 .. n : f[k] = step(k)
  BY <1>1
<1>3. 0 \in 0 .. n /\ \A k \in 1 .. n : k \in 0 .. n /\ k # 0
  OBVIOUS
<1> QED BY <1>2, <1>3, Zenon DEF step

\* There is such a function, which the definition of Selected chooses.
LEMMA SelectionExists ==
  ASSUME NEW s, NEW A, NEW n \in Nat
  PROVE  \E f : IsSelection(f, s, A, n)
<1> DEFINE S == {m \in Nat : \E f : IsSelection(f, s, A, m)}
<1>1. 0 \in S
  <2>1. IsSelection([k \in 0 .. 0 |-> << >>], s, A, 0)
    BY DEF IsSelection
  <2> QED BY <2>1
<1>2. ASSUME NEW m \in S PROVE m + 1 \in S
  <2>1. PICK f : IsSelection(f, s, A, m)
    BY <1>2
  <2> DEFINE x == IF s[m + 1] \in A THEN Append(f[m], s[m + 1]) ELSE f[m]
             g == [k \in 0 .. m + 1 |-> IF k = m + 1 THEN x ELSE f[k]]
  <2>2. \A k \in 0 .. m : g[k] = f[k]
    OBVIOUS
  <2>3. \A k \in 1 .. m : f[k] = IF s[k] \in A THEN Append(f[k - 1], s[k]) ELSE f[k - 1]
    BY <2>1, SelectionSteps
  <2>4. f[0] = << >>
    BY <2>1, SelectionSteps
  <2> DEFINE h == [k \in 0 .. m + 1 |->
                      IF k = 0 THEN << >>
                      ELSE IF s[k] \in A THEN Append(g[k - 1], s[k]) ELSE g[k - 1]]
  <2>5. \A k \in 0 .. m + 1 : g[k] = h[k]
    <3> SUFFICES ASSUME NEW k \in 0 .. m + 1 PROVE g[k] = h[k]
      OBVIOUS
    <3>1. CASE k = 0
      BY <2>2, <2>4, <3>1
    <3>2. CASE k \in 1 .. m
      <4>1. g[k] = f[k] /\ g[k - 1] = f[k - 1]
        BY <2>2, <3>2
      <4>2. h[k] = IF s[k] \in A THEN Append(g[k - 1], s[k]) ELSE g[k - 1]
        BY <3>2
      <4> QED BY <2>3, <3>2, <4>1, <4>2
    <3>3. CASE k = m + 1
      <4>1. g[k] = x /\ g[k - 1] = f[m]
        BY <2>2, <3>3
      <4>2. h[k] = IF s[k] \in A THEN Append(g[k - 1], s[k]) ELSE g[k - 1]
        BY <3>3
      <4> QED BY <3>3, <4>1, <4>2
    <3> QED BY <3>1, <3>2, <3>3
  <2>6. g = h
    BY <2>5
  <2>7. IsSelection(g, s, A, m + 1)
    BY <2>6 DEF IsSelection
  <2> QED BY <2>7
<1>3. S = Nat
  <2>1. S \subseteq Nat
    OBVIOUS
  <2> HIDE DEF S
  <2> QED BY <1>1, <1>2, <2>1, SetInduction
<1> QED BY <1>3

\* What the definition chooses satisfies the recursion.
LEMMA SelectedIs ==
  ASSUME NEW s, NEW A, Len(s) \in Nat
  PROVE  \E f : /\ f[0] = << >>
                /\ \A k \in 1 .. Len(s) :
                     f[k] = IF s[k] \in A THEN Append(f[k - 1], s[k]) ELSE f[k - 1]
                /\ Selected(s, A) = f[Len(s)]
<1> DEFINE c == CHOOSE f : IsSelection(f, s, A, Len(s))
<1>1. IsSelection(c, s, A, Len(s))
  BY SelectionExists, Zenon
<1>2. Selected(s, A) = c[Len(s)]
  BY Zenon DEF Selected, IsSelection
<1> HIDE DEF c
<1>3. c[0] = << >>
  BY <1>1, SelectionSteps
<1>4. \A k \in 1 .. Len(s) : c[k] = IF s[k] \in A THEN Append(c[k - 1], s[k]) ELSE c[k - 1]
  BY <1>1, SelectionSteps
<1> QED BY <1>2, <1>3, <1>4

\* The selection is a list of the elements of s that are in A.
LEMMA SelectedElements ==
  ASSUME NEW T, NEW s \in Seq(T), NEW A
  PROVE  /\ Selected(s, A) \in Seq(T)
         /\ Range(Selected(s, A)) = Range(s) \cap A
<1>0. Len(s) \in Nat /\ \A k \in 1 .. Len(s) : s[k] \in T
  OBVIOUS
<1>1. PICK f : /\ f[0] = << >>
               /\ \A k \in 1 .. Len(s) :
                    f[k] = IF s[k] \in A THEN Append(f[k - 1], s[k]) ELSE f[k - 1]
               /\ Selected(s, A) = f[Len(s)]
  BY <1>0, SelectedIs
<1> DEFINE P(m) == f[m] \in Seq(T) /\ Range(f[m]) = {s[i] : i \in 1 .. m} \cap A
           S == {m \in Nat : m <= Len(s) => P(m)}
<1>2. 0 \in S
  <2>1. f[0] \in Seq(T)
    BY <1>1
  <2>2. Range(f[0]) = {}
    BY <1>1 DEF Range
  <2> QED BY <2>1, <2>2
<1>3. ASSUME NEW m \in S PROVE m + 1 \in S
  <2> SUFFICES ASSUME m + 1 <= Len(s) PROVE P(m + 1)
    OBVIOUS
  <2>1. P(m) /\ m + 1 \in 1 .. Len(s) /\ m \in Nat
    BY <1>0
  <2>2. f[m + 1] = IF s[m + 1] \in A THEN Append(f[m], s[m + 1]) ELSE f[m]
    BY <1>1, <2>1
  <2>3. {s[i] : i \in 1 .. m + 1} = {s[i] : i \in 1 .. m} \cup {s[m + 1]}
    BY <2>1
  <2>4. CASE s[m + 1] \in A
    <3>1. f[m + 1] = Append(f[m], s[m + 1]) /\ s[m + 1] \in T
      BY <1>0, <2>1, <2>2, <2>4
    <3>2. Range(Append(f[m], s[m + 1])) = Range(f[m]) \cup {s[m + 1]}
      <4> DEFINE a == Append(f[m], s[m + 1])
      <4>1. /\ a \in Seq(T) /\ Len(a) = Len(f[m]) + 1 /\ a[Len(f[m]) + 1] = s[m + 1]
            /\ \A i \in 1 .. Len(f[m]) : a[i] = f[m][i]
        BY <2>1, <3>1, AppendProperties
      <4> HIDE DEF a
      <4>2. Len(f[m]) \in Nat
        BY <2>1
      <4>3. Range(a) = {a[i] : i \in 1 .. Len(f[m]) + 1}
        BY <4>1, RangeEquality
      <4>4. Range(f[m]) = {f[m][i] : i \in 1 .. Len(f[m])}
        BY <2>1, RangeEquality
      <4>5. Range(a) = Range(f[m]) \cup {s[m + 1]}
        <5>1. \A i \in 1 .. Len(f[m]) + 1 : i \in 1 .. Len(f[m]) \/ i = Len(f[m]) + 1
          BY <4>2
        <5>2. Len(f[m]) + 1 \in 1 .. Len(f[m]) + 1
              /\ \A i \in 1 .. Len(f[m]) : i \in 1 .. Len(f[m]) + 1
          BY <4>2
        <5>3. \A x \in Range(a) : x \in Range(f[m]) \/ x = s[m + 1]
          BY <4>1, <4>3, <4>4, <5>1
        <5>4. \A x \in Range(f[m]) : x \in Range(a)
          BY <4>1, <4>3, <4>4, <5>2
        <5>5. s[m + 1] \in Range(a)
          BY <4>1, <4>3, <5>2
        <5> QED BY <5>3, <5>4, <5>5
      <4> QED BY <4>5 DEF a
    <3>3. f[m + 1] \in Seq(T)
      BY <2>1, <3>1, AppendProperties
    <3> QED BY <2>1, <2>3, <2>4, <3>1, <3>2, <3>3
  <2>5. CASE s[m + 1] \notin A
    BY <2>1, <2>2, <2>3, <2>5
  <2> QED BY <2>4, <2>5
<1>4. S \subseteq Nat
  OBVIOUS
<1> HIDE DEF S
<1>5. S = Nat
  BY <1>2, <1>3, <1>4, SetInduction
<1>6. P(Len(s))
  BY <1>0, <1>5 DEF S
<1>7. Range(s) = {s[i] : i \in 1 .. Len(s)}
  BY RangeEquality
<1> QED BY <1>1, <1>6, <1>7

\* When the elements in A stand next to each other, they are a part of the list.
LEMMA SelectedInterval ==
  ASSUME NEW T, NEW s \in Seq(T), NEW A, NEW p \in 0 .. Len(s), NEW q \in p .. Len(s),
         \A i \in 1 .. Len(s) : s[i] \in A <=> p < i /\ i <= q
  PROVE  Selected(s, A) = SubSeq(s, p + 1, q)
<1>0. Len(s) \in Nat /\ p \in Nat /\ q \in Nat /\ p <= q /\ q <= Len(s)
  OBVIOUS
<1>1. PICK f : /\ f[0] = << >>
               /\ \A k \in 1 .. Len(s) :
                    f[k] = IF s[k] \in A THEN Append(f[k - 1], s[k]) ELSE f[k - 1]
               /\ Selected(s, A) = f[Len(s)]
  BY <1>0, SelectedIs
<1> DEFINE upTo(m) == SubSeq(s, p + 1, IF m <= q THEN m ELSE q)
           S == {m \in Nat : m <= Len(s) => f[m] = upTo(m)}
<1>2. 0 \in S
  <2>1. SubSeq(s, p + 1, 0) = << >>
    BY <1>0, SubSeqEmpty, p + 1 \in Int, 0 \in Int, 0 < p + 1
  <2>2. upTo(0) = SubSeq(s, p + 1, 0)
    BY <1>0
  <2>3. f[0] = upTo(0)
    BY <1>1, <2>1, <2>2
  <2> HIDE DEF upTo
  <2> QED BY <2>3
<1>3. ASSUME NEW m \in S PROVE m + 1 \in S
  <2> SUFFICES ASSUME m + 1 <= Len(s) PROVE f[m + 1] = upTo(m + 1)
    OBVIOUS
  <2>1. f[m] = upTo(m) /\ m + 1 \in 1 .. Len(s) /\ m \in Nat
    BY <1>0
  <2>2. f[m + 1] = IF s[m + 1] \in A THEN Append(f[m], s[m + 1]) ELSE f[m]
    <3>1. (m + 1) - 1 = m
      BY <2>1
    <3> HIDE DEF upTo, S
    <3> QED BY <1>1, <2>1, <3>1
  <2>3. CASE m + 1 <= p
    <3>1. SubSeq(s, p + 1, m) = << >> /\ SubSeq(s, p + 1, m + 1) = << >>
      BY <1>0, <2>1, <2>3, SubSeqEmpty, p + 1 \in Int, m \in Int, m + 1 \in Int,
         m < p + 1, m + 1 < p + 1
    <3> QED BY <1>0, <2>1, <2>2, <2>3, <3>1
  <2>4. CASE p < m + 1 /\ m + 1 <= q
    <3>1. SubSeq(s, p + 1, m + 1) = SubSeq(s, p + 1, m) \o << s[m + 1] >>
      <4>1. p + 1 \in 1 .. Len(s) /\ m + 1 \in p + 1 .. Len(s)
        BY <1>0, <2>1, <2>4
      <4>2. (m + 1) - 1 = m
        BY <2>1
      <4> QED BY <4>1, <4>2, SubSeqRecursiveSecond
    <3>2. SubSeq(s, p + 1, m) \in Seq(T) /\ s[m + 1] \in T
      <4>1. \A i \in p + 1 .. m : s[i] \in T
        BY <1>0, <2>1
      <4> QED BY <1>0, <2>1, <4>1, SubSeqProperties, p + 1 \in Int, m \in Int
    <3>3. Append(SubSeq(s, p + 1, m), s[m + 1]) = SubSeq(s, p + 1, m) \o << s[m + 1] >>
      BY <3>2, AppendIsConcat
    <3>4. f[m + 1] = Append(SubSeq(s, p + 1, m), s[m + 1])
      BY <1>0, <2>1, <2>2, <2>4
    <3> QED BY <1>0, <2>1, <2>4, <3>1, <3>3, <3>4
  <2>5. CASE q < m + 1
    <3>1. f[m + 1] = f[m]
      BY <2>1, <2>2, <2>5
    <3>2. upTo(m + 1) = upTo(m)
      BY <1>0, <2>1, <2>5
    <3> QED BY <2>1, <3>1, <3>2
  <2> QED BY <1>0, <2>1, <2>3, <2>4, <2>5
<1>4. S \subseteq Nat
  OBVIOUS
<1> HIDE DEF S
<1>5. S = Nat
  BY <1>2, <1>3, <1>4, SetInduction
<1>6. f[Len(s)] = upTo(Len(s))
  BY <1>0, <1>5 DEF S
<1>7. upTo(Len(s)) = SubSeq(s, p + 1, q)
  BY <1>0
<1> QED BY <1>1, <1>6, <1>7

\* Everything is selected.
LEMMA SelectedAll ==
  ASSUME NEW T, NEW s \in Seq(T), NEW A, Range(s) \subseteq A
  PROVE  Selected(s, A) = s
<1>1. Len(s) \in Nat /\ \A i \in 1 .. Len(s) : s[i] \in A
  <2>1. Range(s) = {s[i] : i \in 1 .. Len(s)}
    BY RangeEquality
  <2> QED BY <2>1
<1>2. Selected(s, A) = SubSeq(s, 0 + 1, Len(s))
  <2>1. 0 \in 0 .. Len(s) /\ Len(s) \in 0 .. Len(s)
    BY <1>1
  <2>2. \A i \in 1 .. Len(s) : s[i] \in A <=> 0 < i /\ i <= Len(s)
    BY <1>1
  <2> QED BY <2>1, <2>2, SelectedInterval
<1>3. SubSeq(s, 0 + 1, Len(s)) = s
  BY SubSeqFull
<1> QED BY <1>2, <1>3

-----------------------------------------------------------------------------
(* Maxima of lists of lines *)

\* A list of lines and the records in it.
LEMMA LinesAreRecords ==
  ASSUME NEW b \in Seq(Line)
  PROVE  /\ Len(b) \in Nat
         /\ \A i \in 1 .. Len(b) : b[i] \in Line /\ b[i].seq \in Nat \ {0} /\ b[i].symbol \in Symbols
         /\ Range(b) = {b[i] : i \in 1 .. Len(b)} /\ Range(b) \subseteq Line
         /\ Seqs(b) = {b[i].seq : i \in 1 .. Len(b)} /\ Seqs(b) \subseteq Nat \ {0}
<1>1. Len(b) \in Nat /\ \A i \in 1 .. Len(b) : b[i] \in Line
  OBVIOUS
<1>2. \A l \in Line : l.seq \in Nat \ {0} /\ l.symbol \in Symbols
  BY DEF Line
<1>3. Range(b) = {b[i] : i \in 1 .. Len(b)}
  BY RangeEquality
<1>4. Seqs(b) = {b[i].seq : i \in 1 .. Len(b)}
  BY <1>3 DEF Seqs
<1> QED BY <1>1, <1>2, <1>3, <1>4

\* The cursor after the unsubscribed lines of b: it never goes back, and stops at one
\* of them.
LEMMA CursorThroughIs ==
  ASSUME cursor \in Nat, NEW b \in Seq(Line)
  PROVE  /\ CursorThrough(b) \in Nat /\ CursorThrough(b) >= cursor
         /\ \A i \in 1 .. Len(b) : ~Subscribed(b[i]) => b[i].seq <= CursorThrough(b)
         /\ \/ CursorThrough(b) = cursor
            \/ \E i \in 1 .. Len(b) : ~Subscribed(b[i]) /\ CursorThrough(b) = b[i].seq
<1> DEFINE f == [i \in 1 .. Len(b) |-> IF Subscribed(b[i]) THEN cursor ELSE b[i].seq]
           X == {cursor} \cup {l.seq : l \in {x \in Range(b) : ~Subscribed(x)}}
<1>1. Len(b) \in Nat /\ \A i \in 1 .. Len(b) : b[i].seq \in Nat
  BY LinesAreRecords
<1>2. f \in [1 .. Len(b) -> Nat]
  BY <1>1
<1>3. Range(b) = {b[i] : i \in 1 .. Len(b)}
  BY LinesAreRecords
<1>4. {cursor} \cup Range(f) = X
  <2>1. \A i \in 1 .. Len(b) : f[i] = IF Subscribed(b[i]) THEN cursor ELSE b[i].seq
    OBVIOUS
  <2>2. Range(f) = {f[i] : i \in 1 .. Len(b)}
    BY DEF Range
  <2> HIDE DEF f
  <2>3. \A y \in Range(f) : y \in X
    BY <1>3, <2>1, <2>2
  <2>4. \A y \in X : y = cursor \/ y \in Range(f)
    BY <1>3, <2>1, <2>2
  <2> QED BY <2>3, <2>4
<1>5. \E x \in X : \A y \in X : x >= y
  BY <1>1, <1>2, <1>4, MaxExists
<1> HIDE DEF f
<1>6. CursorThrough(b) \in X /\ \A y \in X : CursorThrough(b) >= y
  <2>1. CursorThrough(b) = Max(X)
    BY DEF CursorThrough
  <2> HIDE DEF X
  <2>2. Max(X) \in X /\ \A y \in X : Max(X) >= y
    BY <1>5, Zenon DEF Max
  <2> QED BY <2>1, <2>2
<1>7. X \subseteq Nat
  BY <1>1, <1>3
<1>8. \A i \in 1 .. Len(b) : ~Subscribed(b[i]) => b[i].seq \in X
  BY <1>3
<1>9. \A y \in X : y = cursor \/ \E i \in 1 .. Len(b) : ~Subscribed(b[i]) /\ y = b[i].seq
  BY <1>3
<1> HIDE DEF X
<1>10. cursor \in X
  BY DEF X
<1> QED BY <1>1, <1>6, <1>7, <1>8, <1>9, <1>10

\* The tip is the greatest seq of the journal.
LEMMA TipIs ==
  ASSUME journal \in Seq(Line)
  PROVE  Tip \in Nat /\ \A i \in 1 .. Len(journal) : journal[i].seq <= Tip
<1> DEFINE f == [i \in 1 .. Len(journal) |-> journal[i].seq]
           X == {0} \cup Seqs(journal)
<1>1. /\ Len(journal) \in Nat /\ \A i \in 1 .. Len(journal) : journal[i].seq \in Nat
      /\ Seqs(journal) = {journal[i].seq : i \in 1 .. Len(journal)}
  BY LinesAreRecords
<1>2. f \in [1 .. Len(journal) -> Nat] /\ Range(f) = Seqs(journal)
  BY <1>1 DEF Range
<1>3. \E x \in X : \A y \in X : x >= y
  BY <1>1, <1>2, MaxExists
<1>4. Tip \in X /\ \A y \in X : Tip >= y
  <2>1. Tip = Max(X)
    BY DEF Tip
  <2> HIDE DEF X
  <2>2. Max(X) \in X /\ \A y \in X : Max(X) >= y
    BY <1>3, Zenon DEF Max
  <2> QED BY <2>1, <2>2
<1> QED BY <1>1, <1>4

-----------------------------------------------------------------------------
(* What a batch does *)

\* Handling a list of lines, in the terms of the buffer, the cursor and the history.
LEMMA HandleIs ==
  ASSUME queue \in Seq(Line), handled \in Seq(Line), cursor \in Nat, nextSeq \in Nat \ {0},
         done \subseteq Nat \ {0}, unfinished \in Int,
         NEW b \in Seq(Line), Handle(b)
  PROVE  /\ Taken(b) \in Seq(Line) /\ Len(Taken(b)) \in Nat
         /\ Range(Taken(b)) = {l \in Range(b) : Subscribed(l)}
         /\ queue' \in Seq(Line) /\ handled' \in Seq(Line)
         /\ queue' = queue \o Taken(b) /\ handled' = handled \o b
         /\ Len(queue') = Len(queue) + Len(Taken(b))
         /\ unfinished' = unfinished + Len(Taken(b))
         /\ cursor' = CursorThrough(b) /\ cursor' \in Nat /\ cursor' >= cursor
         /\ nextSeq' \in Nat \ {0}
         /\ nextSeq' = IF b = << >> THEN nextSeq ELSE b[Len(b)].seq + 1
         /\ done' \subseteq Nat \ {0}
         /\ done' = done \cup (Seqs(b) \ Seqs(Taken(b)))
<1>1. Taken(b) \in Seq(Line) /\ Range(Taken(b)) = Range(b) \cap {l \in Range(b) : Subscribed(l)}
  BY SelectedElements DEF Taken
<1>2. queue \o Taken(b) \in Seq(Line) /\ Len(queue \o Taken(b)) = Len(queue) + Len(Taken(b))
      /\ handled \o b \in Seq(Line)
  BY <1>1, ConcatProperties
<1>3. Len(Taken(b)) \in Nat
  BY <1>1
<1>4. CursorThrough(b) \in Nat /\ CursorThrough(b) >= cursor
  BY CursorThroughIs
<1>5. Seqs(b) \subseteq Nat \ {0} /\ \A i \in 1 .. Len(b) : b[i].seq \in Nat \ {0}
  BY LinesAreRecords
<1>6. nextSeq' = (IF b = << >> THEN nextSeq ELSE b[Len(b)].seq + 1) /\ nextSeq' \in Nat \ {0}
  <2>1. nextSeq' = IF b = << >> THEN nextSeq ELSE b[Len(b)].seq + 1
    BY DEF Handle
  <2>2. b # << >> => Len(b) \in 1 .. Len(b)
    OBVIOUS
  <2> QED BY <1>5, <2>1, <2>2
<1>7. /\ queue' = queue \o Taken(b) /\ unfinished' = unfinished + Len(Taken(b))
      /\ cursor' = CursorThrough(b) /\ handled' = handled \o b
      /\ done' = done \cup (Seqs(b) \ Seqs(Taken(b)))
  BY DEF Handle
<1> QED BY <1>1, <1>2, <1>3, <1>4, <1>5, <1>6, <1>7

\* What lies between two cuts p <= q of a list.
LEMMA SliceIs ==
  ASSUME NEW s \in Seq(Line), NEW p \in 0 .. Len(s), NEW q \in p .. Len(s)
  PROVE  /\ SubSeq(s, p + 1, q) \in Seq(Line) /\ Len(SubSeq(s, p + 1, q)) = q - p
         /\ \A i \in 1 .. q - p : SubSeq(s, p + 1, q)[i] = s[p + i]
<1>1. Len(s) \in Nat /\ p \in Nat /\ q \in Nat /\ p <= q /\ q <= Len(s)
  OBVIOUS
<1>2. PICK a \in Nat : a = p + 1
  BY <1>1
<1>3. \A i \in a .. q : s[i] \in Line
  BY <1>1, <1>2
<1>4. /\ SubSeq(s, a, q) \in Seq(Line)
      /\ Len(SubSeq(s, a, q)) = IF a <= q THEN q - a + 1 ELSE 0
      /\ \A i \in 1 .. q - a + 1 : SubSeq(s, a, q)[i] = s[a + i - 1]
  BY <1>1, <1>3, SubSeqProperties
<1>5. q - a + 1 = q - p /\ \A i \in 1 .. q - p : a + i - 1 = p + i
  BY <1>1, <1>2
<1>6. Len(SubSeq(s, a, q)) = q - p
  BY <1>1, <1>2, <1>4
<1> QED BY <1>2, <1>4, <1>5, <1>6

\* A prefix and the rest of a list of lines.
LEMMA PrefixIs ==
  ASSUME NEW b \in Seq(Line), NEW k \in 0 .. Len(b)
  PROVE  /\ Until(b, k) \in Seq(Line) /\ Len(Until(b, k)) = k
         /\ \A i \in 1 .. k : Until(b, k)[i] = b[i]
         /\ SubSeq(b, k + 1, Len(b)) \in Seq(Line)
         /\ Len(SubSeq(b, k + 1, Len(b))) = Len(b) - k
         /\ \A i \in 1 .. Len(b) - k : SubSeq(b, k + 1, Len(b))[i] = b[k + i]
<1>1. Len(b) \in Nat /\ k \in Nat /\ k <= Len(b)
  OBVIOUS
<1>2. (\A i \in 1 .. k : b[i] \in Line) /\ (\A i \in k + 1 .. Len(b) : b[i] \in Line)
  BY <1>1
<1>3. /\ SubSeq(b, 1, k) \in Seq(Line)
      /\ Len(SubSeq(b, 1, k)) = IF 1 <= k THEN k - 1 + 1 ELSE 0
      /\ \A i \in 1 .. k - 1 + 1 : SubSeq(b, 1, k)[i] = b[1 + i - 1]
  BY <1>1, <1>2, SubSeqProperties, 1 \in Int, k \in Int
<1>4. /\ SubSeq(b, k + 1, Len(b)) \in Seq(Line)
      /\ Len(SubSeq(b, k + 1, Len(b))) = IF k + 1 <= Len(b) THEN Len(b) - (k + 1) + 1 ELSE 0
      /\ \A i \in 1 .. Len(b) - (k + 1) + 1 : SubSeq(b, k + 1, Len(b))[i] = b[k + 1 + i - 1]
  BY <1>1, <1>2, SubSeqProperties, k + 1 \in Int, Len(b) \in Int
<1>5. Len(SubSeq(b, 1, k)) = k /\ \A i \in 1 .. k : SubSeq(b, 1, k)[i] = b[i]
  BY <1>1, <1>3
<1>6. Len(SubSeq(b, k + 1, Len(b))) = Len(b) - k
      /\ \A i \in 1 .. Len(b) - k : SubSeq(b, k + 1, Len(b))[i] = b[k + i]
  BY <1>1, <1>4
<1> QED BY <1>3, <1>4, <1>5, <1>6 DEF Until

\* Whatever becomes of a batch, a prefix of it is handled, the cursor is saved no
\* further than it stands, and the rest is kept for an observer or dropped.
LEMMA BatchShape ==
  ASSUME cursor \in Nat, disk \in Nat, errors \in Nat, stopped \in BOOLEAN, faults \in Nat,
         NEW b \in Seq(Line), Batch(b)
  PROVE  \E k \in 0 .. Len(b) :
           /\ k = 0 => b = << >>
           /\ Handle(Until(b, k))
           /\ UNCHANGED disk \/ (disk' \in Nat /\ cursor < disk' /\ disk' <= cursor')
           /\ errors' \in Nat /\ stopped' \in BOOLEAN /\ faults' \in Nat /\ faults <= faults'
           /\ \/ loop' = "observer" /\ ObserversYield /\ batch' = SubSeq(b, k + 1, Len(b))
              \/ loop' \in {"polling", "off"} /\ batch' = << >>
<1>1. \A k \in 0 .. Len(b) : /\ Until(b, k) \in Seq(Line) /\ Len(Until(b, k)) = k
                             /\ \A i \in 1 .. k : Until(b, k)[i] = b[i]
  BY PrefixIs
<1>2. \A k \in 0 .. Len(b) : CursorThrough(Until(b, k)) \in Nat
  BY <1>1, CursorThroughIs
<1>3. ASSUME NEW k \in 0 .. Len(b), Handle(Until(b, k)), SavedThrough(Until(b, k))
      PROVE  UNCHANGED disk \/ (disk' \in Nat /\ cursor < disk' /\ disk' <= cursor')
  BY <1>2, <1>3 DEF Handle, SavedThrough
<1>4. CASE BatchDone(b)
  <2>1. Until(b, Len(b)) = b /\ Len(b) \in 0 .. Len(b)
    BY SubSeqFull DEF Until
  <2>2. Len(b) = 0 => b = << >>
    OBVIOUS
  <2>3. Handle(Until(b, Len(b))) /\ SavedThrough(Until(b, Len(b)))
    BY <1>4, <2>1 DEF BatchDone
  <2>4. loop' = "polling" /\ batch' = << >> /\ errors' = 0 /\ UNCHANGED <<stopped, faults>>
    BY <1>4 DEF BatchDone
  <2> QED BY <1>3, <2>1, <2>2, <2>3, <2>4
<1>5. ASSUME NEW k \in DOMAIN b, BatchSuspended(b, k) \/ ObserverRaises(b, k) \/ CursorSaveFails(b, k)
      PROVE  /\ k \in 0 .. Len(b) /\ k # 0
             /\ Handle(Until(b, k))
             /\ UNCHANGED disk \/ (disk' \in Nat /\ cursor < disk' /\ disk' <= cursor')
             /\ errors' \in Nat /\ stopped' \in BOOLEAN /\ faults' \in Nat /\ faults <= faults'
             /\ \/ loop' = "observer" /\ ObserversYield /\ batch' = SubSeq(b, k + 1, Len(b))
                \/ loop' \in {"polling", "off"} /\ batch' = << >>
  <2>1. k \in 1 .. Len(b) /\ k - 1 \in 0 .. Len(b) /\ k \in 0 .. Len(b) /\ k # 0
    OBVIOUS
  <2>2. CASE BatchSuspended(b, k)
    <3>1. Handle(Until(b, k)) /\ SavedThrough(Until(b, k))
      BY <2>2 DEF BatchSuspended
    <3>2. loop' = "observer" /\ ObserversYield /\ batch' = SubSeq(b, k + 1, Len(b))
          /\ errors' = 0 /\ UNCHANGED <<stopped, faults>>
      BY <2>2 DEF BatchSuspended
    <3> QED BY <1>3, <2>1, <3>1, <3>2
  <2>3. ASSUME Failed(0), Fault
        PROVE  /\ errors' \in Nat /\ stopped' \in BOOLEAN /\ faults' \in Nat /\ faults <= faults'
               /\ loop' \in {"polling", "off"} /\ batch' = << >>
    <3>1. errors' = 0 + 1 /\ faults' = faults + 1 /\ batch' = << >>
      BY <2>3 DEF Failed, Fault
    <3>2. (loop' = "off" /\ stopped' = TRUE) \/ (loop' = "polling" /\ stopped' = stopped)
      BY <2>3 DEF Failed
    <3>3. stopped' \in BOOLEAN
      BY <3>2, Zenon
    <3>4. loop' \in {"polling", "off"}
      BY <3>2
    <3>5. errors' \in Nat /\ faults' \in Nat /\ faults <= faults'
      BY <3>1
    <3> QED BY <3>1, <3>3, <3>4, <3>5
  <2>4. CASE ObserverRaises(b, k)
    <3>1. Handle(Until(b, k)) /\ SavedThrough(Until(b, k)) /\ Failed(0) /\ Fault
      BY <2>4 DEF ObserverRaises
    <3> QED BY <1>3, <2>1, <2>3, <3>1
  <2>5. CASE CursorSaveFails(b, k)
    <3>1. Handle(Until(b, k)) /\ SavedThrough(Until(b, k - 1)) /\ Failed(0) /\ Fault
      BY <2>5 DEF CursorSaveFails
    <3>2. CursorThrough(Until(b, k - 1)) \in Nat /\ CursorThrough(Until(b, k)) \in Nat
      BY <1>2, <2>1
    <3>3. CursorThrough(Until(b, k - 1)) < b[k].seq
      BY <2>5 DEF CursorSaveFails
    <3>4. b[k].seq <= CursorThrough(Until(b, k))
      <4>1. Until(b, k)[k] = b[k] /\ ~Subscribed(b[k]) /\ k \in 1 .. Len(Until(b, k))
        BY <1>1, <2>1, <2>5 DEF CursorSaveFails
      <4> QED BY <1>1, <2>1, <4>1, CursorThroughIs
    <3>5. b[k].seq \in Nat
      BY <2>1, LinesAreRecords
    <3>6. cursor' = CursorThrough(Until(b, k))
      BY <3>1 DEF Handle
    <3>7. UNCHANGED disk \/ (disk' \in Nat /\ cursor < disk' /\ disk' <= cursor')
      BY <3>1, <3>2, <3>3, <3>4, <3>5, <3>6 DEF SavedThrough
    <3> QED BY <2>1, <2>3, <3>1, <3>7
  <2> QED BY <1>5, <2>2, <2>4, <2>5
<1> QED BY <1>4, <1>5 DEF Batch

-----------------------------------------------------------------------------
(* The types and the join counter *)

\* TypeOK in three parts: the lists, the numbers and the flags.
Lists == journal \in Seq(Line) /\ queue \in Seq(Line) /\ batch \in Seq(Line) /\ handled \in Seq(Line)

Numbers ==
    /\ disk \in Nat /\ cursor \in Nat /\ nextSeq \in Nat \ {0} /\ base \in Nat
    /\ pending \in Nat /\ held \in Nat /\ unfinished \in Nat /\ leaked \in Nat /\ errors \in Nat
    /\ done \subseteq Nat \ {0}
    /\ lives \in Nat /\ controls \in Nat /\ faults \in Nat

Flags ==
    /\ symbols \subseteq Symbols
    /\ loop \in {"off", "callbacks", "polling", "observer"}
    /\ invalidated \in BOOLEAN /\ stopped \in BOOLEAN /\ up \in BOOLEAN

\* The join counter is exact, and a tick that is pending is in the consumer's hands,
\* unless the consumer is done with it and its mark could not save the cursor.
Slots ==
    /\ JoinCountExact /\ MarkNeverRaises
    /\ pending > 0 => held = pending \/ pending \in done

BufferInv == Lists /\ Numbers /\ Flags /\ Slots

\* The three parts are the type invariant.
LEMMA TypesAre == TypeOK <=> Lists /\ Numbers /\ Flags
  BY DEF TypeOK, Lists, Numbers, Flags

\* A stream object begins in the invariant, whatever its cursor.
LEMMA BufferStarts == Init => BufferInv
<1> SUFFICES ASSUME Init PROVE BufferInv
  OBVIOUS
<1>1. Lists
  BY DEF Init, Lists
<1>2. Numbers
  BY DEF Init, Numbers
<1>3. Flags
  BY StreamAssumption DEF Init, Flags
<1>4. Slots
  BY DEF Init, Slots, JoinCountExact, MarkNeverRaises
<1> QED BY <1>1, <1>2, <1>3, <1>4 DEF BufferInv

\* The process starts and ends.
LEMMA BufferLives ==
  ASSUME BufferInv, Crash \/ Open
  PROVE  BufferInv'
<1> USE DEF BufferInv
<1>1. PICK c \in Nat : Fresh(c)
  BY DEF Crash, Open, Numbers
<1>2. UNCHANGED <<journal, disk, done>> /\ up' \in BOOLEAN
  BY DEF Crash, Open
<1>3. lives' \in Nat /\ controls' \in Nat /\ faults' \in Nat
  BY DEF Crash, Open, Numbers, boundVars
<1>4. Lists'
  BY <1>1, <1>2 DEF Fresh, Lists
<1>5. Numbers'
  <2>1. cursor' = c /\ nextSeq' = c + 1 /\ base' = c /\ unfinished' = 0 /\ leaked' = 0
        /\ pending' = 0 /\ held' = 0 /\ errors' = 0
    BY <1>1 DEF Fresh
  <2> QED BY <1>2, <1>3, <2>1 DEF Numbers
<1>6. Flags'
  BY <1>1, <1>2, StreamAssumption DEF Fresh, Flags
<1>7. Slots'
  BY <1>1 DEF Fresh, Slots, JoinCountExact, MarkNeverRaises
<1> QED BY <1>4, <1>5, <1>6, <1>7

\* The loop and its callers, apart from what they do with lines.
LEMMA BufferControls ==
  ASSUME BufferInv,
         \/ \E s \in Symbols : Append1(s) \/ Resubscribe(s)
         \/ StartStreaming \/ Stop \/ Cancelled
         \/ CallbacksReturn \/ PollFails \/ ObserverFails \/ LoopEnds
  PROVE  BufferInv'
<1> USE DEF BufferInv
<1>1. UNCHANGED <<disk, cursor, nextSeq, queue, unfinished, leaked, pending, invalidated, held,
                  up, base, handled, done>>
  BY DEF Append1, Resubscribe, StartStreaming, Stop, Cancelled, CallbacksReturn, PollFails,
         ObserverFails, LoopEnds, bufferVars, consumerVars
<1>2. lives' \in Nat /\ controls' \in Nat /\ faults' \in Nat
  <2>1. lives' = lives
    BY DEF Append1, Resubscribe, StartStreaming, Stop, Cancelled, CallbacksReturn, PollFails,
           ObserverFails, LoopEnds, boundVars
  <2>2. controls' = controls \/ controls' = controls + 1
    BY DEF Append1, Resubscribe, StartStreaming, Stop, Cancelled, CallbacksReturn, PollFails,
           ObserverFails, LoopEnds, boundVars, Control
  <2>3. faults' = faults \/ faults' = faults + 1
    BY DEF Append1, Resubscribe, StartStreaming, Stop, Cancelled, CallbacksReturn, PollFails,
           ObserverFails, LoopEnds, boundVars, Fault
  <2> QED BY <2>1, <2>2, <2>3 DEF Numbers
<1>3. errors' \in Nat
  <2>1. errors' = errors \/ errors' = 0 \/ errors' = errors + 1 \/ errors' = 0 + 1
    BY DEF Append1, Resubscribe, StartStreaming, Stop, Cancelled, CallbacksReturn, PollFails,
           ObserverFails, LoopEnds, loopVars, Failed
  <2> QED BY <2>1 DEF Numbers
<1>4. batch' = batch \/ batch' = << >>
  BY DEF Append1, Resubscribe, StartStreaming, Stop, Cancelled, CallbacksReturn, PollFails,
         ObserverFails, LoopEnds, loopVars, Failed
<1>5. journal' \in Seq(Line)
  <2>1. ASSUME NEW s \in Symbols, Append1(s) PROVE journal' \in Seq(Line)
    <3>1. PICK gap \in 0 .. 1 : journal' = Append(journal, [seq |-> Tip + gap + 1, symbol |-> s])
      BY <2>1 DEF Append1
    <3>2. Tip \in Nat
      BY TipIs DEF Lists
    <3>3. [seq |-> Tip + gap + 1, symbol |-> s] \in Line
      BY <3>2 DEF Line
    <3> QED BY <3>1, <3>3, AppendProperties DEF Lists
  <2>2. CASE UNCHANGED journal
    BY <2>2 DEF Lists
  <2> QED BY <2>1, <2>2 DEF Resubscribe, StartStreaming, Stop, Cancelled, CallbacksReturn,
                            PollFails, ObserverFails, LoopEnds
<1>6. /\ loop' \in {"off", "callbacks", "polling", "observer"}
      /\ symbols' \subseteq Symbols
  BY DEF Append1, Resubscribe, StartStreaming, Stop, Cancelled, CallbacksReturn, PollFails,
         ObserverFails, LoopEnds, loopVars, Failed, Flags
<1>7. stopped' = stopped \/ stopped' = TRUE \/ stopped' = FALSE
  BY DEF Append1, Resubscribe, StartStreaming, Stop, Cancelled, CallbacksReturn, PollFails,
         ObserverFails, LoopEnds, loopVars, Failed
<1>8. stopped' \in BOOLEAN
  BY <1>7, Zenon DEF Flags
<1>9. Lists'
  <2>1. << >> \in Seq(Line)
    OBVIOUS
  <2> QED BY <1>1, <1>4, <1>5, <2>1 DEF Lists
<1>10. Numbers'
  BY <1>1, <1>2, <1>3 DEF Numbers
<1>11. Flags'
  BY <1>1, <1>6, <1>8 DEF Flags
<1>12. Slots'
  BY <1>1 DEF Slots, JoinCountExact, MarkNeverRaises
<1> QED BY <1>9, <1>10, <1>11, <1>12

\* What a poll returns is a list of lines.
LEMMA UnreadIs == \A n : journal \in Seq(Line) => Unread(n) \in Seq(Line)
  BY SelectedElements DEF Unread

\* A batch is handled, or as much of it as the observers and the disk allow.
LEMMA BufferBatch ==
  ASSUME BufferInv, NEW b \in Seq(Line), Batch(b),
         UNCHANGED <<journal, symbols, leaked, consumerVars, up, base, lives, controls>>
  PROVE  BufferInv'
<1> USE DEF BufferInv
<1>1. PICK k \in 0 .. Len(b) :
           /\ Handle(Until(b, k))
           /\ UNCHANGED disk \/ (disk' \in Nat /\ cursor < disk' /\ disk' <= cursor')
           /\ errors' \in Nat /\ stopped' \in BOOLEAN /\ faults' \in Nat
           /\ \/ loop' = "observer" /\ ObserversYield /\ batch' = SubSeq(b, k + 1, Len(b))
              \/ loop' \in {"polling", "off"} /\ batch' = << >>
  BY BatchShape DEF Numbers, Flags
<1>2. Until(b, k) \in Seq(Line) /\ batch' \in Seq(Line)
  <2>1. << >> \in Seq(Line) /\ SubSeq(b, k + 1, Len(b)) \in Seq(Line) /\ Until(b, k) \in Seq(Line)
    BY PrefixIs
  <2> QED BY <1>1, <2>1
<1>3. /\ queue' \in Seq(Line) /\ handled' \in Seq(Line)
      /\ cursor' \in Nat /\ nextSeq' \in Nat \ {0} /\ done' \subseteq Nat \ {0}
      /\ Len(Taken(Until(b, k))) \in Nat
      /\ Len(queue') = Len(queue) + Len(Taken(Until(b, k)))
      /\ unfinished' = unfinished + Len(Taken(Until(b, k)))
  <2>1. unfinished \in Int /\ queue \in Seq(Line) /\ handled \in Seq(Line) /\ cursor \in Nat
        /\ nextSeq \in Nat \ {0} /\ done \subseteq Nat \ {0}
    BY DEF Lists, Numbers
  <2> DEFINE u == Until(b, k)
  <2>2. u \in Seq(Line) /\ Handle(u)
    BY <1>1, <1>2
  <2> HIDE DEF u
  <2>3. /\ queue' \in Seq(Line) /\ handled' \in Seq(Line)
        /\ cursor' \in Nat /\ nextSeq' \in Nat \ {0} /\ done' \subseteq Nat \ {0}
        /\ Len(Taken(u)) \in Nat
        /\ Len(queue') = Len(queue) + Len(Taken(u))
        /\ unfinished' = unfinished + Len(Taken(u))
    BY <2>1, <2>2, HandleIs
  <2> QED BY <2>3 DEF u
<1>4. UNCHANGED <<pending, invalidated, held>>
  BY DEF consumerVars
<1>5. disk' \in Nat /\ unfinished' \in Nat /\ loop' \in {"off", "callbacks", "polling", "observer"}
  <2>1. disk \in Nat /\ unfinished \in Nat
    BY DEF Numbers
  <2>2. disk' \in Nat
    BY <1>1, <2>1
  <2>3. unfinished' \in Nat
    BY <1>3, <2>1
  <2> QED BY <1>1, <2>2, <2>3
<1>6. Lists'
  BY <1>2, <1>3 DEF Lists
<1>7. Numbers'
  BY <1>1, <1>3, <1>4, <1>5 DEF Numbers
<1>8. Flags'
  BY <1>1, <1>4, <1>5 DEF Flags
<1>9. Slots'
  <2>1. Len(queue) \in Nat
    BY DEF Lists
  <2>0. done \subseteq done'
    BY <1>1 DEF Handle
  <2>2. JoinCountExact'
    <3>1. /\ unfinished = Len(queue) + (IF pending > 0 THEN 1 ELSE 0) + leaked
          /\ pending' = pending /\ leaked' = leaked /\ leaked \in Nat
      BY <1>4 DEF Slots, JoinCountExact, Numbers
    <3>2. PICK a \in Nat : Len(queue') = Len(queue) + a /\ unfinished' = unfinished + a
      BY <1>3
    <3>3. CASE pending > 0
      BY <2>1, <3>1, <3>2, <3>3 DEF JoinCountExact
    <3>4. CASE ~(pending > 0)
      BY <2>1, <3>1, <3>2, <3>4 DEF JoinCountExact
    <3> QED BY <3>3, <3>4
  <2>3. MarkNeverRaises' /\ (pending' > 0 => held' = pending' \/ pending' \in done')
    BY <1>4, <2>0 DEF Slots, MarkNeverRaises
  <2> QED BY <2>2, <2>3 DEF Slots
<1> QED BY <1>6, <1>7, <1>8, <1>9

\* The consumer takes a tick and marks it.
LEMMA BufferConsumes ==
  ASSUME BufferInv, Consume
  PROVE  BufferInv'
<1> USE DEF BufferInv
<1>1. CASE WaitForNextTick
  <2>1. /\ queue # << >> /\ queue' = Tail(queue)
        /\ held' = Head(queue).seq /\ pending' = Head(queue).seq /\ invalidated' = FALSE
        /\ leaked' = leaked + (IF pending > 0 THEN 1 ELSE 0) /\ done' = done \cup ({pending} \ {0})
        /\ UNCHANGED <<journal, disk, cursor, nextSeq, symbols, unfinished, loop, batch, errors,
                       stopped, up, base, handled, lives, controls, faults>>
    BY <1>1 DEF WaitForNextTick, loopVars, boundVars
  <2>2. Head(queue) \in Line /\ Tail(queue) \in Seq(Line) /\ Len(Tail(queue)) = Len(queue) - 1
    BY <2>1, HeadTailProperties DEF Lists
  <2>3. Head(queue).seq \in Nat \ {0}
    BY <2>2 DEF Line
  <2>4. Lists'
    BY <2>1, <2>2 DEF Lists
  <2>5. Numbers'
    BY <2>1, <2>3 DEF Numbers
  <2>6. Flags'
    BY <2>1 DEF Flags
  <2>7. Slots'
    <3>1. /\ unfinished = Len(queue) + (IF pending > 0 THEN 1 ELSE 0) + leaked
          /\ Len(queue) \in Nat /\ pending \in Nat /\ leaked \in Nat
      BY DEF Slots, JoinCountExact, Lists, Numbers
    <3>2. JoinCountExact'
      <4>1. pending' > 0 /\ unfinished' = Len(queue') + 1 + leaked'
        BY <2>1, <2>2, <2>3, <3>1
      <4> QED BY <4>1 DEF JoinCountExact
    <3> QED BY <2>1, <2>3, <3>2 DEF Slots, MarkNeverRaises
  <2> QED BY <2>4, <2>5, <2>6, <2>7
<1>2. CASE MarkProcessed
  <2>1. /\ pending > 0 /\ held' = 0 /\ pending' = 0 /\ invalidated' = FALSE
        /\ unfinished' = unfinished - 1 /\ done' = done \cup {pending}
        /\ cursor' = pending \/ cursor' = cursor
        /\ disk' = pending \/ disk' = disk
        /\ UNCHANGED <<journal, nextSeq, symbols, queue, leaked, loop, batch, errors, stopped, up, base,
                       handled, lives, controls, faults>>
    BY <1>2 DEF MarkProcessed, loopVars, boundVars
  <2>2. unfinished = Len(queue) + 1 + leaked /\ Len(queue) \in Nat /\ leaked \in Nat
    BY <2>1 DEF Slots, JoinCountExact, Lists, Numbers
  <2>3. Lists'
    BY <2>1 DEF Lists
  <2>4. Numbers'
    BY <2>1, <2>2 DEF Numbers
  <2>5. Flags'
    BY <2>1 DEF Flags
  <2>6. Slots'
    BY <2>1, <2>2 DEF Slots, JoinCountExact, MarkNeverRaises
  <2> QED BY <2>3, <2>4, <2>5, <2>6
<1>3. CASE MarkInvalidated
  <2>1. /\ pending = 0 /\ held' = 0 /\ invalidated' = FALSE
        /\ UNCHANGED <<journal, disk, cursor, nextSeq, symbols, queue, unfinished, leaked, pending,
                       loop, batch, errors, stopped, up, base, handled, done, lives, controls, faults>>
    BY <1>3 DEF MarkInvalidated, bufferVars, loopVars, boundVars
  <2>2. Lists'
    BY <2>1 DEF Lists
  <2>3. Numbers'
    BY <2>1 DEF Numbers
  <2>4. Flags'
    BY <2>1 DEF Flags
  <2>5. Slots'
    BY <2>1 DEF Slots, JoinCountExact, MarkNeverRaises
  <2> QED BY <2>2, <2>3, <2>4, <2>5
<1>4. CASE MarkSaveFails
  <2>1. /\ pending > cursor /\ cursor' = pending /\ faults' = faults + 1 /\ held' = 0
        /\ done' = done \cup {pending}
        /\ UNCHANGED <<journal, disk, nextSeq, symbols, queue, unfinished, leaked, pending,
                       invalidated, loop, batch, errors, stopped, up, base, handled, lives, controls>>
    BY <1>4 DEF MarkSaveFails, Fault, bufferVars, loopVars
  <2>2. Lists'
    BY <2>1 DEF Lists
  <2>3. Numbers'
    BY <2>1 DEF Numbers
  <2>4. Flags'
    BY <2>1 DEF Flags
  <2>5. Slots'
    BY <2>1 DEF Slots, JoinCountExact, MarkNeverRaises
  <2> QED BY <2>2, <2>3, <2>4, <2>5
<1> QED BY <1>1, <1>2, <1>3, <1>4 DEF Consume

\* set_cursor, in the middle of a consume or not.
LEMMA BufferSeeks ==
  ASSUME BufferInv, NEW c \in Cursors, SetCursor(c)
  PROVE  BufferInv'
<1> USE DEF BufferInv
<1>1. /\ cursor' = c /\ nextSeq' = c + 1 /\ pending' = 0 /\ base' = c
      /\ disk' = c \/ disk' = disk
      /\ invalidated' = (invalidated \/ pending > 0)
      /\ queue' = << >> /\ handled' = << >> /\ done' = done \cup 1 .. c
      /\ unfinished' = unfinished - Len(queue) - (IF pending > 0 THEN 1 ELSE 0)
      /\ UNCHANGED <<journal, symbols, leaked, held, loop, batch, errors, stopped, up, lives>>
      /\ controls' = controls + 1 /\ (faults' = faults \/ faults' = faults + 1)
  BY DEF SetCursor, SavesSought, loopVars, Control, Fault
<1>2. c \in Nat
  BY StreamAssumption
<1>3. unfinished' = leaked /\ leaked \in Nat
  <2>1. /\ Len(queue) \in Nat /\ leaked \in Nat
        /\ unfinished = Len(queue) + (IF pending > 0 THEN 1 ELSE 0) + leaked
    BY DEF Slots, JoinCountExact, Lists, Numbers
  <2> QED BY <1>1, <2>1
<1>4. Lists'
  BY <1>1 DEF Lists
<1>5. Numbers'
  BY <1>1, <1>2, <1>3 DEF Numbers
<1>6. Flags'
  <2>1. invalidated' \in BOOLEAN
    BY <1>1
  <2> QED BY <1>1, <2>1 DEF Flags
<1>7. Slots'
  <2>1. JoinCountExact' /\ ~(pending' > 0)
    BY <1>1, <1>3 DEF JoinCountExact
  <2>2. MarkNeverRaises'
    BY <1>1 DEF Slots, MarkNeverRaises
  <2> QED BY <2>1, <2>2 DEF Slots
<1> QED BY <1>4, <1>5, <1>6, <1>7

\* Every step keeps the types and the join counter.
LEMMA BufferKeeps == BufferInv /\ [Next]_vars => BufferInv'
<1> SUFFICES ASSUME BufferInv, [Next]_vars PROVE BufferInv'
  OBVIOUS
<1>1. CASE UNCHANGED vars
  <2> USE <1>1 DEF BufferInv, vars, bufferVars, consumerVars, loopVars, boundVars
  <2>1. Lists'
    BY DEF Lists
  <2>2. Numbers'
    BY DEF Numbers
  <2>3. Flags'
    BY DEF Flags
  <2>4. Slots'
    BY DEF Slots, JoinCountExact, MarkNeverRaises
  <2> QED BY <2>1, <2>2, <2>3, <2>4
<1>2. CASE Poll
  <2>1. Unread(nextSeq) \in Seq(Line)
    BY UnreadIs DEF BufferInv, Lists
  <2> QED BY <1>2, <2>1, BufferBatch DEF Poll, PollReturns
<1>3. CASE ObserverReturns
  BY <1>3, BufferBatch DEF ObserverReturns, BufferInv, Lists
<1>4. CASE PollEmpty
  BY <1>1, <1>4 DEF PollEmpty
<1>5. CASE Crash \/ Open
  BY <1>5, BufferLives
<1>6. CASE \/ \E s \in Symbols : Append1(s) \/ Resubscribe(s)
           \/ StartStreaming \/ Stop \/ Cancelled
           \/ CallbacksReturn \/ PollFails \/ ObserverFails \/ LoopEnds
  BY <1>6, BufferControls
<1>7. CASE Consume
  BY <1>7, BufferConsumes
<1>8. CASE \E c \in Cursors : SetCursor(c)
  BY <1>8, BufferSeeks
<1> QED BY <1>1, <1>2, <1>3, <1>4, <1>5, <1>6, <1>7, <1>8 DEF Next, TailFollow

\* The first inductive invariant of the stream.
THEOREM BufferInvariant == Spec => []BufferInv
  BY BufferStarts, BufferKeeps, PTL DEF Spec

\* Type correctness.
THEOREM TypeCorrect == Spec => []TypeOK
<1>1. BufferInv => TypeOK
  BY TypesAre DEF BufferInv
<1> QED BY <1>1, BufferInvariant, PTL

\* task_done never raises and join never returns early, through drains, rewinds and
\* failed saves.  What a join would wait for beside the buffer and the pending tick are
\* the ticks that a take replaced while they were pending, and no others.
THEOREM JoinCounted == Spec => []JoinCountExact
<1>1. BufferInv => JoinCountExact
  BY DEF BufferInv, Slots
<1> QED BY <1>1, BufferInvariant, PTL

\* mark_tick_as_processed never raises, whenever set_cursor came in between.
THEOREM MarkIsSafe == Spec => []MarkNeverRaises
<1>1. BufferInv => MarkNeverRaises
  BY DEF BufferInv, Slots
<1> QED BY <1>1, BufferInvariant, PTL

-----------------------------------------------------------------------------
(* Positions in the journal *)

\* The lines are in the order of their seqs.
Sorted(s) == \A i, j \in 1 .. Len(s) : i < j => s[i].seq < s[j].seq

\* The lines below n are the first p.
CutAt(s, n, p) ==
    /\ p \in 0 .. Len(s)
    /\ \A i \in 1 .. Len(s) : s[i].seq < n <=> i <= p

\* The lines after lo and before hi.
Between(s, lo, hi) == Selected(s, {l \in Range(s) : lo < l.seq /\ l.seq < hi})

\* The lines are counted and numbered.
LEMMA LinesOf ==
  ASSUME NEW s \in Seq(Line)
  PROVE  /\ Len(s) \in Nat
         /\ \A i \in 1 .. Len(s) : s[i] \in Range(s) /\ s[i].seq \in Nat \ {0}
  BY LinesAreRecords

\* Every number cuts the journal in two.
LEMMA CutExists ==
  ASSUME NEW s \in Seq(Line), Sorted(s), NEW n \in Nat
  PROVE  \E p : CutAt(s, n, p)
<1>0. Len(s) \in Nat /\ \A i \in 1 .. Len(s) : s[i].seq \in Nat
  BY LinesOf
<1> DEFINE P(m) == \E p \in 0 .. m : \A i \in 1 .. m : s[i].seq < n <=> i <= p
           S == {m \in Nat : m <= Len(s) => P(m)}
<1>1. 0 \in S
  <2>1. 0 \in 0 .. 0 /\ 1 .. 0 = {}
    OBVIOUS
  <2>2. P(0)
    BY <2>1, Zenon
  <2> QED BY <2>2
<1>2. ASSUME NEW m \in S PROVE m + 1 \in S
  <2> SUFFICES ASSUME m + 1 <= Len(s) PROVE P(m + 1)
    OBVIOUS
  <2>1. m \in Nat /\ m <= Len(s) /\ m + 1 \in 1 .. Len(s)
    BY <1>0
  <2>2. PICK p \in 0 .. m : \A i \in 1 .. m : s[i].seq < n <=> i <= p
    BY <2>1
  <2>3. CASE s[m + 1].seq < n
    <3>1. \A i \in 1 .. m : s[i].seq < n
      <4> SUFFICES ASSUME NEW i \in 1 .. m PROVE s[i].seq < n
        OBVIOUS
      <4>1. i \in 1 .. Len(s) /\ i < m + 1
        BY <1>0, <2>1
      <4>2. s[i].seq < s[m + 1].seq
        BY <2>1, <4>1 DEF Sorted
      <4> QED BY <1>0, <2>1, <2>3, <4>1, <4>2
    <3>2. \A i \in 1 .. m + 1 : s[i].seq < n <=> i <= m + 1
      BY <2>1, <2>3, <3>1
    <3> QED BY <2>1, <3>2, m + 1 \in 0 .. m + 1
  <2>4. CASE ~(s[m + 1].seq < n)
    <3>1. \A i \in 1 .. m + 1 : s[i].seq < n <=> i <= p
      BY <2>1, <2>2, <2>4
    <3> QED BY <2>1, <3>1, p \in 0 .. m + 1
  <2> QED BY <2>3, <2>4
<1>3. S \subseteq Nat
  OBVIOUS
<1> HIDE DEF S
<1>4. S = Nat
  BY <1>1, <1>2, <1>3, SetInduction
<1>5. P(Len(s))
  <2>1. Len(s) \in S /\ Len(s) <= Len(s)
    BY <1>0, <1>4
  <2> HIDE DEF P
  <2> QED BY <2>1, Zenon DEF S
<1> QED BY <1>5 DEF CutAt

\* A poll from n on returns what follows the cut at n.
LEMMA UnreadFollows ==
  ASSUME journal \in Seq(Line), NEW n \in Nat, NEW p, CutAt(journal, n, p)
  PROVE  /\ Unread(n) = SubSeq(journal, p + 1, Len(journal))
         /\ Len(Unread(n)) = Len(journal) - p
         /\ \A i \in 1 .. Len(Unread(n)) : Unread(n)[i] = journal[p + i]
<1> DEFINE A == {l \in Range(journal) : l.seq >= n}
<1>1. Len(journal) \in Nat /\ \A i \in 1 .. Len(journal) : journal[i] \in Range(journal)
                                                         /\ journal[i].seq \in Nat
  BY LinesOf
<1>2. p \in 0 .. Len(journal) /\ Len(journal) \in p .. Len(journal)
  BY <1>1 DEF CutAt
<1>3. \A i \in 1 .. Len(journal) : journal[i] \in A <=> p < i /\ i <= Len(journal)
  BY <1>1, <1>2 DEF CutAt
<1>4. Selected(journal, A) = SubSeq(journal, p + 1, Len(journal))
  <2> HIDE DEF A
  <2> QED BY <1>2, <1>3, SelectedInterval
<1>5. /\ Len(SubSeq(journal, p + 1, Len(journal))) = Len(journal) - p
      /\ \A i \in 1 .. Len(journal) - p : SubSeq(journal, p + 1, Len(journal))[i] = journal[p + i]
  BY <1>2, PrefixIs
<1> QED BY <1>4, <1>5 DEF Unread

\* What lies between two cuts.
LEMMA BetweenIs ==
  ASSUME NEW s \in Seq(Line), NEW lo \in Nat, NEW hi \in Nat, lo < hi,
         NEW p, CutAt(s, lo + 1, p), NEW q, CutAt(s, hi, q)
  PROVE  p <= q /\ Between(s, lo, hi) = SubSeq(s, p + 1, q)
<1> DEFINE A == {l \in Range(s) : lo < l.seq /\ l.seq < hi}
<1>1. Len(s) \in Nat /\ \A i \in 1 .. Len(s) : s[i] \in Range(s)
                                                         /\ s[i].seq \in Nat
  BY LinesOf
<1>2. p \in 0 .. Len(s) /\ q \in 0 .. Len(s)
  BY DEF CutAt
<1>3. p <= q
  <2> SUFFICES ASSUME ~(p <= q) PROVE FALSE
    OBVIOUS
  <2>1. p \in 1 .. Len(s)
    BY <1>1, <1>2
  <2>2. s[p].seq < lo + 1 /\ ~(s[p].seq < hi)
    BY <1>1, <1>2, <2>1 DEF CutAt
  <2> QED BY <1>1, <2>1, <2>2
<1>4. \A i \in 1 .. Len(s) : s[i] \in A <=> p < i /\ i <= q
  <2> SUFFICES ASSUME NEW i \in 1 .. Len(s) PROVE s[i] \in A <=> p < i /\ i <= q
    OBVIOUS
  <2>1. (s[i].seq < lo + 1 <=> i <= p) /\ (s[i].seq < hi <=> i <= q)
    BY DEF CutAt
  <2>2. lo < s[i].seq <=> ~(s[i].seq < lo + 1)
    BY <1>1
  <2>3. p < i <=> ~(i <= p)
    BY <1>1, <1>2
  <2> QED BY <1>1, <2>1, <2>2, <2>3
<1>5. q \in p .. Len(s)
  BY <1>1, <1>2, <1>3
<1>6. Selected(s, A) = SubSeq(s, p + 1, q)
  <2> HIDE DEF A
  <2> QED BY <1>2, <1>4, <1>5, SelectedInterval
<1> QED BY <1>3, <1>6 DEF Between

\* Nothing lies between a number and the next one.
LEMMA BetweenNothing ==
  ASSUME NEW s \in Seq(Line), NEW lo \in Nat
  PROVE  Between(s, lo, lo + 1) = << >>
<1> DEFINE A == {l \in Range(s) : lo < l.seq /\ l.seq < lo + 1}
<1>1. Len(s) \in Nat /\ \A i \in 1 .. Len(s) : s[i].seq \in Nat
  BY LinesOf
<1>2. \A i \in 1 .. Len(s) : s[i] \in A <=> 0 < i /\ i <= 0
  BY <1>1
<1>3. 0 \in 0 .. Len(s) /\ 0 \in 0 .. 0
  BY <1>1
<1>4. Selected(s, A) = SubSeq(s, 0 + 1, 0)
  <2> HIDE DEF A
  <2> QED BY <1>2, <1>3, SelectedInterval
<1>5. SubSeq(s, 0 + 1, 0) = << >>
  BY SubSeqEmpty, 0 + 1 \in Int, 0 \in Int, 0 < 0 + 1
<1> QED BY <1>4, <1>5 DEF Between

\* After each line the journal is cut where the line stands.
LEMMA CutAfter ==
  ASSUME NEW s \in Seq(Line), Sorted(s), NEW q \in 1 .. Len(s)
  PROVE  CutAt(s, s[q].seq + 1, q)
<1>1. Len(s) \in Nat /\ \A i \in 1 .. Len(s) : s[i].seq \in Nat
  BY LinesOf
<1>2. \A i \in 1 .. Len(s) : s[i].seq < s[q].seq + 1 <=> i <= q
  <2> SUFFICES ASSUME NEW i \in 1 .. Len(s) PROVE s[i].seq < s[q].seq + 1 <=> i <= q
    OBVIOUS
  <2>1. CASE i < q
    <3>1. s[i].seq < s[q].seq
      BY <2>1 DEF Sorted
    <3> QED BY <1>1, <2>1, <3>1
  <2>2. CASE i = q
    BY <1>1, <2>2
  <2>3. CASE q < i
    <3>1. s[q].seq < s[i].seq
      BY <2>3 DEF Sorted
    <3> QED BY <1>1, <2>3, <3>1
  <2> QED BY <1>1, <2>1, <2>2, <2>3
<1> QED BY <1>1, <1>2 DEF CutAt

\* A new line at the end leaves the cuts below it, and what lies between them.
LEMMA AppendedCut ==
  ASSUME NEW s \in Seq(Line), NEW x \in Line, NEW n \in Nat, n <= x.seq, NEW p, CutAt(s, n, p)
  PROVE  CutAt(Append(s, x), n, p)
<1> DEFINE a == Append(s, x)
<1>1. /\ Len(s) \in Nat /\ p \in 0 .. Len(s) /\ x.seq \in Nat
      /\ Len(a) = Len(s) + 1 /\ a[Len(s) + 1] = x /\ \A i \in 1 .. Len(s) : a[i] = s[i]
  BY AppendProperties, LinesOf DEF CutAt, Line
<1> HIDE DEF a
<1>2. \A i \in 1 .. Len(a) : a[i].seq < n <=> i <= p
  <2> SUFFICES ASSUME NEW i \in 1 .. Len(a) PROVE a[i].seq < n <=> i <= p
    OBVIOUS
  <2>1. CASE i \in 1 .. Len(s)
    BY <1>1, <2>1 DEF CutAt
  <2>2. CASE i = Len(s) + 1
    BY <1>1, <2>2
  <2> QED BY <1>1, <2>1, <2>2
<1>3. CutAt(a, n, p)
  BY <1>1, <1>2 DEF CutAt
<1> QED BY <1>3 DEF a

\* A new line with a greater seq keeps the journal in order.
LEMMA AppendedSorted ==
  ASSUME NEW s \in Seq(Line), Sorted(s), NEW x \in Line, \A i \in 1 .. Len(s) : s[i].seq < x.seq
  PROVE  Sorted(Append(s, x))
<1> DEFINE a == Append(s, x)
<1>1. /\ Len(s) \in Nat
      /\ Len(a) = Len(s) + 1 /\ a[Len(s) + 1] = x /\ \A i \in 1 .. Len(s) : a[i] = s[i]
  BY AppendProperties
<1> HIDE DEF a
<1>2. Sorted(a)
  <2> SUFFICES ASSUME NEW i \in 1 .. Len(a), NEW j \in 1 .. Len(a), i < j
               PROVE  a[i].seq < a[j].seq
    BY DEF Sorted
  <2>1. CASE j \in 1 .. Len(s)
    <3>1. i \in 1 .. Len(s)
      BY <1>1, <2>1
    <3> QED BY <1>1, <2>1, <3>1 DEF Sorted
  <2>2. CASE j = Len(s) + 1
    <3>1. i \in 1 .. Len(s)
      BY <1>1, <2>2
    <3> QED BY <1>1, <2>2, <3>1
  <2> QED BY <1>1, <2>1, <2>2
<1> QED BY <1>2 DEF a

\* What lies between two numbers stays when a line is appended beyond them.
LEMMA AppendedBetween ==
  ASSUME NEW s \in Seq(Line), Sorted(s), NEW x \in Line, \A i \in 1 .. Len(s) : s[i].seq < x.seq,
         NEW lo \in Nat, NEW hi \in Nat, lo < hi, hi <= x.seq \/ hi = lo + 1
  PROVE  Between(Append(s, x), lo, hi) = Between(s, lo, hi)
<1> DEFINE a == Append(s, x)
<1>1. /\ a \in Seq(Line) /\ Len(s) \in Nat
      /\ Len(a) = Len(s) + 1 /\ a[Len(s) + 1] = x /\ \A i \in 1 .. Len(s) : a[i] = s[i]
  BY AppendProperties
<1>2. CASE hi = lo + 1
  BY <1>1, <1>2, BetweenNothing
<1>3. CASE hi <= x.seq
  <2>1. x.seq \in Nat
    BY DEF Line
  <2>2. PICK p : CutAt(s, lo + 1, p)
    BY CutExists, lo + 1 \in Nat
  <2>3. PICK q : CutAt(s, hi, q)
    BY CutExists
  <2>4. CutAt(a, lo + 1, p) /\ CutAt(a, hi, q)
    BY <1>3, <2>1, <2>2, <2>3, AppendedCut, lo + 1 \in Nat, lo + 1 <= x.seq
  <2> HIDE DEF a
  <2>5. Between(a, lo, hi) = SubSeq(a, p + 1, q)
    BY <1>1, <2>4, BetweenIs
  <2>6. Between(s, lo, hi) = SubSeq(s, p + 1, q)
    BY <2>2, <2>3, BetweenIs
  <2>7. p \in 0 .. Len(s) /\ q \in 0 .. Len(s)
    BY <2>2, <2>3 DEF CutAt
  <2>8. SubSeq(a, p + 1, q) = SubSeq(s, p + 1, q)
    <3>1. \A i \in p + 1 .. q : a[i] \in Line /\ s[i] \in Line /\ a[i] = s[i]
      BY <1>1, <2>7
    <3>2. /\ SubSeq(a, p + 1, q) \in Seq(Line)
          /\ Len(SubSeq(a, p + 1, q)) = IF p + 1 <= q THEN q - (p + 1) + 1 ELSE 0
          /\ \A i \in 1 .. q - (p + 1) + 1 : SubSeq(a, p + 1, q)[i] = a[p + 1 + i - 1]
      BY <1>1, <2>7, <3>1, SubSeqProperties, p + 1 \in Int, q \in Int
    <3>3. /\ SubSeq(s, p + 1, q) \in Seq(Line)
          /\ Len(SubSeq(s, p + 1, q)) = IF p + 1 <= q THEN q - (p + 1) + 1 ELSE 0
          /\ \A i \in 1 .. q - (p + 1) + 1 : SubSeq(s, p + 1, q)[i] = s[p + 1 + i - 1]
      BY <1>1, <2>7, <3>1, SubSeqProperties, p + 1 \in Int, q \in Int
    <3> DEFINE u == SubSeq(a, p + 1, q)
               v == SubSeq(s, p + 1, q)
    <3>4. Len(u) = Len(v) /\ \A i \in 1 .. Len(u) : u[i] = v[i]
      <4>1. Len(u) = Len(v)
        BY <3>2, <3>3
      <4> SUFFICES ASSUME NEW i \in 1 .. Len(u) PROVE u[i] = v[i]
        BY <4>1
      <4>2. i \in 1 .. q - (p + 1) + 1 /\ p + 1 + i - 1 \in p + 1 .. q
        BY <2>7, <3>2
      <4> QED BY <3>1, <3>2, <3>3, <4>2
    <3>5. u \in Seq(Line) /\ v \in Seq(Line)
      BY <3>2, <3>3
    <3> HIDE DEF u, v
    <3>6. u = v
      BY <3>4, <3>5, SeqEqual
    <3> QED BY <3>6 DEF u, v
  <2> QED BY <2>5, <2>6, <2>8 DEF a
<1> QED BY <1>1, <1>2, <1>3

-----------------------------------------------------------------------------
(* The order of the lines *)

\* The lines of b are the next ones that a poll has to return.
Following(b) ==
    \E p \in 0 .. Len(journal) :
        /\ CutAt(journal, nextSeq, p)
        /\ p + Len(b) <= Len(journal)
        /\ \A i \in 1 .. Len(b) : b[i] = journal[p + i]

\* What was handled are the lines from the base to nextSeq, also while the process
\* is down.
HandledSoFar == handled = Between(journal, base, nextSeq)

\* nextSeq follows a line, unless the loop has read nothing since the cursor was
\* loaded or set; the cursor has not overtaken it, nor the disk the cursor, unless
\* set_cursor went back and could not save that.
Frontier ==
    /\ base < nextSeq /\ cursor < nextSeq
    /\ nextSeq = base + 1 \/ \E i \in 1 .. Len(journal) : nextSeq = journal[i].seq + 1
    /\ up => disk <= cursor \/ faults > 0

\* What the consumer has before it are lines read since then.
BufferedLines ==
    /\ \A l \in Range(queue) : l \in Range(journal) /\ base < l.seq /\ l.seq < nextSeq
    /\ pending > 0 => pending \in Seqs(journal) /\ base < pending /\ pending < nextSeq

\* What a suspended loop has still to do are the lines that follow.
BatchFollows == loop = "observer" => ObserversYield /\ Following(batch)

\* The second inductive invariant, for a stream whose observers do not suspend or
\* whose cursor is not set.
OrderInv == Sorted(journal) /\ HandledSoFar /\ Frontier /\ BufferedLines /\ BatchFollows

\* What a poll returns is what follows.
LEMMA PollFollows ==
  ASSUME BufferInv, OrderInv
  PROVE  Unread(nextSeq) \in Seq(Line) /\ Following(Unread(nextSeq))
<1>1. journal \in Seq(Line) /\ nextSeq \in Nat /\ Sorted(journal)
  BY DEF BufferInv, Lists, Numbers, OrderInv
<1>2. PICK p : CutAt(journal, nextSeq, p)
  BY <1>1, CutExists
<1>3. /\ Len(Unread(nextSeq)) = Len(journal) - p
      /\ \A i \in 1 .. Len(Unread(nextSeq)) : Unread(nextSeq)[i] = journal[p + i]
  BY <1>1, <1>2, UnreadFollows
<1>4. p \in 0 .. Len(journal) /\ Len(journal) \in Nat
  BY <1>1, <1>2 DEF CutAt
<1>5. p + Len(Unread(nextSeq)) <= Len(journal)
  BY <1>3, <1>4
<1>6. Following(Unread(nextSeq))
  BY <1>2, <1>3, <1>4, <1>5 DEF Following
<1> QED BY <1>1, <1>6, UnreadIs

\* Handling the first lines of what follows moves nextSeq behind them, and leaves the
\* others to follow.
LEMMA Advance ==
  ASSUME BufferInv, OrderInv, UNCHANGED <<journal, base>>,
         NEW b \in Seq(Line), Following(b), NEW k \in 0 .. Len(b), k = 0 => b = << >>,
         Handle(Until(b, k))
  PROVE  /\ HandledSoFar'
         /\ nextSeq' \in Nat /\ nextSeq <= nextSeq'
         /\ nextSeq' = nextSeq \/ \E i \in 1 .. Len(journal) : nextSeq' = journal[i].seq + 1
         /\ Following(SubSeq(b, k + 1, Len(b)))'
         /\ \A i \in 1 .. k : b[i] \in Range(journal) /\ nextSeq <= b[i].seq /\ b[i].seq < nextSeq'
         /\ \A i \in 1 .. Len(journal) :
              nextSeq <= journal[i].seq /\ journal[i].seq < nextSeq'
                => \E j \in 1 .. k : journal[i] = b[j]
<1>1. /\ journal \in Seq(Line) /\ queue \in Seq(Line) /\ handled \in Seq(Line) /\ cursor \in Nat
      /\ nextSeq \in Nat \ {0} /\ done \subseteq Nat \ {0} /\ unfinished \in Int /\ base \in Nat
  BY DEF BufferInv, Lists, Numbers
<1>2. /\ Len(journal) \in Nat
      /\ \A i \in 1 .. Len(journal) : journal[i] \in Range(journal) /\ journal[i].seq \in Nat \ {0}
  BY <1>1, LinesOf
<1>3. Sorted(journal) /\ handled = Between(journal, base, nextSeq) /\ base < nextSeq
  BY DEF OrderInv, HandledSoFar, Frontier
<1>4. PICK p \in 0 .. Len(journal) :
        /\ CutAt(journal, nextSeq, p)
        /\ p + Len(b) <= Len(journal)
        /\ \A i \in 1 .. Len(b) : b[i] = journal[p + i]
  BY DEF Following
<1>5. Len(b) \in Nat /\ k \in Nat /\ k <= Len(b)
  OBVIOUS
<1>6. /\ Until(b, k) \in Seq(Line) /\ Len(Until(b, k)) = k
      /\ \A i \in 1 .. k : Until(b, k)[i] = b[i]
  BY PrefixIs
<1>7. /\ Len(SubSeq(b, k + 1, Len(b))) = Len(b) - k
      /\ \A i \in 1 .. Len(b) - k : SubSeq(b, k + 1, Len(b))[i] = b[k + i]
  BY PrefixIs
<1>8. /\ handled' = handled \o Until(b, k) /\ nextSeq' \in Nat \ {0}
      /\ nextSeq' = IF Until(b, k) = << >> THEN nextSeq ELSE Until(b, k)[Len(Until(b, k))].seq + 1
  BY <1>1, <1>6, HandleIs
<1>9. Between(journal, base, nextSeq)' = Between(journal, base, nextSeq')
  BY DEF Between
<1>10. CASE k = 0
  <2>1. b = << >> /\ Until(b, k) = << >> /\ nextSeq' = nextSeq
    <3>1. Until(b, k) = << >>
      BY <1>6, <1>10
    <3> QED BY <1>8, <1>10, <3>1
  <2>2. handled' = handled
    BY <1>1, <1>8, <2>1, ConcatEmptySeq
  <2>3. HandledSoFar'
    BY <1>3, <1>9, <2>1, <2>2 DEF HandledSoFar
  <2>4. Following(SubSeq(b, k + 1, Len(b)))'
    <3>1. Len(SubSeq(b, k + 1, Len(b))) = 0
      BY <1>7, <1>10, <2>1
    <3>2. CutAt(journal, nextSeq, p)'
      BY <1>4, <2>1 DEF CutAt
    <3> QED BY <1>2, <1>4, <3>1, <3>2 DEF Following
  <2>5. 1 .. k = {}
    BY <1>10
  <2>6. \A i \in 1 .. Len(journal) : ~(nextSeq <= journal[i].seq /\ journal[i].seq < nextSeq')
    BY <1>1, <1>2, <2>1
  <2> QED BY <1>1, <2>1, <2>3, <2>4, <2>5, <2>6
<1>11. CASE k # 0
  <2>1. k \in 1 .. Len(b) /\ p + k \in 1 .. Len(journal) /\ p \in Nat
    BY <1>2, <1>4, <1>5, <1>11
  <2>2. Until(b, k) # << >>
    BY <1>6, <2>1
  <2>3. nextSeq' = journal[p + k].seq + 1
    <3>1. Until(b, k)[k] = journal[p + k]
      BY <1>4, <1>6, <2>1
    <3> QED BY <1>6, <1>8, <2>2, <3>1
  <2>4. CutAt(journal, nextSeq', p + k)
    BY <1>1, <1>3, <2>1, <2>3, CutAfter
  <2>5. \A i \in 1 .. k : b[i] \in Range(journal) /\ nextSeq <= b[i].seq /\ b[i].seq < nextSeq'
    <3> SUFFICES ASSUME NEW i \in 1 .. k
                 PROVE  b[i] \in Range(journal) /\ nextSeq <= b[i].seq /\ b[i].seq < nextSeq'
      OBVIOUS
    <3>1. b[i] = journal[p + i] /\ p + i \in 1 .. Len(journal) /\ ~(p + i <= p) /\ p + i <= p + k
      BY <1>2, <1>4, <1>5, <2>1
    <3>2. ~(journal[p + i].seq < nextSeq)
      BY <1>4, <3>1 DEF CutAt
    <3>3. journal[p + i].seq < nextSeq'
      BY <2>4, <3>1 DEF CutAt
    <3> QED BY <1>1, <1>2, <3>1, <3>2, <3>3
  <2>6. nextSeq <= nextSeq'
    <3>1. nextSeq <= b[k].seq /\ b[k].seq = journal[p + k].seq
      BY <1>4, <2>1, <2>5, k \in 1 .. k
    <3> QED BY <1>1, <1>2, <2>1, <2>3, <3>1
  <2>7. HandledSoFar'
    <3>1. PICK r : CutAt(journal, base + 1, r)
      BY <1>1, <1>3, CutExists, base + 1 \in Nat
    <3>0. journal \in Seq(Line) /\ base \in Nat /\ nextSeq \in Nat /\ base < nextSeq
          /\ CutAt(journal, nextSeq, p)
      BY <1>1, <1>3, <1>4
    <3>2. r <= p /\ Between(journal, base, nextSeq) = SubSeq(journal, r + 1, p)
      BY <3>0, <3>1, BetweenIs
    <3>3. Between(journal, base, nextSeq') = SubSeq(journal, r + 1, p + k)
      <4>1. nextSeq' \in Nat /\ base < nextSeq'
        BY <1>1, <1>3, <1>8, <2>6
      <4> DEFINE h == nextSeq'
                 q == p + k
      <4>2. h \in Nat /\ base < h /\ CutAt(journal, h, q)
        BY <2>4, <4>1
      <4> HIDE DEF h, q
      <4>3. Between(journal, base, h) = SubSeq(journal, r + 1, q)
        BY <3>0, <3>1, <4>2, BetweenIs
      <4> QED BY <4>3 DEF h, q
    <3>4. r \in 0 .. Len(journal)
      BY <3>1 DEF CutAt
    <3>5. Until(b, k) = SubSeq(journal, p + 1, p + k)
      <4>1. p + k \in p .. Len(journal) /\ (p + k) - p = k
        BY <1>1, <1>5, <2>1
      <4>2. PICK q \in p .. Len(journal) : q = p + k /\ q - p = k
        BY <4>1
      <4> DEFINE u == Until(b, k)
                 v == SubSeq(journal, p + 1, p + k)
      <4>3. v \in Seq(Line) /\ Len(v) = k /\ \A i \in 1 .. k : v[i] = journal[p + i]
        <5>1. v = SubSeq(journal, p + 1, q)
          BY <4>2
        <5>2. q - p = k
          BY <4>2
        <5>3. /\ SubSeq(journal, p + 1, q) \in Seq(Line) /\ Len(SubSeq(journal, p + 1, q)) = q - p
              /\ \A i \in 1 .. q - p : SubSeq(journal, p + 1, q)[i] = journal[p + i]
          BY <1>1, <2>1, <4>2, SliceIs
        <5> HIDE DEF v
        <5> QED BY <5>1, <5>2, <5>3
      <4>4. \A i \in 1 .. k : u[i] = v[i]
        <5>1. \A i \in 1 .. k : u[i] = b[i]
          BY <1>6
        <5>2. \A i \in 1 .. k : i \in 1 .. Len(b)
          BY <1>5
        <5>3. \A i \in 1 .. k : b[i] = journal[p + i]
          BY <1>4, <5>2
        <5> HIDE DEF u, v
        <5> QED BY <4>3, <5>1, <5>3
      <4>5. u \in Seq(Line) /\ v \in Seq(Line) /\ Len(u) = k
        BY <1>6, <4>3
      <4> HIDE DEF u, v
      <4>6. u = v
        BY <4>3, <4>4, <4>5, SeqEqual
      <4> QED BY <4>6 DEF u, v
    <3>6. SubSeq(journal, r + 1, p) \o SubSeq(journal, p + 1, p + k) = SubSeq(journal, r + 1, p + k)
      <4>1. r + 1 \in 1 .. Len(journal) + 1 /\ p \in (r + 1) - 1 .. Len(journal)
            /\ p + k \in p .. Len(journal)
        BY <1>2, <1>4, <1>5, <2>1, <3>2, <3>4
      <4> QED BY <1>1, <4>1, ConcatAdjacentSubSeq
    <3>7. handled' = Between(journal, base, nextSeq')
      BY <1>3, <1>8, <3>2, <3>3, <3>5, <3>6
    <3> QED BY <1>9, <3>7 DEF HandledSoFar
  <2>8. Following(SubSeq(b, k + 1, Len(b)))'
    <3> DEFINE c == SubSeq(b, k + 1, Len(b))
    <3>1. Len(c) = Len(b) - k /\ \A i \in 1 .. Len(c) : c[i] = journal[(p + k) + i]
      <4> SUFFICES ASSUME NEW i \in 1 .. Len(b) - k PROVE c[i] = journal[(p + k) + i]
        BY <1>7
      <4>1. k + i \in 1 .. Len(b) /\ p + (k + i) = (p + k) + i
        BY <1>5, <2>1
      <4> QED BY <1>4, <1>7, <4>1
    <3>2. (p + k) + Len(c) <= Len(journal)
      <4>1. Len(c) = Len(b) - k
        BY <3>1
      <4> HIDE DEF c
      <4> QED BY <1>2, <1>4, <1>5, <2>1, <4>1
    <3>3. CutAt(journal, nextSeq, p + k)'
      BY <2>4 DEF CutAt
    <3>4. p + k \in 0 .. Len(journal)
      BY <2>1
    <3> QED BY <3>1, <3>2, <3>3, <3>4 DEF Following
  <2>9. ASSUME NEW i \in 1 .. Len(journal), nextSeq <= journal[i].seq, journal[i].seq < nextSeq'
        PROVE  \E j \in 1 .. k : journal[i] = b[j]
    <3>1. ~(i <= p)
      <4>1. ~(journal[i].seq < nextSeq)
        BY <1>1, <1>2, <2>9
      <4> QED BY <1>4, <4>1 DEF CutAt
    <3>2. i <= p + k
      BY <2>4, <2>9 DEF CutAt
    <3>3. i - p \in 1 .. k /\ i - p \in 1 .. Len(b) /\ p + (i - p) = i
      BY <1>2, <1>4, <1>5, <2>1, <3>1, <3>2
    <3> QED BY <1>4, <3>3
  <2> QED BY <1>8, <2>1, <2>3, <2>5, <2>6, <2>7, <2>8, <2>9
<1> QED BY <1>10, <1>11

\* The stream starts with an empty journal, and in order.
LEMMA OrderStarts == Init => OrderInv
<1> SUFFICES ASSUME Init PROVE OrderInv
  OBVIOUS
<1>1. journal = << >> /\ journal \in Seq(Line) /\ Len(journal) = 0
  BY DEF Init
<1>2. base = 0 /\ nextSeq = 0 + 1 /\ handled = << >> /\ queue = << >> /\ pending = 0
      /\ cursor = 0 /\ disk = 0 /\ faults = 0 /\ loop = "off"
  BY DEF Init
<1>3. Sorted(journal)
  BY <1>1 DEF Sorted
<1>4. HandledSoFar
  BY <1>1, <1>2, BetweenNothing, 0 \in Nat DEF HandledSoFar
<1>5. Frontier
  BY <1>2 DEF Frontier
<1>6. BufferedLines
  BY <1>2 DEF BufferedLines, Range
<1>7. BatchFollows
  BY <1>2 DEF BatchFollows
<1> QED BY <1>3, <1>4, <1>5, <1>6, <1>7 DEF OrderInv

\* A poll or a suspended loop handles what follows.
LEMMA OrderBatch ==
  ASSUME BufferInv, OrderInv, NEW b \in Seq(Line), Following(b), Batch(b),
         UNCHANGED <<journal, symbols, leaked, consumerVars, up, base, lives, controls>>
  PROVE  OrderInv'
<1>1. /\ journal \in Seq(Line) /\ queue \in Seq(Line) /\ handled \in Seq(Line) /\ cursor \in Nat
      /\ nextSeq \in Nat \ {0} /\ done \subseteq Nat \ {0} /\ unfinished \in Int /\ base \in Nat
      /\ disk \in Nat /\ errors \in Nat /\ stopped \in BOOLEAN /\ faults \in Nat /\ pending \in Nat
  BY DEF BufferInv, Lists, Numbers, Flags
<1>2. PICK k \in 0 .. Len(b) :
           /\ k = 0 => b = << >>
           /\ Handle(Until(b, k))
           /\ UNCHANGED disk \/ (disk' \in Nat /\ cursor < disk' /\ disk' <= cursor')
           /\ faults' \in Nat /\ faults <= faults'
           /\ \/ loop' = "observer" /\ ObserversYield /\ batch' = SubSeq(b, k + 1, Len(b))
              \/ loop' \in {"polling", "off"} /\ batch' = << >>
  BY <1>1, BatchShape
<1>3. UNCHANGED <<journal, base, up, pending>>
  BY DEF consumerVars
<1>4. /\ HandledSoFar'
      /\ nextSeq' \in Nat /\ nextSeq <= nextSeq'
      /\ nextSeq' = nextSeq \/ \E i \in 1 .. Len(journal) : nextSeq' = journal[i].seq + 1
      /\ Following(SubSeq(b, k + 1, Len(b)))'
      /\ \A i \in 1 .. k : b[i] \in Range(journal) /\ nextSeq <= b[i].seq /\ b[i].seq < nextSeq'
  BY <1>2, <1>3, Advance
<1>5. /\ Until(b, k) \in Seq(Line) /\ Len(Until(b, k)) = k
      /\ \A i \in 1 .. k : Until(b, k)[i] = b[i]
  BY PrefixIs
<1>6. /\ Taken(Until(b, k)) \in Seq(Line)
      /\ Range(Taken(Until(b, k))) = {l \in Range(Until(b, k)) : Subscribed(l)}
      /\ queue' = queue \o Taken(Until(b, k))
      /\ cursor' = CursorThrough(Until(b, k)) /\ cursor' \in Nat /\ cursor' >= cursor
  BY <1>1, <1>2, <1>5, HandleIs
<1>7. \A l \in Range(Until(b, k)) : l \in Range(journal) /\ nextSeq <= l.seq /\ l.seq < nextSeq'
  <2>1. Range(Until(b, k)) = {Until(b, k)[i] : i \in 1 .. k}
    BY <1>5, RangeEquality
  <2> QED BY <1>4, <1>5, <2>1
<1>8. /\ base < nextSeq /\ cursor < nextSeq /\ (up => disk <= cursor \/ faults > 0)
      /\ nextSeq = base + 1 \/ \E i \in 1 .. Len(journal) : nextSeq = journal[i].seq + 1
  BY DEF OrderInv, Frontier
<1>9. Sorted(journal)'
  BY <1>3 DEF OrderInv, Sorted
<1>10. Frontier'
  <2>1. base' < nextSeq'
    BY <1>1, <1>3, <1>4, <1>8
  <2>2. cursor' < nextSeq'
    <3>1. \/ cursor' = cursor
          \/ \E i \in 1 .. Len(Until(b, k)) : cursor' = Until(b, k)[i].seq
      BY <1>1, <1>5, <1>6, CursorThroughIs
    <3>2. CASE cursor' = cursor
      BY <1>1, <1>4, <1>8, <3>2
    <3>3. CASE \E i \in 1 .. Len(Until(b, k)) : cursor' = Until(b, k)[i].seq
      BY <1>4, <1>5, <3>3
    <3> QED BY <3>1, <3>2, <3>3
  <2>3. up' => disk' <= cursor' \/ faults' > 0
    BY <1>1, <1>2, <1>3, <1>6, <1>8
  <2>4. nextSeq' = base' + 1 \/ \E i \in 1 .. Len(journal') : nextSeq' = journal'[i].seq + 1
    BY <1>3, <1>4, <1>8
  <2> QED BY <2>1, <2>2, <2>3, <2>4 DEF Frontier
<1>11. BufferedLines'
  <2>1. \A l \in Range(queue) : l \in Range(journal) /\ l.seq \in Nat /\ base < l.seq /\ l.seq < nextSeq
    <3>1. \A l \in Range(queue) : l.seq \in Nat
      BY <1>1, LinesAreRecords DEF Line
    <3> QED BY <3>1 DEF OrderInv, BufferedLines
  <2>2. \A l \in Range(Until(b, k)) : l.seq \in Nat
    BY <1>5, LinesAreRecords DEF Line
  <2>3. Range(queue') = Range(queue) \cup Range(Taken(Until(b, k)))
    BY <1>1, <1>6, RangeConcatenation
  <2>4. \A l \in Range(queue') : l \in Range(journal) /\ base < l.seq /\ l.seq < nextSeq'
    <3> SUFFICES ASSUME NEW l \in Range(queue')
                 PROVE  l \in Range(journal) /\ base < l.seq /\ l.seq < nextSeq'
      OBVIOUS
    <3>1. CASE l \in Range(queue)
      BY <1>1, <1>4, <2>1, <3>1
    <3>2. CASE l \in Range(Until(b, k))
      BY <1>1, <1>4, <1>7, <1>8, <2>2, <3>2
    <3> QED BY <1>6, <2>3, <3>1, <3>2
  <2>5. pending > 0 => pending \in Seqs(journal) /\ base < pending /\ pending < nextSeq'
    BY <1>1, <1>4 DEF OrderInv, BufferedLines
  <2> QED BY <1>3, <2>4, <2>5 DEF BufferedLines, Seqs
<1>12. BatchFollows'
  BY <1>2, <1>4 DEF BatchFollows
<1> QED BY <1>4, <1>9, <1>10, <1>11, <1>12 DEF OrderInv

\* What the collector appends comes last, and below nextSeq only while nothing was
\* handled.
LEMMA OrderAppends ==
  ASSUME BufferInv, OrderInv, NEW sy \in Symbols, Append1(sy)
  PROVE  OrderInv'
<1>1. PICK gap \in 0 .. 1 : /\ Tip + gap < MaxSeq
                           /\ journal' = Append(journal, [seq |-> Tip + gap + 1, symbol |-> sy])
  BY DEF Append1
<1>2. UNCHANGED <<disk, cursor, nextSeq, queue, pending, loop, batch, up, base, handled, faults>>
  BY DEF Append1, bufferVars, consumerVars, loopVars, boundVars
<1>3. journal \in Seq(Line) /\ nextSeq \in Nat \ {0} /\ base \in Nat /\ batch \in Seq(Line)
  BY DEF BufferInv, Lists, Numbers
<1> DEFINE x == [seq |-> Tip + gap + 1, symbol |-> sy]
<1>4. Tip \in Nat /\ \A i \in 1 .. Len(journal) : journal[i].seq <= Tip
  BY <1>3, TipIs
<1>5. x \in Line /\ x.seq = Tip + gap + 1 /\ x.seq \in Nat
  BY <1>4 DEF Line
<1>6. /\ Len(journal) \in Nat
      /\ \A i \in 1 .. Len(journal) : journal[i].seq \in Nat /\ journal[i].seq < x.seq
  <2>1. Len(journal) \in Nat /\ \A i \in 1 .. Len(journal) : journal[i].seq \in Nat
    BY <1>3, LinesOf
  <2> QED BY <1>4, <1>5, <2>1
<1>7. journal' = Append(journal, x)
  BY <1>1
<1> HIDE DEF x
<1>8. /\ journal' \in Seq(Line) /\ Len(journal') = Len(journal) + 1
      /\ \A i \in 1 .. Len(journal) : journal'[i] = journal[i]
  BY <1>3, <1>5, <1>7, AppendProperties
<1>9. Sorted(journal)'
  <2>1. Sorted(Append(journal, x))
    BY <1>3, <1>5, <1>6, AppendedSorted DEF OrderInv
  <2> QED BY <1>7, <2>1 DEF Sorted
<1>10. /\ base < nextSeq /\ cursor < nextSeq /\ (up => disk <= cursor \/ faults > 0)
       /\ nextSeq = base + 1 \/ \E i \in 1 .. Len(journal) : nextSeq = journal[i].seq + 1
  BY DEF OrderInv, Frontier
<1>11. nextSeq <= x.seq \/ nextSeq = base + 1
  <2>1. ASSUME NEW i \in 1 .. Len(journal), nextSeq = journal[i].seq + 1 PROVE nextSeq <= x.seq
    BY <1>5, <1>6, <2>1
  <2> QED BY <1>10, <2>1
<1>12. HandledSoFar'
  <2>1. Between(Append(journal, x), base, nextSeq) = Between(journal, base, nextSeq)
    BY <1>3, <1>5, <1>6, <1>10, <1>11, AppendedBetween DEF OrderInv
  <2>2. Between(journal, base, nextSeq)' = Between(Append(journal, x), base, nextSeq)
    BY <1>2, <1>7 DEF Between
  <2> QED BY <1>2, <2>1, <2>2 DEF OrderInv, HandledSoFar
<1>13. Frontier'
  <2>1. \A i \in 1 .. Len(journal) : i \in 1 .. Len(journal')
    BY <1>6, <1>8
  <2> QED BY <1>2, <1>8, <1>10, <2>1 DEF Frontier
<1>14. Range(journal) \subseteq Range(journal') /\ Seqs(journal) \subseteq Seqs(journal')
  <2>1. Range(journal) = {journal[i] : i \in 1 .. Len(journal)}
        /\ Range(journal') = {journal'[i] : i \in 1 .. Len(journal')}
    BY <1>3, <1>8, RangeEquality
  <2>2. \A i \in 1 .. Len(journal) : i \in 1 .. Len(journal')
    BY <1>6, <1>8
  <2>3. Range(journal) \subseteq Range(journal')
    BY <1>8, <2>1, <2>2
  <2> QED BY <2>3 DEF Seqs
<1>15. BufferedLines'
  <2>1. \A l \in Range(queue') : l \in Range(journal') /\ base' < l.seq /\ l.seq < nextSeq'
    BY <1>2, <1>14 DEF OrderInv, BufferedLines
  <2>2. pending' > 0 => pending' \in Seqs(journal') /\ base' < pending' /\ pending' < nextSeq'
    BY <1>2, <1>14 DEF OrderInv, BufferedLines
  <2> QED BY <2>1, <2>2 DEF BufferedLines, Seqs
<1>16. BatchFollows'
  <2> SUFFICES ASSUME loop = "observer" PROVE ObserversYield /\ Following(batch)'
    BY <1>2 DEF BatchFollows
  <2>1. PICK p \in 0 .. Len(journal) :
          /\ CutAt(journal, nextSeq, p)
          /\ p + Len(batch) <= Len(journal)
          /\ \A i \in 1 .. Len(batch) : batch[i] = journal[p + i]
    BY DEF OrderInv, BatchFollows, Following
  <2>2. Len(batch) \in Nat
    BY <1>3
  <2>3. CASE nextSeq <= x.seq
    <3>1. CutAt(Append(journal, x), nextSeq, p)
      BY <1>3, <1>5, <2>1, <2>3, AppendedCut
    <3>2. CutAt(journal, nextSeq, p)'
      BY <1>2, <1>7, <3>1 DEF CutAt
    <3>3. \A i \in 1 .. Len(batch) : batch[i] = journal'[p + i]
      <4>1. \A i \in 1 .. Len(batch) : p + i \in 1 .. Len(journal)
        BY <1>6, <2>1, <2>2
      <4> QED BY <1>8, <2>1, <4>1
    <3>4. p \in 0 .. Len(journal') /\ p + Len(batch) <= Len(journal')
      BY <1>6, <1>8, <2>1, <2>2
    <3>5. Following(batch)'
      BY <1>2, <3>2, <3>3, <3>4 DEF Following
    <3> QED BY <3>5 DEF OrderInv, BatchFollows
  <2>4. CASE ~(nextSeq <= x.seq)
    <3>0. PICK m \in Nat : m = Len(journal) + 1
      BY <1>6
    <3>1. p = Len(journal)
      <4>1. CASE Len(journal) = 0
        BY <1>6, <2>1, <4>1
      <4>2. CASE Len(journal) # 0
        <5>1. Len(journal) \in 1 .. Len(journal)
          BY <1>6, <4>2
        <5>2. journal[Len(journal)].seq < nextSeq
          BY <1>3, <1>5, <1>6, <2>4, <5>1
        <5>3. Len(journal) <= p
          BY <2>1, <5>1, <5>2 DEF CutAt
        <5> QED BY <1>6, <2>1, <5>3
      <4> QED BY <4>1, <4>2
    <3>2. Len(batch) = 0
      BY <1>6, <2>1, <2>2, <3>1
    <3>3. \A i \in 1 .. Len(journal') : journal'[i].seq < nextSeq <=> i <= m
      <4> SUFFICES ASSUME NEW i \in 1 .. Len(journal') PROVE journal'[i].seq < nextSeq /\ i <= m
        OBVIOUS
      <4>1. CASE i \in 1 .. Len(journal)
        <5>1. journal[i].seq < nextSeq
          BY <1>3, <1>5, <1>6, <2>4, <4>1
        <5> QED BY <1>6, <1>8, <3>0, <4>1, <5>1
      <4>2. CASE i = m
        <5>1. journal'[m] = x
          BY <1>3, <1>5, <1>7, <3>0, AppendProperties
        <5> QED BY <1>3, <1>5, <1>6, <2>4, <4>2, <5>1
      <4> QED BY <1>6, <1>8, <3>0, <4>1, <4>2
    <3>4. m \in 0 .. Len(journal') /\ m + Len(batch) <= Len(journal')
      BY <1>6, <1>8, <3>0, <3>2
    <3>5. CutAt(journal, nextSeq, m)'
      BY <1>2, <3>3, <3>4 DEF CutAt
    <3>6. Following(batch)'
      BY <1>2, <3>2, <3>4, <3>5 DEF Following
    <3> QED BY <3>6 DEF OrderInv, BatchFollows
  <2> QED BY <2>3, <2>4
<1> QED BY <1>9, <1>12, <1>13, <1>15, <1>16 DEF OrderInv

\* A stream object begins after its cursor, with nothing handled.
LEMMA OrderLives ==
  ASSUME BufferInv, OrderInv, Crash \/ Open
  PROVE  OrderInv'
<1>1. journal \in Seq(Line) /\ disk \in Nat
  BY DEF BufferInv, Lists, Numbers
<1>2. PICK c \in Nat : Fresh(c) /\ (up' => c = disk)
  BY <1>1 DEF Crash, Open
<1>3. UNCHANGED <<journal, disk>>
  BY DEF Crash, Open
<1>4. cursor' = c /\ nextSeq' = c + 1 /\ base' = c /\ queue' = << >> /\ handled' = << >>
      /\ pending' = 0 /\ loop' = "off"
  BY <1>2 DEF Fresh
<1>5. Sorted(journal)'
  BY <1>3 DEF OrderInv, Sorted
<1>6. HandledSoFar'
  <2>1. Between(journal, c, c + 1) = << >>
    BY <1>1, BetweenNothing
  <2>2. Between(journal, base, nextSeq)' = Between(journal, c, c + 1)
    BY <1>3, <1>4 DEF Between
  <2> QED BY <1>4, <2>1, <2>2 DEF HandledSoFar
<1>7. Frontier'
  BY <1>1, <1>2, <1>3, <1>4 DEF Frontier
<1>8. BufferedLines'
  BY <1>4 DEF BufferedLines, Range
<1>9. BatchFollows'
  BY <1>4 DEF BatchFollows
<1> QED BY <1>5, <1>6, <1>7, <1>8, <1>9 DEF OrderInv

\* The loop and its callers leave the lines alone.
LEMMA OrderControls ==
  ASSUME BufferInv, OrderInv,
         \/ \E s \in Symbols : Resubscribe(s)
         \/ StartStreaming \/ Stop \/ Cancelled
         \/ CallbacksReturn \/ PollFails \/ ObserverFails \/ LoopEnds
  PROVE  OrderInv'
<1>1. UNCHANGED <<journal, disk, cursor, nextSeq, queue, pending, up, base, handled>>
  BY DEF Resubscribe, StartStreaming, Stop, Cancelled, CallbacksReturn, PollFails,
         ObserverFails, LoopEnds, bufferVars, consumerVars
<1>2. loop' = "observer" => UNCHANGED <<loop, batch>>
  BY DEF Resubscribe, StartStreaming, Stop, Cancelled, CallbacksReturn, PollFails,
         ObserverFails, LoopEnds, loopVars, Failed
<1>0. faults \in Nat /\ (faults' = faults \/ faults' = faults + 1)
  BY DEF Resubscribe, StartStreaming, Stop, Cancelled, CallbacksReturn, PollFails,
         ObserverFails, LoopEnds, boundVars, Fault, BufferInv, Numbers
<1>3. Sorted(journal)'
  BY <1>1 DEF OrderInv, Sorted
<1>4. HandledSoFar'
  BY <1>1 DEF OrderInv, HandledSoFar, Between
<1>5. Frontier'
  BY <1>0, <1>1 DEF OrderInv, Frontier
<1>6. BufferedLines'
  BY <1>1 DEF OrderInv, BufferedLines, Seqs
<1>7. BatchFollows'
  <2> SUFFICES ASSUME loop' = "observer" PROVE ObserversYield /\ Following(batch)'
    BY DEF BatchFollows
  <2>1. ObserversYield /\ Following(batch)
    BY <1>2 DEF OrderInv, BatchFollows
  <2>2. Following(batch)'
    BY <1>1, <1>2, <2>1 DEF Following, CutAt
  <2> QED BY <2>1, <2>2
<1> QED BY <1>3, <1>4, <1>5, <1>6, <1>7 DEF OrderInv

\* The consumer takes lines from the buffer, and the cursor follows it.
LEMMA OrderConsumes ==
  ASSUME BufferInv, OrderInv, Consume
  PROVE  OrderInv'
<1>1. UNCHANGED <<journal, nextSeq, loop, batch, up, base, handled>>
  BY DEF Consume, WaitForNextTick, MarkProcessed, MarkInvalidated, MarkSaveFails,
         bufferVars, consumerVars, loopVars
<1>2. queue \in Seq(Line) /\ pending \in Nat /\ cursor \in Nat /\ disk \in Nat
  BY DEF BufferInv, Lists, Numbers
<1>3. Sorted(journal)' /\ HandledSoFar' /\ BatchFollows'
  BY <1>1 DEF OrderInv, Sorted, HandledSoFar, Between, BatchFollows, Following, CutAt
<1>4. /\ faults' = faults \/ faults' = faults + 1
      /\ \/ UNCHANGED <<cursor, disk>>
         \/ pending > cursor /\ cursor' = pending /\ (disk' = pending \/ disk' = disk)
  BY DEF Consume, WaitForNextTick, MarkProcessed, MarkInvalidated, MarkSaveFails, boundVars, Fault
<1>5. Frontier'
  <2>1. (pending > 0 => pending < nextSeq) /\ faults \in Nat
    BY DEF OrderInv, BufferedLines, BufferInv, Numbers
  <2>2. CASE UNCHANGED <<cursor, disk>>
    BY <1>1, <1>4, <2>1, <2>2 DEF OrderInv, Frontier
  <2>3. CASE pending > cursor /\ cursor' = pending /\ (disk' = pending \/ disk' = disk)
    <3>1. disk' = pending \/ (disk <= cursor => disk' <= cursor')
      BY <1>2, <2>3
    <3> QED BY <1>1, <1>2, <1>4, <2>1, <2>3, <3>1 DEF OrderInv, Frontier
  <2> QED BY <1>4, <2>2, <2>3
<1>6. BufferedLines'
  <2>1. CASE WaitForNextTick
    <3>1. queue # << >> /\ queue' = Tail(queue) /\ pending' = Head(queue).seq
      BY <2>1 DEF WaitForNextTick
    <3>2. Range(queue') \subseteq Range(queue) /\ Head(queue) \in Range(queue)
      <4>1. /\ Tail(queue) \in Seq(Line) /\ Len(Tail(queue)) = Len(queue) - 1
            /\ \A i \in 1 .. Len(Tail(queue)) : Tail(queue)[i] = queue[i + 1]
            /\ Head(queue) = queue[1] /\ Len(queue) \in Nat \ {0}
        BY <1>2, <3>1, HeadTailProperties
      <4> DEFINE u == Tail(queue)
      <4>2. Range(queue) = {queue[i] : i \in 1 .. Len(queue)}
        BY <1>2, RangeEquality
      <4>3. Range(u) = {u[i] : i \in 1 .. Len(u)}
        BY <4>1, RangeEquality
      <4>4. 1 \in 1 .. Len(queue) /\ \A i \in 1 .. Len(u) : i + 1 \in 1 .. Len(queue)
        BY <4>1
      <4>5. Head(queue) \in Range(queue)
        BY <4>1, <4>2, <4>4
      <4> HIDE DEF u
      <4>6. Range(u) \subseteq Range(queue)
        BY <4>1, <4>2, <4>3, <4>4 DEF u
      <4> QED BY <3>1, <4>5, <4>6 DEF u
    <3>3. Head(queue).seq \in Seqs(journal)
      BY <3>2 DEF OrderInv, BufferedLines, Seqs
    <3> QED BY <1>1, <3>1, <3>2, <3>3 DEF OrderInv, BufferedLines, Seqs
  <2>2. CASE MarkProcessed \/ MarkInvalidated \/ MarkSaveFails
    <3>1. queue' = queue /\ (pending' = 0 \/ pending' = pending)
      BY <2>2 DEF MarkProcessed, MarkInvalidated, MarkSaveFails, bufferVars, consumerVars
    <3> QED BY <1>1, <3>1 DEF OrderInv, BufferedLines, Seqs
  <2> QED BY <2>1, <2>2 DEF Consume
<1> QED BY <1>3, <1>5, <1>6 DEF OrderInv

\* No batch is in the hands of a suspended loop when the cursor is set.
NoBatchIsStale == ObserversYield => Cursors = {}

\* set_cursor starts anew from its cursor.
LEMMA OrderSeeks ==
  ASSUME NoBatchIsStale, BufferInv, OrderInv, NEW c \in Cursors, SetCursor(c)
  PROVE  OrderInv'
<1>1. /\ cursor' = c /\ nextSeq' = c + 1 /\ pending' = 0 /\ base' = c
      /\ disk' = c \/ faults' = faults + 1
      /\ queue' = << >> /\ handled' = << >>
      /\ UNCHANGED <<journal, loop>>
  BY DEF SetCursor, SavesSought, Fault, loopVars
<1>2. c \in Nat /\ journal \in Seq(Line) /\ faults \in Nat
  BY StreamAssumption DEF BufferInv, Lists, Numbers
<1>3. Sorted(journal)'
  BY <1>1 DEF OrderInv, Sorted
<1>4. HandledSoFar'
  <2>1. Between(journal, c, c + 1) = << >>
    BY <1>2, BetweenNothing
  <2>2. Between(journal, base, nextSeq)' = Between(journal, c, c + 1)
    BY <1>1 DEF Between
  <2> QED BY <1>1, <2>1, <2>2 DEF HandledSoFar
<1>5. Frontier'
  BY <1>1, <1>2 DEF Frontier
<1>6. BufferedLines'
  BY <1>1 DEF BufferedLines, Range
<1>7. BatchFollows'
  BY <1>1 DEF OrderInv, BatchFollows, NoBatchIsStale
<1> QED BY <1>3, <1>4, <1>5, <1>6, <1>7 DEF OrderInv

\* Every step keeps the lines in order.
LEMMA OrderKeeps == NoBatchIsStale /\ BufferInv /\ OrderInv /\ [Next]_vars => OrderInv'
<1> SUFFICES ASSUME NoBatchIsStale, BufferInv, OrderInv, [Next]_vars PROVE OrderInv'
  OBVIOUS
<1>1. CASE UNCHANGED vars
  <2>1. UNCHANGED <<journal, disk, cursor, nextSeq, queue, pending, loop, batch, up, base, handled,
                    faults>>
    BY <1>1 DEF vars, bufferVars, consumerVars, loopVars, boundVars
  <2>2. Frontier' /\ BufferedLines'
    BY <2>1 DEF OrderInv, Frontier, BufferedLines, Seqs
  <2>3. Sorted(journal)' /\ HandledSoFar' /\ BatchFollows'
    BY <2>1 DEF OrderInv, Sorted, HandledSoFar, Between, BatchFollows, Following, CutAt
  <2> QED BY <2>2, <2>3 DEF OrderInv
<1>2. CASE Poll
  BY <1>2, PollFollows, OrderBatch DEF Poll, PollReturns
<1>3. CASE ObserverReturns
  <2>1. batch \in Seq(Line) /\ Following(batch)
    BY <1>3 DEF ObserverReturns, BufferInv, Lists, OrderInv, BatchFollows
  <2> QED BY <1>3, <2>1, OrderBatch DEF ObserverReturns
<1>4. CASE PollEmpty
  BY <1>1, <1>4 DEF PollEmpty
<1>5. CASE Crash \/ Open
  BY <1>5, OrderLives
<1>6. CASE \E s \in Symbols : Append1(s)
  BY <1>6, OrderAppends
<1>7. CASE \/ \E s \in Symbols : Resubscribe(s)
           \/ StartStreaming \/ Stop \/ Cancelled
           \/ CallbacksReturn \/ PollFails \/ ObserverFails \/ LoopEnds
  BY <1>7, OrderControls
<1>8. CASE Consume
  BY <1>8, OrderConsumes
<1>9. CASE \E c \in Cursors : SetCursor(c)
  BY <1>9, OrderSeeks
<1> QED BY <1>1, <1>2, <1>3, <1>4, <1>5, <1>6, <1>7, <1>8, <1>9 DEF Next, TailFollow

\* The second inductive invariant of the stream.
THEOREM OrderInvariant ==
  ASSUME NoBatchIsStale
  PROVE  Spec => [](BufferInv /\ OrderInv)
<1>1. Init => BufferInv /\ OrderInv
  BY BufferStarts, OrderStarts
<1>2. BufferInv /\ OrderInv /\ [Next]_vars => BufferInv' /\ OrderInv'
  BY BufferKeeps, OrderKeeps
<1> QED BY <1>1, <1>2, PTL DEF Spec

\* The loop handles exactly the lines from the cursor on, each once and in the order
\* of the journal, through failed polls, observers and saves, those of set_cursor
\* included, cancellations and restarts, unless set_cursor is called while an observer
\* suspends the loop.
THEOREM HandledWithoutGap ==
  ASSUME NoBatchIsStale
  PROVE  Spec => []HandledFromCursor
<1>1. OrderInv => HandledFromCursor
  BY DEF OrderInv, HandledSoFar, Between, HandledFromCursor
<1> QED BY <1>1, OrderInvariant, PTL

\* set_cursor leaves no stale tick in the buffer, under the same condition.
THEOREM BufferIsFresh ==
  ASSUME NoBatchIsStale
  PROVE  Spec => []NoStaleTicks
<1>1. BufferInv /\ OrderInv => NoStaleTicks
  <2> SUFFICES ASSUME BufferInv, OrderInv, NEW k \in DOMAIN queue PROVE queue[k].seq > base
    BY DEF NoStaleTicks
  <2>1. queue[k] \in Range(queue)
    BY DEF Range
  <2>2. queue[k].seq \in Nat /\ base \in Nat
    BY LinesAreRecords DEF BufferInv, Lists, Numbers
  <2> QED BY <2>1, <2>2 DEF OrderInv, BufferedLines
<1> QED BY <1>1, OrderInvariant, PTL

-----------------------------------------------------------------------------
(* What is settled *)

\* A number that no line has, and none will have.
Gap(n) == n \notin Seqs(journal) /\ \E i \in 1 .. Len(journal) : n < journal[i].seq

\* Everything up to m is settled.
SettledTo(m) == \A n \in 1 .. m : n \in done \/ Gap(n)

\* A number is settled or on its way to be.
Accounted(n) == n \in done \cup Seqs(queue) \cup {pending} \/ Gap(n)

\* No line is passed over: what the loop has handled since the cursor was loaded or
\* set is accounted for.  The third inductive invariant.
CoveredInv == \A n \in base + 1 .. nextSeq - 1 : Accounted(n)

\* A gap stays a gap, and what is done stays done.
LEMMA SettledStays ==
  ASSUME BufferInv, [Next]_vars
  PROVE  done \subseteq done' /\ \A n \in Nat : Gap(n) => Gap(n)'
<1>1. CASE \E s \in Symbols : Append1(s)
  <2>1. PICK s \in Symbols, gap \in 0 .. 1 :
          /\ journal' = Append(journal, [seq |-> Tip + gap + 1, symbol |-> s])
          /\ UNCHANGED done
    BY <1>1 DEF Append1
  <2> DEFINE x == [seq |-> Tip + gap + 1, symbol |-> s]
  <2>2. journal \in Seq(Line) /\ Tip \in Nat /\ \A i \in 1 .. Len(journal) : journal[i].seq <= Tip
    BY TipIs DEF BufferInv, Lists
  <2>3. x \in Line /\ x.seq = Tip + gap + 1
    BY <2>2 DEF Line
  <2> HIDE DEF x
  <2>4. journal' = Append(journal, x)
    BY <2>1 DEF x
  <2>5. /\ journal' \in Seq(Line) /\ Len(journal') = Len(journal) + 1 /\ Len(journal) \in Nat
        /\ journal'[Len(journal) + 1] = x /\ \A i \in 1 .. Len(journal) : journal'[i] = journal[i]
    BY <2>2, <2>3, <2>4, AppendProperties
  <2>6. \A i \in 1 .. Len(journal') : i \in 1 .. Len(journal) \/ journal'[i] = x
    BY <2>5
  <2>7. Seqs(journal) = {journal[i].seq : i \in 1 .. Len(journal)}
        /\ \A i \in 1 .. Len(journal) : journal[i].seq \in Nat
    BY <2>2, LinesAreRecords
  <2>8. Seqs(journal)' = {journal'[i].seq : i \in 1 .. Len(journal')}
    <3>1. Range(journal') = {journal'[i] : i \in 1 .. Len(journal')}
      BY <2>5, RangeEquality
    <3> QED BY <3>1 DEF Seqs
  <2>9. ASSUME NEW n \in Nat, Gap(n) PROVE Gap(n)'
    <3>1. PICK i \in 1 .. Len(journal) : n < journal[i].seq
      BY <2>9 DEF Gap
    <3>2. n # x.seq
      BY <2>2, <2>3, <2>7, <3>1
    <3>3. n \notin Seqs(journal)'
      BY <2>5, <2>6, <2>7, <2>8, <2>9, <3>2 DEF Gap
    <3>4. i \in 1 .. Len(journal') /\ n < journal'[i].seq
      BY <2>5, <3>1
    <3> QED BY <3>3, <3>4 DEF Gap
  <2> QED BY <2>1, <2>9
<1>2. CASE UNCHANGED vars
  BY <1>2 DEF vars, Gap, Seqs
<1>3. CASE Poll \/ ObserverReturns
  <2>1. UNCHANGED journal /\ \E b : b \in Seq(Line) /\ Batch(b)
    BY <1>3, UnreadIs DEF Poll, PollReturns, ObserverReturns, BufferInv, Lists
  <2>2. done \subseteq done'
    <3>1. \E b : Handle(b)
      BY <2>1 DEF Batch, BatchDone, BatchSuspended, ObserverRaises, CursorSaveFails
    <3> QED BY <3>1 DEF Handle
  <2> QED BY <2>1, <2>2 DEF Gap, Seqs
<1>4. CASE Consume
  BY <1>4 DEF Consume, WaitForNextTick, MarkProcessed, MarkInvalidated, MarkSaveFails, Gap, Seqs
<1>5. CASE \E c \in Cursors : SetCursor(c)
  BY <1>5 DEF SetCursor, Gap, Seqs
<1>6. CASE \/ \E s \in Symbols : Resubscribe(s)
           \/ Crash \/ Open \/ StartStreaming \/ Stop \/ Cancelled
           \/ CallbacksReturn \/ PollFails \/ ObserverFails \/ LoopEnds
  BY <1>6 DEF Resubscribe, Crash, Open, StartStreaming, Stop, Cancelled, CallbacksReturn, PollFails,
              ObserverFails, LoopEnds, Gap, Seqs
<1>7. CASE PollEmpty
  BY <1>2, <1>7 DEF PollEmpty
<1> QED BY <1>1, <1>2, <1>3, <1>4, <1>5, <1>6, <1>7 DEF Next, TailFollow

\* What is accounted for stays so while the buffer keeps its lines and the pending
\* tick is not taken away.
LEMMA AccountedStays ==
  ASSUME BufferInv, [Next]_vars, NEW n \in Nat, Accounted(n),
         Seqs(queue) \subseteq Seqs(queue)' \cup done' \cup {pending'},
         pending \in done' \cup {pending'} \/ n # pending
  PROVE  Accounted(n)'
  BY SettledStays DEF Accounted

\* A batch passes over no line.
LEMMA CoveredBatch ==
  ASSUME BufferInv, OrderInv, CoveredInv, [Next]_vars,
         NEW b \in Seq(Line), Following(b), Batch(b), UNCHANGED <<journal, base, pending>>
  PROVE  CoveredInv'
<1>1. /\ journal \in Seq(Line) /\ queue \in Seq(Line) /\ handled \in Seq(Line) /\ cursor \in Nat
      /\ nextSeq \in Nat \ {0} /\ done \subseteq Nat \ {0} /\ unfinished \in Int /\ base \in Nat
      /\ disk \in Nat /\ errors \in Nat /\ stopped \in BOOLEAN /\ faults \in Nat /\ pending \in Nat
  BY DEF BufferInv, Lists, Numbers, Flags
<1>2. PICK k \in 0 .. Len(b) : (k = 0 => b = << >>) /\ Handle(Until(b, k))
  BY <1>1, BatchShape
<1> DEFINE u == Until(b, k)
<1>3. /\ nextSeq' \in Nat /\ nextSeq <= nextSeq'
      /\ nextSeq' = nextSeq \/ \E i \in 1 .. Len(journal) : nextSeq' = journal[i].seq + 1
      /\ \A i \in 1 .. Len(journal) :
           nextSeq <= journal[i].seq /\ journal[i].seq < nextSeq'
             => \E j \in 1 .. k : journal[i] = b[j]
  BY <1>2, Advance
<1>4. u \in Seq(Line) /\ Len(u) = k /\ \A i \in 1 .. k : u[i] = b[i]
  BY PrefixIs
<1>5. /\ Taken(u) \in Seq(Line)
      /\ queue' = queue \o Taken(u) /\ done' = done \cup (Seqs(u) \ Seqs(Taken(u)))
  BY <1>1, <1>2, <1>4, HandleIs
<1>6. Range(u) = {u[i] : i \in 1 .. k}
  BY <1>4, RangeEquality
<1> HIDE DEF u
<1>7. Seqs(queue)' = Seqs(queue) \cup Seqs(Taken(u))
  <2>1. Range(queue') = Range(queue) \cup Range(Taken(u))
    BY <1>1, <1>5, RangeConcatenation
  <2> QED BY <2>1 DEF Seqs
<1>8. \A i \in 1 .. Len(journal) : journal[i].seq \in Nat /\ journal[i].seq \in Seqs(journal)
  BY <1>1, LinesAreRecords
<1> SUFFICES ASSUME NEW n \in base + 1 .. nextSeq' - 1 PROVE Accounted(n)'
  BY DEF CoveredInv
<1>9. n \in Nat /\ n < nextSeq'
  <2>1. PICK m \in Nat : m = nextSeq'
    BY <1>3
  <2>2. n \in base + 1 .. m - 1 /\ base \in Nat
    BY <1>1, <2>1
  <2>3. n \in Nat /\ n < m
    BY <2>2
  <2> QED BY <2>1, <2>3
<1>10. CASE n < nextSeq
  <2>1. Accounted(n)
    BY <1>1, <1>9, <1>10 DEF CoveredInv
  <2> QED BY <1>7, <1>9, <2>1, AccountedStays
<1>11. CASE ~(n < nextSeq) /\ n \in Seqs(journal)
  <2>0. Seqs(journal) = {journal[i].seq : i \in 1 .. Len(journal)}
    BY <1>1, LinesAreRecords
  <2>1. PICK i \in 1 .. Len(journal) : n = journal[i].seq
    BY <1>11, <2>0
  <2>2. nextSeq <= journal[i].seq /\ journal[i].seq < nextSeq'
    BY <1>1, <1>3, <1>9, <1>11, <2>1
  <2>3. journal[i] \in Range(u)
    BY <1>3, <1>4, <1>6, <2>2
  <2>4. n \in Seqs(u)
    BY <2>1, <2>3 DEF Seqs
  <2> QED BY <1>5, <1>7, <2>4 DEF Accounted
<1>12. CASE ~(n < nextSeq) /\ n \notin Seqs(journal)
  <2>0. nextSeq' # nextSeq
    BY <1>9, <1>12
  <2>1. PICK i \in 1 .. Len(journal) : nextSeq' = journal[i].seq + 1
    BY <1>3, <2>0
  <2>2. n < journal[i].seq
    BY <1>3, <1>8, <1>9, <1>12, <2>1
  <2> QED BY <1>12, <2>2 DEF Accounted, Gap, Seqs
<1> QED BY <1>10, <1>11, <1>12

\* No step passes over a line.
LEMMA CoveredKeeps == BufferInv /\ OrderInv /\ CoveredInv /\ [Next]_vars => CoveredInv'
<1> SUFFICES ASSUME BufferInv, OrderInv, CoveredInv, [Next]_vars PROVE CoveredInv'
  OBVIOUS
<1>1. base \in Nat /\ nextSeq \in Nat /\ queue \in Seq(Line) /\ pending \in Nat /\ held \in Nat
  BY DEF BufferInv, Lists, Numbers
<1>2. \A n \in base + 1 .. nextSeq - 1 : n \in Nat /\ n # 0 /\ Accounted(n)
  BY <1>1 DEF CoveredInv
<1>3. CASE UNCHANGED <<nextSeq, base, queue, pending>>
  <2>1. \A n \in base + 1 .. nextSeq - 1 : Accounted(n)'
    BY <1>2, <1>3, AccountedStays DEF Seqs
  <2> QED BY <1>3, <2>1 DEF CoveredInv
<1>4. CASE Poll
  <2>1. Unread(nextSeq) \in Seq(Line) /\ Following(Unread(nextSeq)) /\ Batch(Unread(nextSeq))
        /\ UNCHANGED <<journal, base, pending>>
    BY <1>4, PollFollows DEF Poll, PollReturns, consumerVars
  <2> QED BY <2>1, CoveredBatch
<1>5. CASE ObserverReturns
  <2>1. batch \in Seq(Line) /\ Following(batch) /\ Batch(batch) /\ UNCHANGED <<journal, base, pending>>
    BY <1>5 DEF ObserverReturns, consumerVars, BufferInv, Lists, OrderInv, BatchFollows
  <2> QED BY <2>1, CoveredBatch
<1>6. CASE Crash \/ Open \/ \E c \in Cursors : SetCursor(c)
  <2>1. PICK c \in Nat : base' = c /\ nextSeq' = c + 1
    BY <1>6, StreamAssumption DEF Crash, Open, Fresh, SetCursor, BufferInv, Numbers
  <2>2. base' + 1 .. nextSeq' - 1 = {}
    BY <2>1
  <2> QED BY <2>2 DEF CoveredInv
<1>7. CASE WaitForNextTick
  <2>1. /\ queue # << >> /\ queue' = Tail(queue) /\ pending' = Head(queue).seq
        /\ done' = done \cup ({pending} \ {0}) /\ UNCHANGED <<nextSeq, base>>
    BY <1>7 DEF WaitForNextTick
  <2>2. pending = 0 \/ pending \in done'
    BY <2>1
  <2>3. Seqs(queue) \subseteq Seqs(queue)' \cup {pending'}
    <3>1. /\ Tail(queue) \in Seq(Line) /\ Len(Tail(queue)) = Len(queue) - 1 /\ Len(queue) \in Nat
          /\ \A i \in 1 .. Len(Tail(queue)) : Tail(queue)[i] = queue[i + 1]
          /\ Head(queue) = queue[1]
      BY <1>1, <2>1, HeadTailProperties
    <3> DEFINE v == Tail(queue)
    <3>2. Range(queue) = {queue[i] : i \in 1 .. Len(queue)} /\ Range(v) = {v[i] : i \in 1 .. Len(v)}
      BY <1>1, <3>1, RangeEquality
    <3>3. \A i \in 1 .. Len(queue) : i = 1 \/ (i - 1 \in 1 .. Len(v) /\ (i - 1) + 1 = i)
      BY <3>1
    <3>4. queue' = v
      BY <2>1
    <3>5. \A i \in 1 .. Len(v) : v[i] = queue[i + 1]
      BY <3>1
    <3> HIDE DEF v
    <3>6. \A l \in Range(queue) : l = Head(queue) \/ l \in Range(v)
      <4> SUFFICES ASSUME NEW i \in 1 .. Len(queue) PROVE queue[i] = Head(queue) \/ queue[i] \in Range(v)
        BY <3>2
      <4>1. CASE i = 1
        BY <3>1, <4>1
      <4>2. CASE i # 1
        <5>1. i - 1 \in 1 .. Len(v) /\ (i - 1) + 1 = i
          BY <3>3, <4>2
        <5>2. v[i - 1] = queue[i]
          BY <3>5, <5>1
        <5> QED BY <3>2, <5>1, <5>2
      <4> QED BY <4>1, <4>2
    <3> QED BY <2>1, <3>4, <3>6 DEF Seqs
  <2>4. \A n \in base + 1 .. nextSeq - 1 : Accounted(n)'
    <3> SUFFICES ASSUME NEW n \in base + 1 .. nextSeq - 1 PROVE Accounted(n)'
      OBVIOUS
    <3>1. n \in Nat /\ Accounted(n) /\ (n # pending \/ pending \in done')
      BY <1>2, <2>2
    <3>2. Seqs(queue) \subseteq Seqs(queue)' \cup done' \cup {pending'}
      BY <2>3
    <3> QED BY <3>1, <3>2, AccountedStays
  <2> QED BY <2>1, <2>4 DEF CoveredInv
<1>8. CASE MarkProcessed
  <2>1. done' = done \cup {pending} /\ UNCHANGED <<queue, nextSeq, base>>
    BY <1>8 DEF MarkProcessed
  <2>2. \A n \in base + 1 .. nextSeq - 1 : Accounted(n)'
    BY <1>2, <2>1, AccountedStays DEF Seqs
  <2> QED BY <2>1, <2>2 DEF CoveredInv
<1>10. CASE MarkSaveFails
  <2>1. UNCHANGED <<queue, nextSeq, base, pending>>
    BY <1>10 DEF MarkSaveFails, bufferVars
  <2> QED BY <1>3, <2>1
<1>9. CASE \/ \E s \in Symbols : Append1(s) \/ Resubscribe(s)
           \/ StartStreaming \/ Stop \/ Cancelled \/ PollEmpty
           \/ CallbacksReturn \/ PollFails \/ ObserverFails \/ LoopEnds
           \/ MarkInvalidated
           \/ UNCHANGED vars
  BY <1>3, <1>9 DEF Append1, Resubscribe, StartStreaming, Stop, Cancelled, PollEmpty,
         CallbacksReturn, PollFails, ObserverFails, LoopEnds, MarkInvalidated,
         vars, bufferVars, consumerVars
<1> QED BY <1>4, <1>5, <1>6, <1>7, <1>8, <1>9, <1>10 DEF Next, TailFollow, Consume

\* In its first life the process has settled what is before the cursor it started from
\* or was set to.  With the bounds of the journal's first life it never ends.
FirstLife == up /\ lives = 1 /\ SettledTo(base)

\* Only the end of the process takes that back.
LEMMA FirstLifeKeeps == MaxLives <= 1 /\ BufferInv /\ FirstLife /\ [Next]_vars => FirstLife'
<1> SUFFICES ASSUME MaxLives <= 1, BufferInv, FirstLife, [Next]_vars PROVE FirstLife'
  OBVIOUS
<1>1. ~Crash /\ ~Open
  BY StreamAssumption DEF Crash, Open, FirstLife
<1>2. UNCHANGED <<up, lives>>
  BY <1>1 DEF Next, Append1, Resubscribe, StartStreaming, Stop, Cancelled, TailFollow,
         CallbacksReturn, Poll, PollReturns, PollEmpty, PollFails, ObserverReturns, ObserverFails,
         LoopEnds, Consume, WaitForNextTick, MarkProcessed, MarkInvalidated, MarkSaveFails,
         SetCursor, vars, boundVars
<1>3. base \in Nat
  BY DEF BufferInv, Numbers
<1>4. SettledTo(base)'
  <2>1. CASE UNCHANGED base
    <3> SUFFICES ASSUME NEW n \in 1 .. base PROVE n \in done' \/ Gap(n)'
      BY <2>1 DEF SettledTo
    <3>1. n \in Nat /\ (n \in done \/ Gap(n))
      BY <1>3 DEF FirstLife, SettledTo
    <3> QED BY <3>1, SettledStays
  <2>2. CASE \E c \in Cursors : SetCursor(c)
    BY <2>2 DEF SetCursor, SettledTo
  <2> QED BY <1>1, <2>1, <2>2 DEF Next, Append1, Resubscribe, StartStreaming, Stop, Cancelled,
         TailFollow, CallbacksReturn, Poll, PollReturns, PollEmpty, PollFails, ObserverReturns,
         ObserverFails, LoopEnds, Consume, WaitForNextTick, MarkProcessed, MarkInvalidated,
         MarkSaveFails, vars
<1> QED BY <1>2, <1>4 DEF FirstLife

\* The third inductive invariant of the stream.
THEOREM CoveredInvariant ==
  ASSUME NoBatchIsStale
  PROVE  Spec => [](BufferInv /\ OrderInv /\ CoveredInv)
<1>1. Init => BufferInv /\ OrderInv /\ CoveredInv
  <2>1. Init => CoveredInv
    <3> SUFFICES ASSUME Init PROVE CoveredInv
      OBVIOUS
    <3>1. base + 1 .. nextSeq - 1 = {}
      BY DEF Init
    <3> QED BY <3>1 DEF CoveredInv
  <2> QED BY <2>1, BufferStarts, OrderStarts
<1>2. BufferInv /\ OrderInv /\ CoveredInv /\ [Next]_vars => BufferInv' /\ OrderInv' /\ CoveredInv'
  BY BufferKeeps, OrderKeeps, CoveredKeeps
<1> QED BY <1>1, <1>2, PTL DEF Spec

\* In every life of the process, a line that the loop is past is settled, in the
\* buffer or in the hands of the consumer, whatever failed, was cancelled or restarted.
THEOREM NothingIsPassedOver ==
  ASSUME NoBatchIsStale
  PROVE  Spec => [](\A n \in Seqs(journal) :
                      base < n /\ n < nextSeq => n \in done \cup Seqs(queue) \cup {held})
<1> DEFINE Kept == \A n \in Seqs(journal) :
                     base < n /\ n < nextSeq => n \in done \cup Seqs(queue) \cup {held}
<1>1. BufferInv /\ CoveredInv => Kept
  <2> SUFFICES ASSUME BufferInv, CoveredInv, NEW n \in Seqs(journal), base < n, n < nextSeq
               PROVE  n \in done \cup Seqs(queue) \cup {held}
    OBVIOUS
  <2>1. base \in Nat /\ nextSeq \in Nat /\ n \in Nat \ {0} /\ pending \in Nat
    BY LinesAreRecords DEF BufferInv, Lists, Numbers
  <2>2. Accounted(n)
    BY <2>1 DEF CoveredInv
  <2>3. n = pending => n = held \/ n \in done
    BY <2>1 DEF BufferInv, Slots
  <2> QED BY <2>2, <2>3 DEF Accounted, Gap
<1> QED BY <1>1, CoveredInvariant, PTL

\* In a process that is not restarted, and where no suspended loop holds a batch while
\* the cursor is set, the saved cursor has passed no line that is not settled, in the
\* buffer or in the hands of the consumer, or, after a rewind that could not save its
\* cursor, ahead of the loop, which reads it again.
THEOREM NothingPassedIsLost ==
  ASSUME NoBatchIsStale, MaxLives <= 1
  PROVE  Spec => []PassedIsBuffered
<1>1. Init => FirstLife
  BY DEF Init, FirstLife, SettledTo
<1>2. BufferInv /\ FirstLife /\ [Next]_vars => FirstLife'
  BY FirstLifeKeeps
<1>3. BufferInv /\ OrderInv /\ CoveredInv /\ FirstLife => PassedIsBuffered
  <2> SUFFICES ASSUME BufferInv, OrderInv, CoveredInv, FirstLife, NEW n \in Seqs(journal), n <= disk,
                      ~(faults > 0 /\ n >= nextSeq)
               PROVE  n \in done \cup Seqs(queue) \cup {held}
    BY DEF PassedIsBuffered
  <2>1. /\ base \in Nat /\ nextSeq \in Nat /\ n \in Nat \ {0} /\ pending \in Nat
        /\ disk \in Nat /\ cursor \in Nat /\ faults \in Nat
    BY LinesAreRecords DEF BufferInv, Lists, Numbers
  <2>2. n < nextSeq
    BY <2>1 DEF OrderInv, Frontier, FirstLife
  <2>3. CASE n <= base
    <3>1. n \in 1 .. base
      BY <2>1, <2>3
    <3> QED BY <3>1 DEF FirstLife, SettledTo, Gap
  <2>4. CASE ~(n <= base)
    <3>1. Accounted(n)
      BY <2>1, <2>2, <2>4 DEF CoveredInv
    <3>2. n = pending => n = held \/ n \in done
      BY <2>1 DEF BufferInv, Slots
    <3> QED BY <3>1, <3>2 DEF Accounted, Gap
  <2> QED BY <2>3, <2>4
<1> QED BY <1>1, <1>2, <1>3, CoveredInvariant, PTL DEF Spec

-----------------------------------------------------------------------------
(* The promise of TickDelivery *)

\* The consumer gets the lines in their order.
InOrder ==
    /\ \A i, j \in 1 .. Len(queue) : i < j => queue[i].seq < queue[j].seq
    /\ pending > 0 => \A i \in 1 .. Len(queue) : pending < queue[i].seq

\* The journal stays within its bound.
WithinBound == \A i \in 1 .. Len(journal) : journal[i].seq <= MaxSeq

\* All lines are wanted.
AllWanted == symbols \in {{}, Symbols}

\* The fourth inductive invariant, for a stream that wants all lines: they reach the
\* consumer in order, and what is before the base and the saved cursor is settled.
DeliveryInv ==
    /\ AllWanted /\ WithinBound /\ InOrder
    /\ SettledTo(base) /\ SettledTo(disk)
    /\ up \/ pending = 0

\* The symbols stay as they are given to the constructor, and they are all of them.
WantsAll == InitialSymbols \in {{}, Symbols} /\ ~Resubscribes

\* A stream that wants all lines takes all of them, and its cursor follows the
\* consumer alone.
LEMMA AllAreTaken ==
  ASSUME cursor \in Nat, AllWanted, NEW b \in Seq(Line)
  PROVE  Taken(b) = b /\ CursorThrough(b) = cursor
<1>1. \A i \in 1 .. Len(b) : Subscribed(b[i])
  BY LinesAreRecords DEF AllWanted, Subscribed
<1>2. \A l \in Range(b) : Subscribed(l)
  BY LinesAreRecords DEF AllWanted, Subscribed, Line
<1>3. Taken(b) = b
  BY <1>2, SelectedAll DEF Taken
<1> QED BY <1>1, <1>3, CursorThroughIs

\* A batch settles nothing and queues its lines in order.
LEMMA DeliveryBatch ==
  ASSUME BufferInv, OrderInv, DeliveryInv, NEW b \in Seq(Line), Following(b), Batch(b),
         UNCHANGED <<journal, base, pending>>
  PROVE  UNCHANGED <<disk, done, cursor>> /\ InOrder'
<1>1. /\ journal \in Seq(Line) /\ queue \in Seq(Line) /\ handled \in Seq(Line) /\ cursor \in Nat
      /\ nextSeq \in Nat \ {0} /\ done \subseteq Nat \ {0} /\ unfinished \in Int /\ base \in Nat
      /\ disk \in Nat /\ errors \in Nat /\ stopped \in BOOLEAN /\ faults \in Nat /\ pending \in Nat
  BY DEF BufferInv, Lists, Numbers, Flags
<1>2. PICK k \in 0 .. Len(b) :
        /\ k = 0 => b = << >>
        /\ Handle(Until(b, k))
        /\ UNCHANGED disk \/ (disk' \in Nat /\ cursor < disk' /\ disk' <= cursor')
  BY <1>1, BatchShape
<1> DEFINE u == Until(b, k)
<1>3. u \in Seq(Line) /\ Len(u) = k /\ \A i \in 1 .. k : u[i] = b[i]
  BY PrefixIs
<1>4. Taken(u) = u /\ CursorThrough(u) = cursor
  BY <1>1, <1>3, AllAreTaken DEF DeliveryInv
<1>5. /\ queue' = queue \o u /\ cursor' = cursor /\ done' = done \cup (Seqs(u) \ Seqs(u))
  <2>1. /\ queue' = queue \o Taken(u) /\ cursor' = CursorThrough(u)
        /\ done' = done \cup (Seqs(u) \ Seqs(Taken(u)))
    BY <1>1, <1>2, <1>3, HandleIs
  <2> HIDE DEF u
  <2> QED BY <1>4, <2>1
<1>6. UNCHANGED <<disk, done, cursor>>
  BY <1>1, <1>2, <1>5
<1>7. \A i \in 1 .. k : nextSeq <= b[i].seq /\ b[i].seq \in Nat
  <2>1. \A i \in 1 .. k : nextSeq <= b[i].seq
    BY <1>2, Advance
  <2>2. \A i \in 1 .. k : i \in 1 .. Len(b)
    OBVIOUS
  <2> QED BY <2>1, <2>2, LinesAreRecords
<1>8. \A i, j \in 1 .. k : i < j => b[i].seq < b[j].seq
  <2>1. PICK p \in 0 .. Len(journal) :
          /\ p + Len(b) <= Len(journal)
          /\ \A i \in 1 .. Len(b) : b[i] = journal[p + i]
    BY DEF Following
  <2> SUFFICES ASSUME NEW i \in 1 .. k, NEW j \in 1 .. k, i < j PROVE b[i].seq < b[j].seq
    OBVIOUS
  <2>2. Len(journal) \in Nat /\ Len(b) \in Nat
    BY <1>1
  <2>3. /\ i \in 1 .. Len(b) /\ j \in 1 .. Len(b)
        /\ p + i \in 1 .. Len(journal) /\ p + j \in 1 .. Len(journal) /\ p + i < p + j
    BY <2>1, <2>2
  <2>4. journal[p + i].seq < journal[p + j].seq
    BY <2>3 DEF OrderInv, Sorted
  <2> QED BY <2>1, <2>3, <2>4
<1>9. \A i \in 1 .. Len(queue) : queue[i].seq < nextSeq /\ queue[i].seq \in Nat
  <2>1. \A i \in 1 .. Len(queue) : queue[i] \in Range(queue) /\ queue[i].seq \in Nat
    BY <1>1, LinesOf
  <2> QED BY <2>1 DEF OrderInv, BufferedLines
<1> HIDE DEF u
<1>10. /\ Len(queue') = Len(queue) + k /\ Len(queue) \in Nat /\ k \in Nat
       /\ \A i \in 1 .. Len(queue) + k :
            queue'[i] = IF i <= Len(queue) THEN queue[i] ELSE u[i - Len(queue)]
  <2> DEFINE v == queue \o u
  <2>1. /\ Len(v) = Len(queue) + Len(u)
        /\ \A i \in 1 .. Len(queue) + Len(u) :
             v[i] = IF i <= Len(queue) THEN queue[i] ELSE u[i - Len(queue)]
    BY <1>1, <1>3, ConcatProperties
  <2>2. Len(queue) \in Nat /\ k \in Nat
    BY <1>1
  <2>3. queue' = v
    BY <1>5
  <2> HIDE DEF v
  <2>4. Len(u) = k
    BY <1>3
  <2> QED BY <2>1, <2>2, <2>3, <2>4
<1>11. \A i \in 1 .. Len(queue') :
         \/ i \in 1 .. Len(queue) /\ queue'[i] = queue[i]
         \/ i > Len(queue) /\ i - Len(queue) \in 1 .. k /\ queue'[i] = b[i - Len(queue)]
  <2> SUFFICES ASSUME NEW i \in 1 .. Len(queue')
               PROVE  \/ i \in 1 .. Len(queue) /\ queue'[i] = queue[i]
                      \/ i > Len(queue) /\ i - Len(queue) \in 1 .. k /\ queue'[i] = b[i - Len(queue)]
    OBVIOUS
  <2>1. CASE i <= Len(queue)
    BY <1>10, <2>1
  <2>2. CASE ~(i <= Len(queue))
    <3>1. i > Len(queue) /\ i - Len(queue) \in 1 .. k
      BY <1>10, <2>2
    <3> QED BY <1>3, <1>10, <2>2, <3>1
  <2> QED BY <2>1, <2>2
<1>12. ASSUME NEW i \in 1 .. Len(queue'), NEW j \in 1 .. Len(queue'), i < j
       PROVE  queue'[i].seq < queue'[j].seq
  <2>1. CASE i \in 1 .. Len(queue) /\ queue'[i] = queue[i]
    <3>1. CASE j \in 1 .. Len(queue) /\ queue'[j] = queue[j]
      BY <1>12, <2>1, <3>1 DEF DeliveryInv, InOrder
    <3>2. CASE j - Len(queue) \in 1 .. k /\ queue'[j] = b[j - Len(queue)]
      <4>1. queue'[i].seq < nextSeq /\ queue'[i].seq \in Nat
        BY <1>9, <2>1
      <4>2. nextSeq <= queue'[j].seq /\ queue'[j].seq \in Nat
        BY <1>7, <3>2
      <4> QED BY <1>1, <4>1, <4>2
    <3> QED BY <1>11, <3>1, <3>2
  <2>2. CASE i > Len(queue) /\ i - Len(queue) \in 1 .. k /\ queue'[i] = b[i - Len(queue)]
    <3>1. j - Len(queue) \in 1 .. k /\ queue'[j] = b[j - Len(queue)] /\ i - Len(queue) < j - Len(queue)
      BY <1>10, <1>11, <1>12, <2>2
    <3> QED BY <1>8, <2>2, <3>1
  <2> QED BY <1>11, <2>1, <2>2
<1>13. ASSUME pending > 0, NEW i \in 1 .. Len(queue') PROVE pending < queue'[i].seq
  <2>1. CASE i \in 1 .. Len(queue) /\ queue'[i] = queue[i]
    BY <1>13, <2>1 DEF DeliveryInv, InOrder
  <2>2. CASE i - Len(queue) \in 1 .. k /\ queue'[i] = b[i - Len(queue)]
    <3>1. pending < nextSeq
      BY <1>13 DEF OrderInv, BufferedLines
    <3>2. nextSeq <= queue'[i].seq /\ queue'[i].seq \in Nat
      BY <1>7, <2>2
    <3> QED BY <1>1, <3>1, <3>2
  <2> QED BY <1>11, <2>1, <2>2
<1>14. InOrder'
  BY <1>12, <1>13 DEF InOrder
<1> QED BY <1>6, <1>14

\* The pending tick comes right after what is settled.
LEMMA PendingIsNext ==
  ASSUME BufferInv, OrderInv, CoveredInv, DeliveryInv, pending > 0
  PROVE  /\ pending \in Seqs(journal) /\ pending \in 1 .. MaxSeq
         /\ \A m \in Seqs(journal) : m < pending => m \in done
         /\ \A n \in 1 .. pending : n \in done \cup {pending} \/ Gap(n)
<1>1. /\ journal \in Seq(Line) /\ base \in Nat /\ nextSeq \in Nat /\ pending \in Nat
      /\ queue \in Seq(Line)
  BY DEF BufferInv, Lists, Numbers
<1>2. pending \in Seqs(journal) /\ pending < nextSeq
  BY DEF OrderInv, BufferedLines
<1>3. Seqs(journal) = {journal[i].seq : i \in 1 .. Len(journal)} /\ Seqs(journal) \subseteq Nat \ {0}
      /\ Seqs(queue) = {queue[i].seq : i \in 1 .. Len(queue)} /\ Seqs(queue) \subseteq Nat \ {0}
  BY <1>1, LinesAreRecords
<1>4. pending \in 1 .. MaxSeq
  <2>1. pending <= MaxSeq
    BY <1>2, <1>3 DEF DeliveryInv, WithinBound
  <2> QED BY <1>1, <2>1, StreamAssumption
<1>5. ASSUME NEW m \in Seqs(journal), m < pending PROVE m \in done
  <2>1. m \in Nat \ {0}
    BY <1>3
  <2>2. CASE m <= base
    <3>1. m \in 1 .. base
      BY <1>1, <2>1, <2>2
    <3> QED BY <3>1 DEF DeliveryInv, SettledTo, Gap
  <2>3. CASE ~(m <= base)
    <3>1. Accounted(m)
      BY <1>1, <1>2, <1>5, <2>1, <2>3 DEF CoveredInv
    <3>2. m \notin Seqs(queue)
      <4>1. \A i \in 1 .. Len(queue) : pending < queue[i].seq
        BY DEF DeliveryInv, InOrder
      <4> QED BY <1>1, <1>3, <1>5, <2>1, <4>1
    <3> QED BY <1>1, <1>5, <2>1, <3>1, <3>2 DEF Accounted, Gap
  <2> QED BY <2>2, <2>3
<1>6. ASSUME NEW n \in 1 .. pending PROVE n \in done \cup {pending} \/ Gap(n)
  <2>1. CASE n \in Seqs(journal)
    <3>1. n = pending \/ n < pending
      BY <1>1
    <3> QED BY <1>5, <2>1, <3>1
  <2>2. CASE n \notin Seqs(journal)
    <3>1. PICK i \in 1 .. Len(journal) : journal[i].seq = pending
      BY <1>2, <1>3
    <3>2. n < journal[i].seq
      BY <1>1, <1>2, <2>2, <3>1
    <3> QED BY <2>2, <3>2 DEF Gap
  <2> QED BY <2>1, <2>2
<1> QED BY <1>2, <1>4, <1>5, <1>6

\* When the consumer is done with the pending tick, the promise settles it.
LEMMA SettlesPending ==
  ASSUME BufferInv, OrderInv, CoveredInv, DeliveryInv, pending > 0,
         done' = done \cup {pending}, UNCHANGED <<journal, up>>,
         \/ UNCHANGED <<cursor, disk>>
         \/ pending > cursor /\ cursor' = pending /\ (disk' = pending \/ disk' = disk)
  PROVE  SettledTo(disk)' /\ \E n \in 1 .. MaxSeq : Delivery!Settle(n)
<1>1. /\ pending \in Seqs(journal) /\ pending \in 1 .. MaxSeq
      /\ \A m \in Seqs(journal) : m < pending => m \in done
      /\ \A n \in 1 .. pending : n \in done \cup {pending} \/ Gap(n)
  BY PendingIsNext
<1>2. up /\ up' /\ cursor \in Nat /\ disk \in Nat /\ pending \in Nat
  BY DEF DeliveryInv, BufferInv, Numbers
<1>3. UNCHANGED Seqs(journal) /\ \A n : Gap(n) => Gap(n)'
  BY DEF Seqs, Gap
<1>4. SettledTo(disk)'
  <2>1. CASE disk' = pending
    BY <1>1, <1>3, <2>1 DEF SettledTo
  <2>2. CASE disk' = disk
    BY <1>2, <1>3, <2>2 DEF DeliveryInv, SettledTo
  <2> QED BY <2>1, <2>2
<1> DEFINE m == IF up THEN cursor ELSE disk
<1>5. m = cursor /\ m' = cursor'
  BY <1>2
<1>6. m' \in {m, pending} /\ m' >= m /\ disk' \in {disk, m'}
  BY <1>2, <1>5
<1>7. Delivery!Settle(pending)
  BY <1>1, <1>3, <1>6 DEF Delivery!Settle
<1> QED BY <1>1, <1>4, <1>7

\* What is settled up to a number that does not change stays so.
LEMMA SettledToStays ==
  ASSUME BufferInv, [Next]_vars, NEW m \in Nat, SettledTo(m)
  PROVE  \A n \in 1 .. m : n \in done' \/ Gap(n)'
  BY SettledStays DEF SettledTo

\* The variables of the promise that no other step touches.
LEMMA OtherSteps ==
  ASSUME \/ \E s \in Symbols : Resubscribe(s)
         \/ StartStreaming \/ Stop \/ Cancelled
         \/ CallbacksReturn \/ PollFails \/ ObserverFails \/ LoopEnds \/ PollEmpty
         \/ MarkInvalidated
         \/ UNCHANGED vars
  PROVE  UNCHANGED <<journal, disk, cursor, done, base, queue, pending, up>>
  BY DEF Resubscribe, StartStreaming, Stop, Cancelled, CallbacksReturn, PollFails,
         ObserverFails, LoopEnds, PollEmpty, MarkInvalidated, vars,
         bufferVars, consumerVars

\* The journal stays within its bound.
LEMMA BoundKeeps ==
  ASSUME BufferInv, WithinBound, NEW s \in Symbols, Append1(s)
  PROVE  /\ WithinBound'
         /\ \E n \in 1 .. MaxSeq : /\ \A m \in Seqs(journal) : m < n
                                   /\ Seqs(journal)' = Seqs(journal) \cup {n}
<1>1. PICK gap \in 0 .. 1 :
        /\ Tip + gap < MaxSeq
        /\ journal' = Append(journal, [seq |-> Tip + gap + 1, symbol |-> s])
  BY DEF Append1
<1> DEFINE x == [seq |-> Tip + gap + 1, symbol |-> s]
<1>2. journal \in Seq(Line) /\ Tip \in Nat /\ \A i \in 1 .. Len(journal) : journal[i].seq <= Tip
  BY TipIs DEF BufferInv, Lists
<1>3. x \in Line /\ x.seq = Tip + gap + 1
  BY <1>2 DEF Line
<1>4. journal' = Append(journal, x)
  BY <1>1
<1> HIDE DEF x
<1>5. /\ journal' \in Seq(Line) /\ Len(journal') = Len(journal) + 1 /\ Len(journal) \in Nat
      /\ journal'[Len(journal) + 1] = x /\ \A i \in 1 .. Len(journal) : journal'[i] = journal[i]
  BY <1>2, <1>3, <1>4, AppendProperties
<1>6. Seqs(journal) = {journal[i].seq : i \in 1 .. Len(journal)}
      /\ \A i \in 1 .. Len(journal) : journal[i].seq \in Nat
  BY <1>2, LinesAreRecords
<1>7. Seqs(journal)' = {journal'[i].seq : i \in 1 .. Len(journal')}
  <2>1. Range(journal') = {journal'[i] : i \in 1 .. Len(journal')}
    BY <1>5, RangeEquality
  <2> QED BY <2>1 DEF Seqs
<1>8. x.seq \in 1 .. MaxSeq /\ \A m \in Seqs(journal) : m < x.seq
  BY <1>1, <1>2, <1>3, <1>6, StreamAssumption
<1>9. \A i \in 1 .. Len(journal') : i \in 1 .. Len(journal) \/ (i = Len(journal) + 1 /\ journal'[i] = x)
  BY <1>5
<1>10. Seqs(journal)' = Seqs(journal) \cup {x.seq}
  <2>1. \A i \in 1 .. Len(journal) : i \in 1 .. Len(journal')
    BY <1>5
  <2>2. Len(journal) + 1 \in 1 .. Len(journal')
    BY <1>5
  <2>3. x.seq \in Seqs(journal)'
    BY <1>5, <1>7, <2>2
  <2>4. Seqs(journal) \subseteq Seqs(journal)'
    BY <1>5, <1>6, <1>7, <2>1
  <2>5. Seqs(journal)' \subseteq Seqs(journal) \cup {x.seq}
    BY <1>5, <1>6, <1>7, <1>9
  <2> QED BY <2>3, <2>4, <2>5
<1>11. WithinBound'
  <2> SUFFICES ASSUME NEW i \in 1 .. Len(journal') PROVE journal'[i].seq <= MaxSeq
    BY DEF WithinBound
  <2>1. CASE i \in 1 .. Len(journal)
    BY <1>5, <2>1 DEF WithinBound
  <2>2. CASE journal'[i] = x
    BY <1>8, <2>2
  <2> QED BY <1>9, <2>1, <2>2
<1> QED BY <1>8, <1>10, <1>11

\* A stream whose symbols nobody changes goes on wanting all lines.
LEMMA WantedKeeps ==
  ASSUME WantsAll, AllWanted, [Next]_vars
  PROVE  AllWanted'
<1>1. symbols' = symbols \/ symbols' = InitialSymbols
  BY DEF WantsAll, Next, Append1, Resubscribe, Crash, Open, Fresh, StartStreaming, Stop, Cancelled,
         TailFollow, CallbacksReturn, Poll, PollReturns, PollEmpty, PollFails, ObserverReturns,
         ObserverFails, LoopEnds, Consume, WaitForNextTick, MarkProcessed, MarkInvalidated,
         MarkSaveFails, SetCursor, vars
<1> QED BY <1>1 DEF AllWanted, WantsAll

\* Every step keeps the invariant, and appends a line, settles the next one, moves the
\* watermark on purpose, or changes nothing that the promise speaks of.
LEMMA DeliverySteps ==
  ASSUME WantsAll, Cursors \subseteq 0 .. MaxSeq,
         BufferInv, OrderInv, CoveredInv, DeliveryInv, [Next]_vars
  PROVE  /\ DeliveryInv'
         /\ [Delivery!Next]_<<Seqs(journal), done, IF up THEN cursor ELSE disk, disk>>
<1>1. /\ journal \in Seq(Line) /\ queue \in Seq(Line) /\ batch \in Seq(Line)
      /\ base \in Nat /\ disk \in Nat /\ pending \in Nat /\ cursor \in Nat
  BY DEF BufferInv, Lists, Numbers
<1>2. AllWanted'
  BY WantedKeeps DEF DeliveryInv
<1>3. ASSUME UNCHANGED base PROVE SettledTo(base)'
  BY <1>1, <1>3, SettledToStays DEF DeliveryInv, SettledTo
<1>4. ASSUME UNCHANGED disk PROVE SettledTo(disk)'
  BY <1>1, <1>4, SettledToStays DEF DeliveryInv, SettledTo
<1>5. ASSUME UNCHANGED journal PROVE WithinBound' /\ UNCHANGED Seqs(journal)
  BY <1>5 DEF DeliveryInv, WithinBound, Seqs
<1>6. CASE \E s \in Symbols : Append1(s)
  <2>1. UNCHANGED <<disk, cursor, done, base, queue, pending, up>>
    BY <1>6 DEF Append1, bufferVars, consumerVars
  <2>2. WithinBound' /\ \E n \in 1 .. MaxSeq : Delivery!Append(n)
    BY <1>6, <2>1, BoundKeeps DEF DeliveryInv, Delivery!Append
  <2>3. InOrder'
    BY <2>1 DEF DeliveryInv, InOrder
  <2>4. DeliveryInv'
    BY <1>2, <1>3, <1>4, <2>1, <2>2, <2>3 DEF DeliveryInv
  <2> QED BY <2>2, <2>4 DEF Delivery!Next
<1>7. CASE Poll \/ ObserverReturns
  <2>1. PICK b \in Seq(Line) : Following(b) /\ Batch(b)
    BY <1>7, PollFollows
       DEF Poll, PollReturns, ObserverReturns, BufferInv, Lists, OrderInv, BatchFollows
  <2>2. UNCHANGED <<journal, base, pending, up>>
    BY <1>7 DEF Poll, PollReturns, ObserverReturns, consumerVars
  <2>3. UNCHANGED <<disk, done, cursor>> /\ InOrder'
    BY <2>1, <2>2, DeliveryBatch
  <2>4. DeliveryInv'
    BY <1>2, <1>3, <1>4, <1>5, <2>2, <2>3 DEF DeliveryInv
  <2> QED BY <1>5, <2>2, <2>3, <2>4
<1>8. CASE Crash \/ Open
  <2>1. UNCHANGED <<journal, disk, done>>
    BY <1>8 DEF Crash, Open
  <2>2. pending' = 0 /\ queue' = << >> /\ (base' = 0 \/ base' = disk)
    BY <1>8 DEF Crash, Open, Fresh
  <2>3. InOrder'
    BY <2>2 DEF InOrder
  <2>4. SettledTo(base)'
    <3>1. CASE base' = 0
      BY <3>1 DEF SettledTo
    <3>2. CASE base' = disk
      BY <1>4, <2>1, <3>2 DEF SettledTo
    <3> QED BY <2>2, <3>1, <3>2
  <2>5. DeliveryInv'
    BY <1>2, <1>4, <1>5, <2>1, <2>2, <2>3, <2>4 DEF DeliveryInv
  <2>6. (IF up THEN cursor ELSE disk)' = disk
    BY <1>8, <2>1 DEF Crash, Open, Fresh
  <2>7. Delivery!Restart
    BY <1>5, <2>1, <2>6 DEF Delivery!Restart
  <2> QED BY <2>5, <2>7 DEF Delivery!Next
<1>9. CASE WaitForNextTick
  <2>1. /\ queue # << >> /\ queue' = Tail(queue) /\ pending' = Head(queue).seq /\ up
        /\ done' = done \cup ({pending} \ {0})
        /\ UNCHANGED <<journal, disk, cursor, base, up>>
    BY <1>9 DEF WaitForNextTick
  <2>2. /\ Len(Tail(queue)) = Len(queue) - 1 /\ Len(queue) \in Nat
        /\ \A i \in 1 .. Len(Tail(queue)) : Tail(queue)[i] = queue[i + 1]
        /\ Head(queue) = queue[1]
    BY <1>1, <2>1, HeadTailProperties
  <2>3. \A i \in 1 .. Len(queue') : /\ queue'[i] = queue[i + 1]
                                    /\ i + 1 \in 1 .. Len(queue) /\ 1 \in 1 .. Len(queue) /\ 1 < i + 1
    BY <2>1, <2>2
  <2>4. InOrder'
    <3>1. ASSUME NEW i \in 1 .. Len(queue'), NEW j \in 1 .. Len(queue'), i < j
          PROVE  queue'[i].seq < queue'[j].seq
      <4>1. i + 1 < j + 1
        BY <3>1, <2>1, <2>2
      <4> QED BY <2>3, <4>1 DEF DeliveryInv, InOrder
    <3>2. ASSUME NEW i \in 1 .. Len(queue') PROVE pending' < queue'[i].seq
      BY <2>1, <2>2, <2>3 DEF DeliveryInv, InOrder
    <3> QED BY <3>1, <3>2 DEF InOrder
  <2>5. DeliveryInv'
    BY <1>2, <1>3, <1>4, <1>5, <2>1, <2>4 DEF DeliveryInv
  <2>6. CASE pending = 0
    BY <1>5, <2>1, <2>5, <2>6
  <2>7. CASE pending > 0
    <3>1. done' = done \cup {pending}
      BY <2>1, <2>7
    <3> QED BY <2>1, <2>5, <2>7, <3>1, SettlesPending DEF Delivery!Next
  <2> QED BY <1>1, <2>6, <2>7
<1>10. CASE MarkProcessed \/ MarkSaveFails
  <2>1. /\ pending > 0 /\ done' = done \cup {pending} /\ UNCHANGED <<journal, base, queue, up>>
        /\ pending' = 0 \/ pending' = pending
        /\ \/ UNCHANGED <<cursor, disk>>
           \/ pending > cursor /\ cursor' = pending /\ (disk' = pending \/ disk' = disk)
    BY <1>1, <1>10 DEF MarkProcessed, MarkSaveFails, bufferVars
  <2>2. SettledTo(disk)' /\ \E n \in 1 .. MaxSeq : Delivery!Settle(n)
    BY <2>1, SettlesPending
  <2>3. InOrder'
    BY <2>1 DEF DeliveryInv, InOrder
  <2>4. up' \/ pending' = 0
    BY <2>1 DEF DeliveryInv
  <2>5. DeliveryInv'
    BY <1>2, <1>3, <1>5, <2>1, <2>2, <2>3, <2>4 DEF DeliveryInv
  <2> QED BY <2>2, <2>5 DEF Delivery!Next
<1>11. CASE \E c \in Cursors : SetCursor(c)
  <2>1. PICK c \in Cursors : SetCursor(c)
    BY <1>11
  <2>2. /\ base' = c /\ cursor' = c /\ (disk' = c \/ disk' = disk)
        /\ queue' = << >> /\ pending' = 0 /\ done' = done \cup 1 .. c
        /\ up /\ UNCHANGED <<journal, up>>
    BY <2>1 DEF SetCursor, SavesSought
  <2>3. InOrder'
    BY <2>2 DEF InOrder
  <2>4. SettledTo(base)' /\ SettledTo(disk)'
    <3>1. \A n \in 1 .. c : n \in done'
      BY <2>2
    <3> QED BY <1>4, <2>2, <3>1 DEF SettledTo
  <2>5. DeliveryInv'
    BY <1>2, <1>5, <2>2, <2>3, <2>4 DEF DeliveryInv
  <2>6. Delivery!Reposition(c) /\ c \in 0 .. MaxSeq
    <3>1. (IF up THEN cursor ELSE disk)' = c
      BY <2>2
    <3> QED BY <1>5, <2>2, <3>1 DEF Delivery!Reposition
  <2> QED BY <2>5, <2>6 DEF Delivery!Next
<1>12. CASE \/ \E s \in Symbols : Resubscribe(s)
            \/ StartStreaming \/ Stop \/ Cancelled
            \/ CallbacksReturn \/ PollFails \/ ObserverFails \/ LoopEnds \/ PollEmpty
            \/ MarkInvalidated
            \/ UNCHANGED vars
  <2>1. UNCHANGED <<journal, disk, cursor, done, base, queue, pending, up>>
    BY <1>12, OtherSteps
  <2>2. InOrder'
    BY <2>1 DEF DeliveryInv, InOrder
  <2>3. DeliveryInv'
    BY <1>2, <1>3, <1>4, <1>5, <2>1, <2>2 DEF DeliveryInv
  <2> QED BY <1>5, <2>1, <2>3
<1> QED BY <1>6, <1>7, <1>8, <1>9, <1>10, <1>11, <1>12 DEF Next, TailFollow, Consume

\* The stream implements TickDelivery when it wants all lines, nobody sets its cursor
\* beyond the bound of the journal, and no suspended loop holds a batch meanwhile: the
\* consumer settles the lines in order, across crashes, restarts, rewinds, failed polls
\* and failed saves, and neither the cursor in memory nor the saved one ever passes a
\* line that is not settled.
THEOREM StreamImplementsTickDelivery ==
  ASSUME NoBatchIsStale, WantsAll, Cursors \subseteq 0 .. MaxSeq
  PROVE  Spec => DeliversInOrder
<1>1. Init => DeliveryInv /\ Delivery!Init
  <2> SUFFICES ASSUME Init PROVE DeliveryInv /\ Delivery!Init
    OBVIOUS
  <2>1. /\ journal = << >> /\ queue = << >> /\ pending = 0 /\ base = 0
        /\ cursor = 0 /\ disk = 0 /\ up = TRUE
        /\ symbols = InitialSymbols /\ done = {}
    BY DEF Init
  <2>2. Seqs(journal) = {}
    BY <2>1 DEF Seqs, Range
  <2> QED BY <2>1, <2>2 DEF DeliveryInv, AllWanted, WantsAll, WithinBound, InOrder, SettledTo,
                            Delivery!Init
<1>2. BufferInv /\ OrderInv /\ CoveredInv /\ DeliveryInv /\ [Next]_vars
        => /\ DeliveryInv'
           /\ [Delivery!Next]_<<Seqs(journal), done, IF up THEN cursor ELSE disk, disk>>
  BY DeliverySteps
<1> QED BY <1>1, <1>2, CoveredInvariant, PTL DEF Spec, DeliversInOrder, Delivery!Spec

=============================================================================
