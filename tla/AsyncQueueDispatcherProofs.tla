---------------------- MODULE AsyncQueueDispatcherProofs ----------------------
(***************************************************************************)
(* Theorems about AsyncQueueDispatcher for every capacity, every number of *)
(* consumers, ticks and time units, and every threshold of its drop log.   *)
(***************************************************************************)
EXTENDS AsyncQueueDispatcher, DataLemmas

-----------------------------------------------------------------------------
(* Queues of ticks *)

Ticks == Nat \ {0}

\* The ticks of q come in the order of their numbers, after lo and up to hi.
Between(q, lo, hi) ==
    /\ \A k \in 1 .. Len(q) : lo < q[k] /\ q[k] <= hi
    /\ \A j, k \in 1 .. Len(q) : j < k => q[j] < q[k]

\* q ends with n and has no hole.
EndsWith(q, n) == \A k \in 1 .. Len(q) : q[k] = n - Len(q) + k

\* What the tail of a queue holds.
LEMMA TailFacts ==
  ASSUME NEW q \in Seq(Ticks), q # << >>
  PROVE  /\ Tail(q) \in Seq(Ticks) /\ Len(Tail(q)) = Len(q) - 1
         /\ \A k \in 1 .. Len(q) - 1 : Tail(q)[k] = q[k + 1]
         /\ Head(q) = q[1] /\ Head(q) \in Ticks /\ Len(q) \in Nat \ {0}
  BY DEF Ticks

\* What a queue with one more tick holds.
LEMMA AppendFacts ==
  ASSUME NEW q \in Seq(Ticks), NEW t \in Ticks
  PROVE  /\ Append(q, t) \in Seq(Ticks) /\ Len(Append(q, t)) = Len(q) + 1
         /\ \A k \in 1 .. Len(q) : Append(q, t)[k] = q[k]
         /\ Append(q, t)[Len(q) + 1] = t
         /\ Len(q) \in Nat
  OBVIOUS

\* A tick that is taken is the earliest, and those behind it are later.
LEMMA TailBetween ==
  ASSUME NEW q \in Seq(Ticks), q # << >>, NEW lo \in Nat, NEW hi \in Nat, Between(q, lo, hi)
  PROVE  /\ Between(Tail(q), Head(q), hi)
         /\ Between(Tail(q), lo, hi)
         /\ lo < Head(q) /\ Head(q) <= hi
<1>1. \A k \in 1 .. Len(q) : q[k] \in Ticks
  OBVIOUS
<1> USE DEF Between, Ticks
<1>2. 1 \in 1 .. Len(q) /\ \A k \in 1 .. Len(q) - 1 : k \in 1 .. Len(q) /\ k + 1 \in 1 .. Len(q) /\ 1 < k + 1
  BY TailFacts
<1>3. lo < Head(q) /\ Head(q) <= hi
  BY <1>2, TailFacts
<1>4. \A k \in 1 .. Len(q) - 1 : Head(q) < Tail(q)[k] /\ lo < Tail(q)[k] /\ Tail(q)[k] <= hi
  BY <1>1, <1>2, TailFacts
<1>5. \A j, k \in 1 .. Len(q) - 1 : j < k => Tail(q)[j] < Tail(q)[k]
  <2> SUFFICES ASSUME NEW j \in 1 .. Len(q) - 1, NEW k \in 1 .. Len(q) - 1, j < k
               PROVE  Tail(q)[j] < Tail(q)[k]
    OBVIOUS
  <2>1. j + 1 \in 1 .. Len(q) /\ k + 1 \in 1 .. Len(q) /\ j + 1 < k + 1
    BY <1>2
  <2>2. q[j + 1] < q[k + 1]
    BY <2>1
  <2> QED BY <2>2, TailFacts
<1> QED BY <1>3, <1>4, <1>5, TailFacts

\* A tick that is put is the latest.
LEMMA AppendBetween ==
  ASSUME NEW q \in Seq(Ticks), NEW lo \in Nat, NEW hi \in Nat, NEW t \in Ticks,
         Between(q, lo, hi), lo <= hi, hi < t
  PROVE  Between(Append(q, t), lo, t)
<1>1. \A k \in 1 .. Len(q) : q[k] \in Ticks
  OBVIOUS
<1>2. \A k \in 1 .. Len(q) + 1 : k \in 1 .. Len(q) \/ k = Len(q) + 1
  BY AppendFacts
<1> USE DEF Between, Ticks
<1>3. \A k \in 1 .. Len(q) + 1 : lo < Append(q, t)[k] /\ Append(q, t)[k] <= t
  BY <1>1, <1>2, AppendFacts
<1>4. \A j, k \in 1 .. Len(q) + 1 : j < k => Append(q, t)[j] < Append(q, t)[k]
  <2> SUFFICES ASSUME NEW j \in 1 .. Len(q) + 1, NEW k \in 1 .. Len(q) + 1, j < k
               PROVE  Append(q, t)[j] < Append(q, t)[k]
    OBVIOUS
  <2>1. j \in 1 .. Len(q)
    BY AppendFacts
  <2>2. CASE k \in 1 .. Len(q)
    BY <2>1, <2>2, AppendFacts
  <2>3. CASE k = Len(q) + 1
    BY <1>1, <2>1, <2>3, AppendFacts
  <2> QED BY <1>2, <2>2, <2>3
<1> QED BY <1>3, <1>4, AppendFacts

\* A queue without a hole keeps its end when a tick is taken, and gets the next
\* end when the next tick is put.
LEMMA EndsWithFacts ==
  ASSUME NEW q \in Seq(Ticks), NEW n \in Nat, EndsWith(q, n)
  PROVE  /\ q # << >> => EndsWith(Tail(q), n)
         /\ EndsWith(Append(q, n + 1), n + 1)
<1> USE DEF EndsWith
<1>1. ASSUME q # << >> PROVE EndsWith(Tail(q), n)
  <2> SUFFICES ASSUME NEW k \in 1 .. Len(q) - 1
               PROVE  Tail(q)[k] = n - (Len(q) - 1) + k
    BY <1>1, TailFacts
  <2>1. k + 1 \in 1 .. Len(q) /\ Tail(q)[k] = q[k + 1]
    BY <1>1, TailFacts
  <2>2. q[k + 1] = n - Len(q) + (k + 1)
    BY <2>1
  <2> QED BY <1>1, <2>1, <2>2, TailFacts
<1>2. EndsWith(Append(q, n + 1), n + 1)
  <2> SUFFICES ASSUME NEW k \in 1 .. Len(q) + 1
               PROVE  Append(q, n + 1)[k] = n + 1 - (Len(q) + 1) + k
    BY AppendFacts DEF Ticks
  <2>1. n + 1 \in Ticks
    BY DEF Ticks
  <2>2. CASE k \in 1 .. Len(q)
    BY <2>1, <2>2, AppendFacts
  <2>3. CASE k = Len(q) + 1
    BY <2>1, <2>3, AppendFacts
  <2> QED BY <2>1, <2>2, <2>3, AppendFacts
<1> QED BY <1>1, <1>2

-----------------------------------------------------------------------------
(* The inductive invariant *)

\* The ticks in the queue are later than every tick taken, in the order of their
\* dispatch, and none is from the future.
Ordered == out <= dispatched /\ Between(queue, out, dispatched)

\* Under DROP_OLDEST the queue ends with the last tick dispatched.
Dense == policy = "drop_oldest" => EndsWith(queue, dispatched)

\* The code's clock of a saturation and the history agree, nothing lies in the
\* future, and a log line that came late in the episode was an ERROR.
Clocked ==
    /\ saturated = starved
    /\ lastLog # None => lastLog <= now
    /\ starved # None => starved <= now /\ lastDrop # None
    /\ lastDrop # None => lastDrop <= now
    /\ starved # None /\ lastLog # None /\ lastLog - starved >= ErrorAfter =>
           alarm = "error"

DispatcherInv ==
    /\ TypeOK /\ JoinCountExact /\ DropsReported
    /\ Ordered /\ Dense /\ Clocked /\ SaturationEscalates

Held == {c \in Consumers : holding[c] > 0}

\* The consumers that hold a tick can be counted.
LEMMA HeldCounts == IsFiniteSet(Held) /\ Cardinality(Held) \in Nat
<1>1. IsFiniteSet(Consumers) /\ Held \subseteq Consumers
  BY DispatcherAssumption DEF Held
<1>2. IsFiniteSet(Held)
  BY <1>1, FS_Subset
<1> QED BY <1>2, FS_CardinalityType

\* The types of the queue and its counters.
LEMMA QueueTypes ==
  ASSUME DispatcherInv
  PROVE  /\ queue \in Seq(Ticks) /\ Len(queue) \in Nat /\ Len(queue) <= Maxsize
         /\ dispatched \in Nat /\ dispatched + 1 \in Ticks /\ out \in Nat /\ unfinished \in Nat
         /\ policy \in OverflowPolicy /\ holding \in [Consumers -> Nat]
<1>1. TypeOK
  BY DEF DispatcherInv
<1>2. queue \in Seq(Ticks) /\ Len(queue) <= Maxsize
  BY <1>1 DEF TypeOK, Ticks
<1>3. dispatched \in Nat /\ out \in Nat /\ unfinished \in Nat
  BY <1>1 DEF TypeOK
<1>4. policy \in OverflowPolicy /\ holding \in [Consumers -> Nat]
  BY <1>1 DEF TypeOK
<1>5. dispatched + 1 \in Ticks
  BY <1>3 DEF Ticks
<1> QED BY <1>2, <1>3, <1>4, <1>5

\* The invariant holds of an empty queue.
LEMMA InitEstablishes == Init => DispatcherInv
<1> SUFFICES ASSUME Init PROVE DispatcherInv
  OBVIOUS
<1> USE DispatcherAssumption DEF Init
<1>1. TypeOK
  BY DEF TypeOK, OverflowPolicy, Times
<1>2. JoinCountExact
  <2>1. Held = {}
    BY DEF Held
  <2>2. Cardinality(Held) = 0
    BY <2>1, FS_EmptySet
  <2> QED BY <2>2 DEF JoinCountExact, Held
<1>3. DropsReported /\ Ordered /\ Dense
  BY DEF DropsReported, Ordered, Dense, Between, EndsWith
<1>4. Clocked /\ SaturationEscalates
  BY DEF Clocked, SaturationEscalates
<1> QED BY <1>1, <1>2, <1>3, <1>4 DEF DispatcherInv

-----------------------------------------------------------------------------
(* One lemma per action *)

\* A dispatch that finds room.
LEMMA EnqueueStep ==
  ASSUME DispatcherInv, Enqueue, dispatched' = dispatched + 1,
         UNCHANGED <<policy, holding, now, out>>
  PROVE  DispatcherInv'
<1> DEFINE t == dispatched + 1
<1> USE DispatcherAssumption
<1>1. queue \in Seq(Ticks) /\ t \in Ticks /\ dispatched \in Nat /\ out \in Nat
  BY QueueTypes
<1>2. queue' = Append(queue, t) /\ unfinished' = unfinished + 1
      /\ UNCHANGED <<dropped, unlogged, reported, lastLog, alarm, lastDrop>>
      /\ saturated' = None /\ starved' = None /\ Len(queue) < Maxsize
  BY DEF Enqueue
<1>3. TypeOK'
  <2>1. queue' \in Seq(Ticks) /\ Len(queue') <= Maxsize
    BY <1>1, <1>2, AppendFacts
  <2>2. {lastLog, saturated, starved, lastDrop}' \subseteq Times
    BY <1>2 DEF DispatcherInv, TypeOK, Times
  <2>3. unfinished' \in Nat /\ dispatched' \in Nat
    BY <1>1, <1>2, QueueTypes
  <2>4. {dropped, unlogged, now, out, reported}' \subseteq Nat
    BY <1>2 DEF DispatcherInv, TypeOK
  <2> QED BY <1>2, <2>1, <2>2, <2>3, <2>4 DEF DispatcherInv, TypeOK, Ticks
<1>4. JoinCountExact'
  <2>1. unfinished = Len(queue) + Cardinality(Held) /\ Held' = Held /\ unfinished \in Nat
    BY QueueTypes DEF DispatcherInv, JoinCountExact, Held
  <2>2. Len(queue') = Len(queue) + 1 /\ Len(queue) \in Nat
    BY <1>1, <1>2, AppendFacts
  <2>3. unfinished' = Len(queue') + Cardinality(Held')
    BY <1>2, <2>1, <2>2, HeldCounts
  <2> QED BY <2>3 DEF JoinCountExact, Held
<1>5. DropsReported'
  BY <1>2 DEF DispatcherInv, DropsReported
<1>6. Ordered'
  <2>1. out <= dispatched /\ Between(queue, out, dispatched)
    BY DEF DispatcherInv, Ordered
  <2>2. Between(Append(queue, t), out, t)
    BY <1>1, <2>1, AppendBetween
  <2> QED BY <1>1, <1>2, <2>1, <2>2 DEF Ordered
<1>7. Dense'
  <2>1. ASSUME policy = "drop_oldest" PROVE EndsWith(Append(queue, t), t)
    <3>1. EndsWith(queue, dispatched)
      BY <2>1 DEF DispatcherInv, Dense
    <3> QED BY <1>1, <3>1, EndsWithFacts
  <2> QED BY <1>2, <2>1 DEF Dense
<1>8. Clocked' /\ SaturationEscalates'
  BY <1>2 DEF DispatcherInv, Clocked, SaturationEscalates
<1> QED BY <1>3, <1>4, <1>5, <1>6, <1>7, <1>8 DEF DispatcherInv

\* What a full queue becomes: the oldest tick gives way, or nothing changes.
LEMMA OverflowQueue ==
  ASSUME DispatcherInv, Overflow
  PROVE  /\ Len(queue) \in Nat \ {0} /\ queue # << >>
         /\ \/ /\ policy = "drop_oldest"
               /\ queue' = Append(Tail(queue), dispatched + 1) /\ Len(queue') = Len(queue)
            \/ /\ policy = "drop_newest"
               /\ queue' = queue
         /\ unfinished' = unfinished
         /\ queue' \in Seq(Ticks)
<1>1. queue \in Seq(Ticks) /\ Len(queue) = Maxsize /\ Maxsize \in Nat \ {0}
      /\ policy \in OverflowPolicy /\ dispatched + 1 \in Ticks
  BY QueueTypes, DispatcherAssumption DEF Overflow
<1>2. queue # << >>
  BY <1>1
<1>3. CASE policy = "drop_oldest"
  <2>1. queue' = Append(Tail(queue), dispatched + 1) /\ unfinished' = unfinished
    BY <1>3 DEF Overflow, Replaced
  <2>2. Tail(queue) \in Seq(Ticks) /\ Len(Tail(queue)) = Len(queue) - 1
    BY <1>1, <1>2, TailFacts
  <2>3. Append(Tail(queue), dispatched + 1) \in Seq(Ticks)
        /\ Len(Append(Tail(queue), dispatched + 1)) = Len(Tail(queue)) + 1
    BY <1>1, <2>2, AppendFacts
  <2> QED BY <1>1, <1>2, <1>3, <2>1, <2>2, <2>3
<1>4. CASE policy = "drop_newest"
  BY <1>1, <1>2, <1>4 DEF Overflow
<1> QED BY <1>1, <1>3, <1>4 DEF OverflowPolicy

\* The log line of a drop and the clock of the saturation.
LEMMA OverflowLog ==
  ASSUME DispatcherInv, Overflow, now' = now
  PROVE  /\ DropsReported'
         /\ Clocked' /\ SaturationEscalates'
         /\ {dropped', unlogged', reported'} \subseteq Nat
         /\ {lastLog', saturated', starved', lastDrop'} \subseteq Times
         /\ alarm' \in {"none", "warning", "error"}
<1> USE DispatcherAssumption
<1>1. /\ {dropped, unlogged, now, reported} \subseteq Nat
      /\ {lastLog, saturated, starved, lastDrop} \subseteq Nat \cup {None}
      /\ alarm \in {"none", "warning", "error"}
  BY DEF DispatcherInv, TypeOK, Times
<1>2. /\ saturated = starved
      /\ lastLog # None => lastLog <= now
      /\ starved # None => starved <= now
      /\ starved # None /\ lastLog # None /\ lastLog - starved >= ErrorAfter => alarm = "error"
      /\ reported + unlogged = dropped
  BY DEF DispatcherInv, Clocked, DropsReported
<1>3. /\ saturated' = Since /\ starved' = Since
      /\ dropped' = dropped + 1 /\ lastDrop' = now
      /\ Since \in Nat /\ Since <= now /\ (starved # None => Since = starved)
      /\ (starved = None => Since = now)
  BY <1>1, <1>2 DEF Overflow, Since
<1>4. CASE LogDue
  <2>1. /\ reported' = reported + unlogged + 1 /\ unlogged' = 0 /\ lastLog' = now
        /\ alarm' = IF Escalates(dropped + 1, Since) THEN "error" ELSE "warning"
    BY <1>4 DEF Overflow, RecordDrop
  <2>2. now - Since >= ErrorAfter => alarm' = "error"
    BY <2>1 DEF Escalates
  <2>3. alarm' \in {"none", "warning", "error"}
    BY <2>1
  <2>4. DropsReported'
    BY <1>1, <1>2, <1>3, <2>1 DEF DropsReported
  <2>5. Clocked' /\ SaturationEscalates'
    BY <1>1, <1>3, <2>1, <2>2 DEF Clocked, SaturationEscalates
  <2> QED BY <1>1, <1>3, <2>1, <2>3, <2>4, <2>5 DEF Times
<1>5. CASE ~LogDue
  <2>1. unlogged' = unlogged + 1 /\ UNCHANGED <<lastLog, reported, alarm>>
    BY <1>5 DEF Overflow, RecordDrop
  <2>2. lastLog # None /\ now - lastLog < LogInterval
    BY <1>1, <1>5 DEF LogDue
  <2>3. lastLog - Since >= ErrorAfter => alarm = "error"
    BY <1>1, <1>2, <1>3, <2>2
  <2>4. now - Since >= ErrorAfter + LogInterval => lastLog - Since >= ErrorAfter
    BY <1>1, <1>3, <2>2
  <2>5. DropsReported'
    BY <1>1, <1>2, <1>3, <2>1 DEF DropsReported
  <2>6. Clocked' /\ SaturationEscalates'
    BY <1>1, <1>2, <1>3, <2>1, <2>2, <2>3, <2>4 DEF Clocked, SaturationEscalates
  <2> QED BY <1>1, <1>3, <2>1, <2>5, <2>6 DEF Times
<1> QED BY <1>4, <1>5

\* A dispatch that finds the queue full.
LEMMA OverflowStep ==
  ASSUME DispatcherInv, Overflow, dispatched' = dispatched + 1,
         UNCHANGED <<policy, holding, now, out>>
  PROVE  DispatcherInv'
<1> DEFINE t == dispatched + 1
<1>1. queue \in Seq(Ticks) /\ t \in Ticks /\ dispatched \in Nat /\ out \in Nat
      /\ queue # << >> /\ Len(queue) \in Nat /\ out <= dispatched
      /\ Between(queue, out, dispatched)
  BY OverflowQueue, QueueTypes DEF DispatcherInv, Ordered
<1>2. Len(queue') = Len(queue) /\ unfinished' = unfinished /\ queue' \in Seq(Ticks)
  BY OverflowQueue
<1>3. TypeOK'
  BY <1>1, <1>2, OverflowLog DEF DispatcherInv, TypeOK, Ticks
<1>4. JoinCountExact'
  BY <1>2 DEF DispatcherInv, JoinCountExact
<1>5. Ordered'
  <2>1. CASE policy = "drop_oldest"
    <3>1. Between(Tail(queue), out, dispatched) /\ Tail(queue) \in Seq(Ticks)
      BY <1>1, TailBetween, TailFacts
    <3>2. dispatched < t /\ t = dispatched + 1
      BY <1>1
    <3> HIDE DEF t
    <3>3. Between(Append(Tail(queue), t), out, t)
      BY <1>1, <3>1, <3>2, AppendBetween
    <3>4. queue' = Append(Tail(queue), t)
      BY <2>1, <3>2, OverflowQueue
    <3> QED BY <1>1, <3>2, <3>3, <3>4 DEF Ordered
  <2>2. CASE policy = "drop_newest"
    <3>1. queue' = queue
      BY <2>2, OverflowQueue
    <3>2. \A k \in 1 .. Len(queue) : queue[k] \in Ticks
      BY <1>1
    <3> QED BY <1>1, <3>1, <3>2 DEF Ordered, Between, Ticks
  <2> QED BY <2>1, <2>2, OverflowQueue
<1>6. Dense'
  <2>1. ASSUME policy = "drop_oldest" PROVE EndsWith(queue', t)
    <3>1. EndsWith(queue, dispatched)
      BY <2>1 DEF DispatcherInv, Dense
    <3>2. EndsWith(Tail(queue), dispatched) /\ Tail(queue) \in Seq(Ticks)
      BY <1>1, <3>1, EndsWithFacts, TailFacts
    <3>3. EndsWith(Append(Tail(queue), t), t)
      BY <1>1, <3>2, EndsWithFacts
    <3> QED BY <2>1, <3>3, OverflowQueue
  <2> QED BY <2>1 DEF Dense
<1> QED BY <1>3, <1>4, <1>5, <1>6, OverflowLog DEF DispatcherInv

\* A consumer takes the tick at the head.
LEMMA WaitStep ==
  ASSUME DispatcherInv, NEW c \in Consumers, WaitForNextTick(c)
  PROVE  DispatcherInv'
<1>1. queue \in Seq(Ticks) /\ queue # << >> /\ dispatched \in Nat /\ out \in Nat
      /\ Between(queue, out, dispatched) /\ holding \in [Consumers -> Nat] /\ holding[c] = 0
  BY DEF DispatcherInv, TypeOK, Ticks, Ordered, WaitForNextTick
<1>2. queue' = Tail(queue) /\ out' = Head(queue) /\ holding' = [holding EXCEPT ![c] = Head(queue)]
      /\ UNCHANGED <<policy, unfinished, dropped, unlogged, lastLog, saturated, now,
                     dispatched, reported, alarm, starved, lastDrop>>
  BY DEF WaitForNextTick
<1>3. TypeOK'
  <2>1. queue' \in Seq(Ticks) /\ Len(queue') = Len(queue) - 1 /\ out' \in Nat /\ Len(queue) \in Nat
    BY <1>1, <1>2, TailFacts DEF Ticks
  <2>2. holding' \in [Consumers -> Nat]
    BY <1>1, <1>2, <2>1
  <2>3. Len(queue') <= Maxsize
    BY <2>1, QueueTypes, DispatcherAssumption
  <2> QED BY <1>2, <2>1, <2>2, <2>3 DEF DispatcherInv, TypeOK, Ticks
<1>4. JoinCountExact'
  <2>1. Held' = Held \cup {c} /\ c \notin Held
    BY <1>1, <1>2, TailFacts DEF Held, Ticks
  <2>2. Cardinality(Held') = Cardinality(Held) + 1
    BY <2>1, HeldCounts, FS_AddElement
  <2>3. unfinished = Len(queue) + Cardinality(Held)
    BY DEF DispatcherInv, JoinCountExact, Held
  <2>4. unfinished' = Len(queue') + Cardinality(Held')
    BY <1>1, <1>2, <2>2, <2>3, HeldCounts, TailFacts
  <2> QED BY <2>4 DEF JoinCountExact, Held
<1>5. Ordered'
  BY <1>1, <1>2, TailBetween DEF Ordered
<1>6. Dense'
  BY <1>1, <1>2, EndsWithFacts DEF DispatcherInv, Dense
<1>7. DropsReported' /\ Clocked' /\ SaturationEscalates'
  BY <1>2 DEF DispatcherInv, DropsReported, Clocked, SaturationEscalates
<1> QED BY <1>3, <1>4, <1>5, <1>6, <1>7 DEF DispatcherInv

\* A consumer is done with its tick.
LEMMA MarkStep ==
  ASSUME DispatcherInv, NEW c \in Consumers, MarkTickAsProcessed(c)
  PROVE  DispatcherInv'
<1>1. queue \in Seq(Ticks) /\ Len(queue) \in Nat
      /\ holding \in [Consumers -> Nat] /\ holding[c] > 0 /\ unfinished \in Nat
  BY DEF DispatcherInv, TypeOK, Ticks, MarkTickAsProcessed
<1>2. holding' = [holding EXCEPT ![c] = 0] /\ unfinished' = unfinished - 1
      /\ UNCHANGED <<policy, queue, dropped, unlogged, lastLog, saturated, now,
                     dispatched, out, reported, alarm, starved, lastDrop>>
  BY DEF MarkTickAsProcessed
<1>3. unfinished' = Len(queue') + Cardinality(Held') /\ Cardinality(Held') \in Nat
  <2>1. Held' = Held \ {c} /\ c \in Held
    BY <1>1, <1>2 DEF Held
  <2>2. Cardinality(Held') = Cardinality(Held) - 1 /\ IsFiniteSet(Held')
    BY <2>1, HeldCounts, FS_RemoveElement
  <2>3. unfinished = Len(queue) + Cardinality(Held)
    BY DEF DispatcherInv, JoinCountExact, Held
  <2>4. Cardinality(Held') \in Nat
    BY <2>2, FS_CardinalityType
  <2> QED BY <1>1, <1>2, <2>2, <2>3, <2>4, HeldCounts
<1>4. JoinCountExact'
  BY <1>3 DEF JoinCountExact, Held
<1>5. TypeOK'
  <2>1. unfinished' \in Nat
    BY <1>1, <1>2, <1>3
  <2>2. holding' \in [Consumers -> Nat]
    BY <1>1, <1>2
  <2> QED BY <1>2, <2>1, <2>2 DEF DispatcherInv, TypeOK
<1>6. Ordered' /\ Dense' /\ DropsReported' /\ Clocked' /\ SaturationEscalates'
  BY <1>2 DEF DispatcherInv, Ordered, Dense, DropsReported, Clocked, SaturationEscalates
<1> QED BY <1>4, <1>5, <1>6 DEF DispatcherInv

\* Time passes.
LEMMA TickStep ==
  ASSUME DispatcherInv, Tick
  PROVE  DispatcherInv'
<1>1. now' = now + 1 /\ now \in Nat
      /\ UNCHANGED <<policy, queue, unfinished, holding, dropped, unlogged, lastLog, saturated,
                     dispatched, out, reported, alarm, starved, lastDrop>>
  BY DEF Tick, DispatcherInv, TypeOK
<1>2. TypeOK' /\ JoinCountExact' /\ DropsReported' /\ Ordered' /\ Dense' /\ SaturationEscalates'
  BY <1>1 DEF DispatcherInv, TypeOK, JoinCountExact, DropsReported, Ordered, Dense,
              SaturationEscalates
<1>3. {lastLog, starved, lastDrop} \subseteq Nat \cup {None}
  BY DEF DispatcherInv, TypeOK, Times
<1>4. Clocked'
  BY <1>1, <1>3 DEF DispatcherInv, Clocked
<1> QED BY <1>2, <1>4 DEF DispatcherInv

\* Every step keeps the invariant.
LEMMA NextKeeps == DispatcherInv /\ [Next]_vars => DispatcherInv'
<1> SUFFICES ASSUME DispatcherInv, [Next]_vars
             PROVE  DispatcherInv'
  OBVIOUS
<1>1. CASE Dispatch
  BY <1>1, EnqueueStep, OverflowStep DEF Dispatch
<1>2. ASSUME NEW c \in Consumers, WaitForNextTick(c) \/ MarkTickAsProcessed(c)
      PROVE  DispatcherInv'
  BY <1>2, WaitStep, MarkStep
<1>3. CASE Tick
  BY <1>3, TickStep
<1>4. CASE UNCHANGED vars
  BY <1>4 DEF vars, DispatcherInv, TypeOK, JoinCountExact, DropsReported, Ordered, Dense,
              Clocked, SaturationEscalates
<1> QED BY <1>1, <1>2, <1>3, <1>4 DEF Next

-----------------------------------------------------------------------------
(* The ticks in a queue, as a set *)

\* The ticks of a list of ticks are those at its positions.
LEMMA RangeOfTicks ==
  ASSUME NEW q \in Seq(Ticks)
  PROVE  /\ DOMAIN q = 1 .. Len(q) /\ Len(q) \in Nat
         /\ Range(q) = {q[k] : k \in 1 .. Len(q)}
         /\ Range(q) \subseteq Ticks
  BY DEF Range

\* Putting a tick adds it to the set.
LEMMA RangeAppend ==
  ASSUME NEW q \in Seq(Ticks), NEW t \in Ticks
  PROVE  Range(Append(q, t)) = Range(q) \cup {t}
<1> DEFINE a == Append(q, t)
<1>1. a \in Seq(Ticks) /\ Len(a) = Len(q) + 1 /\ Len(q) \in Nat
      /\ a[Len(q) + 1] = t
      /\ \A k \in 1 .. Len(q) : a[k] = q[k]
  BY AppendFacts
<1> HIDE DEF a
<1>2. 1 .. Len(a) = 1 .. Len(q) \cup {Len(q) + 1}
  BY <1>1
<1>3. Range(a) = {a[k] : k \in 1 .. Len(a)} /\ Range(q) = {q[k] : k \in 1 .. Len(q)}
  BY <1>1, RangeOfTicks
<1>4. ASSUME NEW y \in Range(a) PROVE y \in Range(q) \cup {t}
  <2>1. PICK k \in 1 .. Len(a) : y = a[k]
    BY <1>3
  <2>2. CASE k = Len(q) + 1
    BY <1>1, <2>1, <2>2
  <2>3. CASE k \in 1 .. Len(q)
    <3>1. y = q[k]
      BY <1>1, <2>1, <2>3
    <3> QED BY <1>3, <2>3, <3>1
  <2> QED BY <1>1, <1>2, <2>2, <2>3
<1>5. ASSUME NEW y \in Range(q) \cup {t} PROVE y \in Range(a)
  <2>1. CASE y = t
    <3>1. Len(q) + 1 \in 1 .. Len(a) /\ y = a[Len(q) + 1]
      BY <1>1, <2>1
    <3> QED BY <1>3, <3>1
  <2>2. CASE y \in Range(q)
    <3>1. PICK k \in 1 .. Len(q) : y = q[k]
      BY <1>3, <2>2
    <3>2. k \in 1 .. Len(a) /\ y = a[k]
      BY <1>1, <1>2, <3>1
    <3> QED BY <1>3, <3>2
  <2> QED BY <2>1, <2>2
<1> QED BY <1>4, <1>5 DEF a

\* Taking the head removes the least of the set.
LEMMA RangeTail ==
  ASSUME NEW q \in Seq(Ticks), q # << >>, NEW lo \in Nat, NEW hi \in Nat, Between(q, lo, hi)
  PROVE  /\ Head(q) \in Range(q)
         /\ Range(Tail(q)) = Range(q) \ {Head(q)}
         /\ \A u \in Range(q) : Head(q) <= u
<1> DEFINE r == Tail(q)
<1>1. r \in Seq(Ticks) /\ Len(r) = Len(q) - 1 /\ Len(q) \in Nat \ {0}
      /\ Head(q) = q[1] /\ q[1] \in Ticks
      /\ \A k \in 1 .. Len(q) - 1 : r[k] = q[k + 1]
  BY TailFacts
<1> HIDE DEF r
<1>2. Range(r) = {r[k] : k \in 1 .. Len(q) - 1} /\ Range(q) = {q[k] : k \in 1 .. Len(q)}
  BY <1>1, RangeOfTicks
<1>3. \A k \in 1 .. Len(q) : k = 1 \/ (k - 1 \in 1 .. Len(q) - 1 /\ q[k] = r[k - 1] /\ q[1] < q[k])
  BY <1>1 DEF Between
<1>4. \A k \in 1 .. Len(q) - 1 : k + 1 \in 1 .. Len(q) /\ q[1] < q[k + 1]
  BY <1>1 DEF Between
<1>5. \A k \in 1 .. Len(q) - 1 : r[k] # q[1]
  BY <1>1, <1>4 DEF Ticks
<1>6. Range(r) \subseteq Range(q) \ {q[1]}
  BY <1>1, <1>2, <1>4, <1>5
<1>7. Range(q) \ {q[1]} \subseteq Range(r)
  BY <1>2, <1>3
<1>8. \A u \in Range(q) : q[1] <= u
  BY <1>1, <1>2, <1>3 DEF Ticks
<1>9. q[1] \in Range(q)
  BY <1>1, <1>2
<1> QED BY <1>1, <1>6, <1>7, <1>8, <1>9 DEF r

\* No tick is in an ordered queue twice: the set has as many as the list.
LEMMA RangeCount ==
  ASSUME NEW q \in Seq(Ticks), NEW lo \in Nat, NEW hi \in Nat, Between(q, lo, hi)
  PROVE  Cardinality(Range(q)) = Len(q)
<1>1. DOMAIN q = 1 .. Len(q) /\ Len(q) \in Nat /\ q \in [1 .. Len(q) -> Range(q)]
      /\ \A k \in 1 .. Len(q) : q[k] \in Ticks
  BY RangeOfTicks DEF Range
<1>2. \A j, k \in 1 .. Len(q) : q[j] = q[k] => j = k
  <2> SUFFICES ASSUME NEW j \in 1 .. Len(q), NEW k \in 1 .. Len(q), j # k
               PROVE  q[j] # q[k]
    OBVIOUS
  <2>1. j < k \/ k < j
    BY <1>1
  <2>2. q[j] < q[k] \/ q[k] < q[j]
    BY <2>1 DEF Between
  <2> QED BY <1>1, <2>2 DEF Ticks
<1>3. \A y \in Range(q) : \E k \in 1 .. Len(q) : q[k] = y
  BY <1>1 DEF Range
<1>4. q \in Bijection(1 .. Len(q), Range(q))
  BY <1>1, <1>2, <1>3 DEF Bijection, Injection, Surjection, IsInjective
<1>5. ExistsBijection(1 .. Len(q), Range(q))
  BY <1>4 DEF ExistsBijection
<1>6. IsFiniteSet(1 .. Len(q)) /\ Cardinality(1 .. Len(q)) = Len(q)
  <2>1. IsFiniteSet(1 .. Len(q)) /\ Cardinality(1 .. Len(q)) = IF 1 > Len(q) THEN 0 ELSE Len(q) - 1 + 1
    BY <1>1, FS_Interval, 1 \in Int, Len(q) \in Int
  <2> QED BY <1>1, <2>1
<1> QED BY <1>5, <1>6, FS_Bijection

-----------------------------------------------------------------------------
(* What a step does to the ticks in the queue *)

\* A tick that waits under DROP_NEWEST is there after the step or was taken by it.
LEMMA StepKeeps ==
  ASSUME DispatcherInv, [Next]_vars, policy = "drop_newest", NEW t \in Range(queue)
  PROVE  t \in Range(queue') \/ out' = t
<1>1. queue \in Seq(Ticks) /\ dispatched + 1 \in Ticks /\ out \in Nat /\ dispatched \in Nat
      /\ Between(queue, out, dispatched)
  BY DEF DispatcherInv, TypeOK, Ticks, Ordered
<1>2. CASE Enqueue
  BY <1>1, <1>2, RangeAppend DEF Enqueue
<1>3. CASE Overflow
  BY <1>3, OverflowQueue
<1>4. ASSUME NEW c \in Consumers, WaitForNextTick(c)
      PROVE  t \in Range(queue') \/ out' = t
  BY <1>1, <1>4, RangeTail DEF WaitForNextTick
<1>5. CASE UNCHANGED queue
  BY <1>5
<1> QED BY <1>2, <1>3, <1>4, <1>5 DEF Next, Dispatch, MarkTickAsProcessed, Tick, vars

\* LossyFifo counts as this module does.
LEMMA SameCardinality == \A S : Fifo!Cardinality(S) = Cardinality(S)
  BY DEF Fifo!Cardinality, Cardinality

\* A dispatch that finds room is accepted by the lossy queue.
LEMMA EnqueueAccepts ==
  ASSUME DispatcherInv, Enqueue, dispatched' = dispatched + 1, out' = out
  PROVE  Fifo!Accept
<1>1. queue \in Seq(Ticks) /\ dispatched + 1 \in Ticks /\ out \in Nat /\ dispatched \in Nat
      /\ Between(queue, out, dispatched)
  BY DEF DispatcherInv, TypeOK, Ticks, Ordered
<1>2. Cardinality(Range(queue)) = Len(queue)
  BY <1>1, RangeCount
<1>3. Range(queue') = Range(queue) \cup {dispatched + 1}
  BY <1>1, RangeAppend DEF Enqueue
<1> QED BY <1>2, <1>3, SameCardinality DEF Enqueue, Fifo!Accept

\* A dispatch that finds none drops the oldest tick, or the new one.
LEMMA OverflowDrops ==
  ASSUME DispatcherInv, Overflow, dispatched' = dispatched + 1, out' = out
  PROVE  Fifo!Drop
<1> DEFINE t == dispatched + 1
           all == Range(queue) \cup {t}
<1>1. queue \in Seq(Ticks) /\ t \in Ticks /\ out \in Nat /\ dispatched \in Nat
      /\ Between(queue, out, dispatched) /\ queue # << >>
  BY OverflowQueue, QueueTypes DEF DispatcherInv, Ordered
<1>2. Cardinality(Range(queue)) = Maxsize
  BY <1>1, RangeCount DEF Overflow
<1>3. t \notin Range(queue)
  <2>1. \A k \in 1 .. Len(queue) : queue[k] <= dispatched /\ queue[k] \in Nat
    BY <1>1 DEF Between, Ticks
  <2>2. Range(queue) = {queue[k] : k \in 1 .. Len(queue)}
    BY <1>1, RangeOfTicks
  <2> QED BY <1>1, <2>1, <2>2
<1>4. \E u \in all : Range(queue') = all \ {u}
  <2>1. CASE policy = "drop_oldest"
    <3>1. queue' = Append(Tail(queue), t)
      BY <2>1, OverflowQueue
    <3>2. Tail(queue) \in Seq(Ticks) /\ Range(Tail(queue)) = Range(queue) \ {Head(queue)}
          /\ Head(queue) \in Range(queue)
      BY <1>1, RangeTail, TailFacts
    <3>3. Range(queue') = (Range(queue) \ {Head(queue)}) \cup {t}
      <4> HIDE DEF t
      <4> QED BY <1>1, <3>1, <3>2, RangeAppend
    <3>4. Range(queue') = all \ {Head(queue)}
      BY <1>3, <3>2, <3>3
    <3> QED BY <3>2, <3>4
  <2>2. CASE policy = "drop_newest"
    <3>1. queue' = queue
      BY <2>2, OverflowQueue
    <3> QED BY <1>3, <3>1
  <2> QED BY <2>1, <2>2, OverflowQueue
<1> QED BY <1>2, <1>4, SameCardinality DEF Overflow, Fifo!Drop

\* What a consumer takes is the next tick of the lossy queue.
LEMMA WaitTakes ==
  ASSUME DispatcherInv, NEW c \in Consumers, WaitForNextTick(c)
  PROVE  Fifo!Take
<1>1. queue \in Seq(Ticks) /\ queue # << >> /\ out \in Nat /\ dispatched \in Nat
      /\ Between(queue, out, dispatched)
  BY DEF DispatcherInv, TypeOK, Ticks, Ordered, WaitForNextTick
<1>2. out < Head(queue) /\ Head(queue) \in Ticks
  BY <1>1, TailBetween, TailFacts
<1>3. Head(queue) > out
  BY <1>1, <1>2 DEF Ticks
<1>4. Head(queue) \in Range(queue) /\ Range(Tail(queue)) = Range(queue) \ {Head(queue)}
      /\ \A u \in Range(queue) : Head(queue) <= u
  BY <1>1, RangeTail
<1>5. queue' = Tail(queue) /\ out' = Head(queue) /\ UNCHANGED <<dispatched, dropped>>
  BY DEF WaitForNextTick
<1> QED BY <1>3, <1>4, <1>5 DEF Fifo!Take

\* Every step is one of the lossy queue, or leaves it alone.
LEMMA StepRefines ==
  ASSUME DispatcherInv, [Next]_vars
  PROVE  [Fifo!Next]_<<dispatched, Range(queue), dropped, out>>
<1>1. CASE Dispatch
  BY <1>1, EnqueueAccepts, OverflowDrops DEF Dispatch, Fifo!Next
<1>2. ASSUME NEW c \in Consumers, WaitForNextTick(c)
      PROVE  Fifo!Next
  BY <1>2, WaitTakes DEF Fifo!Next
<1>3. CASE UNCHANGED <<dispatched, queue, dropped, out>>
  BY <1>3
<1> QED BY <1>1, <1>2, <1>3 DEF Next, MarkTickAsProcessed, Tick, vars

-----------------------------------------------------------------------------
(* Theorems *)

\* The inductive invariant holds in every reachable state.
THEOREM DispatcherInvariant == Spec => []DispatcherInv
<1>1. Init => DispatcherInv
  BY InitEstablishes
<1>2. DispatcherInv /\ [Next]_vars => DispatcherInv'
  BY NextKeeps
<1> QED BY <1>1, <1>2, PTL DEF Spec

\* Type correctness: the queue never holds more than Maxsize ticks, and no counter
\* becomes negative.
THEOREM TypeCorrect == Spec => []TypeOK
<1>1. DispatcherInv => TypeOK
  BY DEF DispatcherInv
<1> QED BY <1>1, DispatcherInvariant, PTL

\* The join counter is exact, for both policies and any number of consumers.
THEOREM JoinCounted == Spec => []JoinCountExact
<1>1. DispatcherInv => JoinCountExact
  BY DEF DispatcherInv
<1> QED BY <1>1, DispatcherInvariant, PTL

\* The rate limit of the drop log loses no count.
THEOREM DropsAreReported == Spec => []DropsReported
<1>1. DispatcherInv => DropsReported
  BY DEF DispatcherInv
<1> QED BY <1>1, DispatcherInvariant, PTL

\* The rate limit hides an escalation no longer than one log interval.
THEOREM SaturationIsEscalated == Spec => []SaturationEscalates
<1>1. DispatcherInv => SaturationEscalates
  BY DEF DispatcherInv
<1> QED BY <1>1, DispatcherInvariant, PTL

\* What a full queue gives up is what its policy says.
THEOREM PolicyIsKept == Spec => KeptByPolicy
<1> DEFINE Kept == /\ policy = "drop_oldest" =>
                        \A k \in DOMAIN queue' : queue'[k] = dispatched' - Len(queue') + k
                   /\ policy = "drop_newest" =>
                        \A t \in Range(queue) : t \in Range(queue') \/ out' = t
<1>1. DispatcherInv /\ DispatcherInv' /\ [Next]_vars => Kept
  <2> SUFFICES ASSUME DispatcherInv, DispatcherInv', [Next]_vars
               PROVE  Kept
    OBVIOUS
  <2>1. policy' = policy
    BY DEF Next, Dispatch, WaitForNextTick, MarkTickAsProcessed, Tick, vars
  <2>2. queue' \in Seq(Ticks) /\ (policy' = "drop_oldest" => EndsWith(queue', dispatched'))
    BY DEF DispatcherInv, TypeOK, Ticks, Dense
  <2>3. policy = "drop_oldest" =>
           \A k \in DOMAIN queue' : queue'[k] = dispatched' - Len(queue') + k
    BY <2>1, <2>2, RangeOfTicks DEF EndsWith
  <2> QED BY <2>3, StepKeeps
<1>2. DispatcherInv /\ DispatcherInv' /\ [Next]_vars => [Kept]_vars
  BY <1>1
<1> QED BY <1>2, DispatcherInvariant, PTL DEF Spec, KeptByPolicy

\* The dispatcher implements the lossy FIFO queue.
THEOREM DispatcherImplementsLossyFifo == Spec => ImplementsLossyFifo
<1>1. Init => Fifo!Init
  BY DEF Init, Fifo!Init, Range
<1>2. DispatcherInv /\ [Next]_vars => [Fifo!Next]_<<dispatched, Range(queue), dropped, out>>
  BY StepRefines
<1> QED BY <1>1, <1>2, DispatcherInvariant, PTL DEF Spec, ImplementsLossyFifo, Fifo!Spec

=============================================================================
