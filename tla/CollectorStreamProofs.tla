------------------------- MODULE CollectorStreamProofs -------------------------
(***************************************************************************)
(* Theorems about CollectorStream and the connection manager under it, for *)
(* every set of symbols, every retry limit, and any number of faults,      *)
(* calls and ticks.                                                        *)
(***************************************************************************)
EXTENDS CollectorStream, TLAPS

-----------------------------------------------------------------------------
(* The inductive invariant *)

\* The phases in which the manager has a connection in hand.
Connection == {"callback", "listening", "handling"}

\* ConnectionsAreReleased, and nothing is there before the first attempt.
Released ==
    phase \in {"new", "connecting", "backoff", "ended", "gave up"} =>
        health = "off" /\ keepAlive = "off" /\ link = "none" /\ ~wsSet

\* An open socket is one the manager knows of, so that a send finds it.
OpenIsKnown == link = "open" => wsSet

\* A limited manager that still tries has an attempt left.
AttemptLeft ==
    Limited /\ phase \in Connection \cup {"connecting", "cleanup", "backoff"} =>
        attempt < MaxRetries

\* ManagerTypeOK in three parts: the names, the flags and the numbers.
Names ==
    /\ phase \in {"new", "connecting", "callback", "listening", "handling", "cleanup",
                  "backoff", "ended", "gave up", "escaped"}
    /\ stopping \in {"no", "tasks", "returned", "raised"}
    /\ link \in {"none", "open", "closed", "lost"}
    /\ health \in {"off", "on", "raised"}
    /\ keepAlive \in {"off", "on", "refused", "raised"}

Flags ==
    /\ cancelled \in BOOLEAN /\ stopSet \in BOOLEAN /\ wsSet \in BOOLEAN /\ quiet \in BOOLEAN
    /\ pending \in BOOLEAN /\ cooling \in BOOLEAN /\ detected \in BOOLEAN /\ readable \in BOOLEAN

Numbers ==
    /\ attempt \in Nat /\ (Limited => attempt <= MaxRetries)
    /\ before \in {None} \cup 0 .. MaxTip /\ baseline \in {None} \cup 0 .. MaxTip
    /\ tip \in 0 .. MaxTip
    /\ faults \in 0 .. MaxFaults

\* What relates the connection, its socket and its tasks.
Linked == Released /\ OpenIsKnown /\ FlapsAreMatched /\ AttemptLeft

ManagerInv == Names /\ Flags /\ Numbers /\ Linked

\* The variables of the stream, with bounds that do not speak of the faults.
CollectorTypes ==
    /\ registry \subseteq Symbols /\ expected \subseteq Symbols /\ confirmed \subseteq Symbols
    /\ wire \subseteq Symbols /\ acked \subseteq Symbols
    /\ generation \in Nat /\ full \in 0 .. generation
    /\ rest \in 0 .. MaxTicks - 1 /\ (rest > 0 => phase = "handling")
    /\ awaiting \in BOOLEAN /\ healing \in BOOLEAN /\ reported \in BOOLEAN
    /\ window \in Window
    /\ controls \in 0 .. MaxControls

\* Every connection after the first was paid for by a fault of the one before:
\* a silence or a break of the link, before the next attempt begins.
ConnectsAreCaused ==
    /\ generation <= faults + 1
    /\ phase \in {"new", "connecting", "backoff"} => generation <= faults
    /\ phase = "cleanup" /\ ~stopSet => generation <= faults
    /\ phase \in Connection /\ (link # "open" \/ quiet) /\ ~stopSet => generation <= faults

\* Whoever is in the middle of stop() has set the event.
StopIsSet == stopping # "no" => stopSet

\* Before the resubscription the server of an open link knows of registered symbols
\* only.
WireIsRegistered == phase = "callback" /\ link = "open" => wire \subseteq registry

\* While messages are received, what counts as confirmed was acknowledged on this
\* connection.
ConfirmedHere == phase \in {"listening", "handling"} => confirmed \subseteq acked

CollectorInv ==
    /\ ManagerInv /\ CollectorTypes
    /\ StopIsSet /\ ConnectsAreCaused
    /\ WireIsRegistered /\ WireMatchesRegistry
    /\ ConfirmedHere /\ ArmedByThisConnection

-----------------------------------------------------------------------------
(* The manager *)

\* The three parts are the type invariant.
LEMMA ManagerTypes == ManagerTypeOK <=> Names /\ Flags /\ Numbers
  BY DEF ManagerTypeOK, Names, Flags, Numbers

\* The manager starts with nothing in hand.
LEMMA ManagerStarts == ManagerInit => ManagerInv
<1> SUFFICES ASSUME ManagerInit PROVE ManagerInv
  OBVIOUS
<1> USE DEF ManagerInit
<1>1. Names
  BY DEF Names
<1>2. Flags
  BY DEF Flags
<1>3. Numbers
  BY ManagerAssumption DEF Numbers
<1>4. Linked
  BY DEF Linked, Released, OpenIsKnown, FlapsAreMatched, AttemptLeft, Connection
<1> QED BY <1>1, <1>2, <1>3, <1>4 DEF ManagerInv

\* The monitor never changes more than its own variables.
MonitorSteps ==
    TipWindowEnds \/ TipCooldownEnds \/ RecordTipProgress \/ ConsumeTipDetection

\* The turns of the connection loop.
LEMMA ManagerLoop ==
  ASSUME ManagerInv, Start \/ ConnectFails \/ ListenEnds \/ Cleanup \/ BackoffEnds
  PROVE  ManagerInv'
<1> USE DEF ManagerInv, loopVars, socketVars, taskVars, monitorVars, journalVars
<1>1. CASE Start
  <2>1. Names'
    BY <1>1 DEF Start, LoopTop, CanRetry, Names
  <2>2. Flags'
    BY <1>1 DEF Start, LoopTop, CanRetry, Flags
  <2>3. Numbers'
    <3>1. attempt' = 0 /\ UNCHANGED <<before, baseline, tip, faults>>
      BY <1>1 DEF Start, LoopTop
    <3>2. 0 <= MaxRetries
      BY ManagerAssumption
    <3> QED BY <3>1, <3>2 DEF Numbers
  <2>4. Linked'
    BY <1>1 DEF Start, LoopTop, CanRetry, Names, Linked, Released, OpenIsKnown, FlapsAreMatched,
                AttemptLeft, Connection
  <2> QED BY <2>1, <2>2, <2>3, <2>4
<1>2. CASE ConnectFails
  <2>1. Names'
    BY <1>2 DEF ConnectFails, Fault, Names
  <2>2. Flags'
    BY <1>2 DEF ConnectFails, Fault, Flags
  <2>3. Numbers'
    BY <1>2, ManagerAssumption DEF ConnectFails, Fault, Numbers
  <2>4. Linked'
    BY <1>2 DEF ConnectFails, Fault, Names, Linked, Released, OpenIsKnown, FlapsAreMatched,
                AttemptLeft, Connection
  <2> QED BY <2>1, <2>2, <2>3, <2>4
<1>3. CASE ListenEnds
  <2>1. Names'
    BY <1>3 DEF ListenEnds, NoteConnectionClosed, MonitorCancel, Names
  <2>2. Flags'
    BY <1>3 DEF ListenEnds, NoteConnectionClosed, MonitorCancel, Flags
  <2>3. Numbers'
    BY <1>3, ManagerAssumption DEF ListenEnds, NoteConnectionClosed, MonitorCancel, Numbers, Sample, Flags
  <2>4. Linked'
    BY <1>3 DEF ListenEnds, NoteConnectionClosed, MonitorCancel, Names, Linked, Released, OpenIsKnown, FlapsAreMatched,
                AttemptLeft, Connection
  <2> QED BY <2>1, <2>2, <2>3, <2>4
<1>4. CASE Cleanup
  <2>1. Names'
    BY <1>4 DEF Cleanup, Names
  <2>2. Flags'
    BY <1>4 DEF Cleanup, Flags
  <2>3. Numbers'
    BY <1>4, ManagerAssumption DEF Cleanup, Numbers
  <2>4. Linked'
    BY <1>4 DEF Cleanup, Names, Linked, Released, OpenIsKnown, FlapsAreMatched,
                AttemptLeft, Connection
  <2> QED BY <2>1, <2>2, <2>3, <2>4
<1>5. CASE BackoffEnds
  <2>1. Names'
    BY <1>5 DEF BackoffEnds, LoopTop, CanRetry, Names
  <2>2. Flags'
    BY <1>5 DEF BackoffEnds, LoopTop, CanRetry, Flags
  <2>3. Numbers'
    <3>1. attempt' = attempt + 1 /\ UNCHANGED <<before, baseline, tip, faults>>
      BY <1>5 DEF BackoffEnds, LoopTop
    <3>2. Limited => attempt < MaxRetries
      BY <1>5 DEF BackoffEnds, Linked, AttemptLeft, Connection
    <3> QED BY <3>1, <3>2, ManagerAssumption DEF Numbers
  <2>4. Linked'
    BY <1>5 DEF BackoffEnds, LoopTop, CanRetry, Names, Linked, Released, OpenIsKnown, FlapsAreMatched,
                AttemptLeft, Connection
  <2> QED BY <2>1, <2>2, <2>3, <2>4
<1> QED BY <1>1, <1>2, <1>3, <1>4, <1>5

\* A connection begins, and its callback returns or raises.
LEMMA ManagerConnects ==
  ASSUME ManagerInv, Connected \/ CallbackReturns \/ CallbackRaises
  PROVE  ManagerInv'
<1> USE DEF ManagerInv, loopVars, socketVars, taskVars, monitorVars, journalVars
<1>1. CASE Connected
  <2>1. Names'
    BY <1>1 DEF Connected, NoteConnectionRestored, Names
  <2>2. Flags'
    BY <1>1 DEF Connected, NoteConnectionRestored, Flags
  <2>3. Numbers'
    BY <1>1, ManagerAssumption DEF Connected, NoteConnectionRestored, Numbers, Sample, Flags
  <2>4. Linked'
    <3>1. phase' = "callback" /\ wsSet' = TRUE /\ pending' = FALSE /\ attempt' = 0
      BY <1>1 DEF Connected, NoteConnectionRestored
    <3>2. Limited => 0 < MaxRetries
      BY <1>1, ManagerAssumption DEF Connected, Numbers, Linked, AttemptLeft, Connection
    <3> QED BY <3>1, <3>2 DEF Linked, Released, OpenIsKnown, FlapsAreMatched, AttemptLeft
  <2> QED BY <2>1, <2>2, <2>3, <2>4
<1>2. CASE CallbackReturns
  <2>1. Names'
    BY <1>2 DEF CallbackReturns, Names
  <2>2. Flags'
    BY <1>2 DEF CallbackReturns, Flags
  <2>3. Numbers'
    BY <1>2, ManagerAssumption DEF CallbackReturns, Numbers
  <2>4. Linked'
    BY <1>2 DEF CallbackReturns, Names, Linked, Released, OpenIsKnown, FlapsAreMatched,
                AttemptLeft, Connection
  <2> QED BY <2>1, <2>2, <2>3, <2>4
<1>3. CASE CallbackRaises
  <2>1. Names'
    BY <1>3 DEF CallbackRaises, Exited, Names
  <2>2. Flags'
    BY <1>3 DEF CallbackRaises, Exited, Flags
  <2>3. Numbers'
    BY <1>3, ManagerAssumption DEF CallbackRaises, Exited, Numbers
  <2>4. Linked'
    BY <1>3 DEF CallbackRaises, Exited, Names, Linked, Released, OpenIsKnown, FlapsAreMatched,
                AttemptLeft, Connection
  <2> QED BY <2>1, <2>2, <2>3, <2>4
<1> QED BY <1>1, <1>2, <1>3

\* A message is received, its ticks are dispatched, and the next one is asked for.
LEMMA ManagerReceives ==
  ASSUME ManagerInv,
         phase \in {"listening", "handling"}, phase' \in {"listening", "handling"},
         quiet' \in BOOLEAN, tip' \in 0 .. MaxTip,
         UNCHANGED <<cancelled, attempt, stopSet, stopping, wsSet, link, taskVars,
                     monitorVars, readable, faults>>
  PROVE  ManagerInv'
<1> USE DEF ManagerInv, taskVars, monitorVars
<1>1. Names'
  BY DEF Names
<1>2. Flags'
  BY DEF Flags
<1>3. Numbers'
  BY DEF Numbers
<1>4. Linked'
  BY DEF Linked, Released, OpenIsKnown, FlapsAreMatched, AttemptLeft, Connection
<1> QED BY <1>1, <1>2, <1>3, <1>4

\* The task is cancelled, and stop() goes through its steps.
LEMMA ManagerStops ==
  ASSUME ManagerInv, Cancel \/ StopBegins \/ StopCloses
  PROVE  ManagerInv'
<1> USE DEF ManagerInv, loopVars, socketVars, taskVars, monitorVars, journalVars
<1>1. CASE Cancel
  <2>1. Names'
    BY <1>1 DEF Cancel, Fault, Exited, Names
  <2>2. Flags'
    BY <1>1 DEF Cancel, Fault, Exited, Flags
  <2>3. Numbers'
    BY <1>1, ManagerAssumption DEF Cancel, Fault, Exited, Numbers
  <2>4. Linked'
    BY <1>1 DEF Cancel, Fault, Exited, Names, Linked, Released, OpenIsKnown, FlapsAreMatched,
                AttemptLeft, Connection
  <2> QED BY <2>1, <2>2, <2>3, <2>4
<1>2. CASE StopBegins
  <2>1. Names'
    BY <1>2 DEF StopBegins, MonitorCancel, Disconnected, Closing, Names
  <2>2. Flags'
    BY <1>2 DEF StopBegins, MonitorCancel, Disconnected, Closing, Flags
  <2>3. Numbers'
    BY <1>2, ManagerAssumption DEF StopBegins, MonitorCancel, Disconnected, Closing, Numbers
  <2>4. Linked'
    BY <1>2 DEF StopBegins, MonitorCancel, Disconnected, Closing, Names, Linked, Released, OpenIsKnown, FlapsAreMatched,
                AttemptLeft, Connection
  <2> QED BY <2>1, <2>2, <2>3, <2>4
<1>3. CASE StopCloses
  <2>1. Names'
    BY <1>3 DEF StopCloses, Disconnected, Closing, Names
  <2>2. Flags'
    BY <1>3 DEF StopCloses, Disconnected, Closing, Flags
  <2>3. Numbers'
    BY <1>3, ManagerAssumption DEF StopCloses, Disconnected, Closing, Numbers
  <2>4. Linked'
    BY <1>3 DEF StopCloses, Disconnected, Closing, Names, Linked, Released, OpenIsKnown, FlapsAreMatched,
                AttemptLeft, Connection
  <2> QED BY <2>1, <2>2, <2>3, <2>4
<1> QED BY <1>1, <1>2, <1>3

\* The background tasks, the peer, and the monitor.
LEMMA ManagerBackground ==
  ASSUME ManagerInv, Background
  PROVE  ManagerInv'
<1> USE DEF ManagerInv, loopVars, socketVars, taskVars, monitorVars, journalVars
<1>1. CASE HealthCut
  <2>1. Names'
    BY <1>1 DEF HealthCut, Disconnected, Closing, Names
  <2>2. Flags'
    BY <1>1 DEF HealthCut, Disconnected, Closing, Flags
  <2>3. Numbers'
    BY <1>1, ManagerAssumption DEF HealthCut, Disconnected, Closing, Numbers
  <2>4. Linked'
    <3>1. UNCHANGED <<phase, attempt, pending>> /\ health = "on"
      BY <1>1 DEF HealthCut
    <3>2. link' = "open" => link = "open" /\ wsSet' = wsSet
      BY <1>1 DEF HealthCut, Disconnected, Closing, Linked, OpenIsKnown
    <3> QED BY <3>1, <3>2 DEF Linked, Released, OpenIsKnown, FlapsAreMatched, AttemptLeft
  <2> QED BY <2>1, <2>2, <2>3, <2>4
<1>2. CASE KeepAliveRefused \/ KeepAliveBreaks
  <2>1. Names'
    BY <1>2 DEF KeepAliveRefused, KeepAliveBreaks, Fault, IsConnected, Names
  <2>2. Flags'
    BY <1>2 DEF KeepAliveRefused, KeepAliveBreaks, Fault, IsConnected, Flags
  <2>3. Numbers'
    BY <1>2, ManagerAssumption DEF KeepAliveRefused, KeepAliveBreaks, Fault, IsConnected, Numbers
  <2>4. Linked'
    BY <1>2 DEF KeepAliveRefused, KeepAliveBreaks, Fault, IsConnected, Names, Linked, Released, OpenIsKnown, FlapsAreMatched,
                AttemptLeft, Connection
  <2> QED BY <2>1, <2>2, <2>3, <2>4
<1>3. CASE PeerCloses \/ GoesQuiet
  <2>1. Names'
    BY <1>3 DEF PeerCloses, GoesQuiet, Fault, Names
  <2>2. Flags'
    BY <1>3 DEF PeerCloses, GoesQuiet, Fault, Flags
  <2>3. Numbers'
    BY <1>3, ManagerAssumption DEF PeerCloses, GoesQuiet, Fault, Numbers
  <2>4. Linked'
    <3>1. UNCHANGED <<phase, attempt, wsSet, health, keepAlive, pending>> /\ link = "open"
      BY <1>3 DEF PeerCloses, GoesQuiet
    <3> QED BY <3>1 DEF Linked, Released, OpenIsKnown, FlapsAreMatched, AttemptLeft
  <2> QED BY <2>1, <2>2, <2>3, <2>4
<1>4. CASE Disconnect
  <2>1. Names'
    BY <1>4 DEF Disconnect, Disconnected, Closing, Fault, Names
  <2>2. Flags'
    BY <1>4 DEF Disconnect, Disconnected, Closing, Fault, Flags
  <2>3. Numbers'
    BY <1>4, ManagerAssumption DEF Disconnect, Disconnected, Closing, Fault, Numbers
  <2>4. Linked'
    BY <1>4 DEF Disconnect, Disconnected, Closing, Fault, Names, Linked, Released, OpenIsKnown, FlapsAreMatched,
                AttemptLeft, Connection
  <2> QED BY <2>1, <2>2, <2>3, <2>4
<1>5. CASE MonitorSteps
  <2>1. Names'
    BY <1>5 DEF MonitorSteps, TipWindowEnds, TipCooldownEnds, RecordTipProgress,
                ConsumeTipDetection, MonitorCancel, MonitorOnly, Names
  <2>2. Flags'
    BY <1>5 DEF MonitorSteps, TipWindowEnds, TipCooldownEnds, RecordTipProgress,
                ConsumeTipDetection, MonitorCancel, MonitorOnly, Flags
  <2>3. Numbers'
    BY <1>5, ManagerAssumption DEF MonitorSteps, TipWindowEnds, TipCooldownEnds, RecordTipProgress,
                ConsumeTipDetection, MonitorCancel, MonitorOnly, Numbers
  <2>4. Linked'
    <3>1. UNCHANGED <<phase, attempt, wsSet, link, health, keepAlive, pending>>
      BY <1>5 DEF MonitorSteps, TipWindowEnds, TipCooldownEnds, RecordTipProgress,
                  ConsumeTipDetection, MonitorOnly
    <3> QED BY <3>1 DEF Linked, Released, OpenIsKnown, FlapsAreMatched, AttemptLeft
  <2> QED BY <2>1, <2>2, <2>3, <2>4
<1>6. CASE TipFails \/ TipAnswers
  <2>1. Names'
    BY <1>6 DEF TipFails, TipAnswers, Fault, Names
  <2>2. Flags'
    BY <1>6 DEF TipFails, TipAnswers, Fault, Flags
  <2>3. Numbers'
    BY <1>6, ManagerAssumption DEF TipFails, TipAnswers, Fault, Numbers
  <2>4. Linked'
    <3>1. UNCHANGED <<phase, attempt, wsSet, link, health, keepAlive, pending>>
      BY <1>6 DEF TipFails, TipAnswers
    <3> QED BY <3>1 DEF Linked, Released, OpenIsKnown, FlapsAreMatched, AttemptLeft
  <2> QED BY <2>1, <2>2, <2>3, <2>4
<1> QED BY <1>1, <1>2, <1>3, <1>4, <1>5, <1>6 DEF Background, MonitorSteps

\* A step that leaves the manager alone.
LEMMA ManagerStutters ==
  ASSUME ManagerInv, UNCHANGED managerVars
  PROVE  ManagerInv'
<1> USE DEF ManagerInv, managerVars, loopVars, socketVars, taskVars, monitorVars, journalVars
<1>1. Names'
  BY DEF Names
<1>2. Flags'
  BY DEF Flags
<1>3. Numbers'
  BY DEF Numbers
<1>4. Linked'
  BY DEF Linked, Released, OpenIsKnown, FlapsAreMatched, AttemptLeft
<1> QED BY <1>1, <1>2, <1>3, <1>4

-----------------------------------------------------------------------------
(* The manager under the stream *)

\* A message in hand: a tick is dispatched, which may move the tip by one.
LEMMA DispatchMovesTip ==
  ASSUME ManagerInv, Dispatch
  PROVE  tip' \in 0 .. MaxTip
  BY ManagerAssumption DEF ManagerInv, Numbers, Dispatch

\* Whatever the stream does, its manager is in order.
LEMMA ManagerKeeps ==
  ASSUME ManagerInv, Next
  PROVE  ManagerInv'
<1>1. CASE LoopStep
  BY <1>1, ManagerLoop DEF LoopStep
<1>2. CASE Connect \/ ResubscribeAll \/ ResubscribeFails
  BY <1>2, ManagerConnects DEF Connect, ResubscribeAll, ResubscribeFails
<1>3. ASSUME NEW s \in Symbols, ReceiveAck(s) PROVE ManagerInv'
  <2>1. tip' \in 0 .. MaxTip /\ phase = "listening" /\ phase' = "listening" /\ quiet' = FALSE
    BY <1>3 DEF ReceiveAck, Receive, ManagerInv, Numbers
  <2>2. UNCHANGED <<cancelled, attempt, stopSet, stopping, wsSet, link, taskVars,
                    monitorVars, readable, faults>>
    BY <1>3 DEF ReceiveAck, Receive
  <2> QED BY <2>1, <2>2, ManagerReceives
<1>4. ASSUME NEW n \in 1 .. MaxTicks, ReceiveTicks(n) PROVE ManagerInv'
  <2>1. tip' \in 0 .. MaxTip /\ phase = "listening" /\ phase' = "handling" /\ quiet' = FALSE
    BY <1>4, DispatchMovesTip DEF ReceiveTicks, Receive
  <2>2. UNCHANGED <<cancelled, attempt, stopSet, stopping, wsSet, link, taskVars,
                    monitorVars, readable, faults>>
    BY <1>4 DEF ReceiveTicks, Receive
  <2> QED BY <2>1, <2>2, ManagerReceives
<1>5. CASE DispatchNext
  <2>1. tip' \in 0 .. MaxTip /\ phase = "handling" /\ phase' = phase /\ quiet' = quiet
    BY <1>5, DispatchMovesTip DEF DispatchNext, loopVars, socketVars
  <2>2. UNCHANGED <<cancelled, attempt, stopSet, stopping, wsSet, link, taskVars,
                    monitorVars, readable, faults>>
    BY <1>5 DEF DispatchNext, loopVars, socketVars
  <2> QED BY <2>1, <2>2, ManagerReceives DEF ManagerInv, Flags
<1>6. CASE MessageEnds
  <2>1. tip' = tip /\ phase = "handling" /\ phase' = "listening" /\ quiet' = quiet
    BY <1>6 DEF MessageEnds, Handled, socketVars
  <2>2. UNCHANGED <<cancelled, attempt, stopSet, stopping, wsSet, link, taskVars,
                    monitorVars, readable, faults>>
    BY <1>6 DEF MessageEnds, Handled, socketVars
  <2> QED BY <2>1, <2>2, ManagerReceives DEF ManagerInv, Flags, Numbers
<1>7. CASE ReceiveOther
  <2>1. tip' = tip /\ phase = "listening" /\ phase' = phase /\ quiet' = FALSE
    BY <1>7 DEF ReceiveOther, Receive
  <2>2. UNCHANGED <<cancelled, attempt, stopSet, stopping, wsSet, link, taskVars,
                    monitorVars, readable, faults>>
    BY <1>7 DEF ReceiveOther, Receive
  <2> QED BY <2>1, <2>2, ManagerReceives DEF ManagerInv, Numbers
<1>8. CASE UNCHANGED managerVars
  BY <1>8, ManagerStutters
<1>9. CASE Stop \/ Cancelled
  BY <1>9, ManagerStops DEF Stop, Cancelled
<1>10. CASE StopCloses \/ Background
  BY <1>10, ManagerStops, ManagerBackground
<1> QED BY <1>1, <1>2, <1>3, <1>4, <1>5, <1>6, <1>7, <1>8, <1>9, <1>10
        DEF Next, ConfirmationTimesOut, WriteWindowEnds, HealCooldownEnds,
            ConsumeStaleDetection, GuardOnly, Subscribe, Unsubscribe

-----------------------------------------------------------------------------
(* The steps of the stream *)

\* The steps that belong to the manager alone.
ManagerOnly == (LoopStep \/ Cancelled \/ StopCloses \/ Background) /\ UNCHANGED Others

\* The manager by itself never brings a connection up or lets a message in: it
\* stays in the phase of its connection or leaves it.
LEMMA ManagerOnlyLeaves ==
  ASSUME ManagerInv, LoopStep \/ Cancelled \/ StopCloses \/ Background
  PROVE  /\ phase' \in Connection => phase' = phase
         /\ link' = "open" => link = "open"
<1> USE DEF loopVars, socketVars, taskVars, monitorVars, journalVars, Connection
<1>1. CASE LoopStep
  BY <1>1 DEF LoopStep, Start, ConnectFails, ListenEnds, Cleanup, BackoffEnds, LoopTop
<1>2. CASE Cancelled
  BY <1>2 DEF Cancelled, Cancel, Exited
<1>3. CASE StopCloses
  BY <1>3 DEF StopCloses, Disconnected, Closing
<1>4. CASE HealthCut \/ Disconnect
  BY <1>4 DEF HealthCut, Disconnect, Disconnected, Closing
<1>5. CASE KeepAliveRefused \/ KeepAliveBreaks \/ PeerCloses \/ GoesQuiet
  BY <1>5 DEF KeepAliveRefused, KeepAliveBreaks, PeerCloses, GoesQuiet
<1>6. CASE MonitorSteps \/ TipFails \/ TipAnswers
  BY <1>6 DEF MonitorSteps, TipWindowEnds, TipCooldownEnds, RecordTipProgress,
              ConsumeTipDetection, MonitorOnly, TipFails, TipAnswers
<1> QED BY <1>1, <1>2, <1>3, <1>4, <1>5, <1>6 DEF Background, MonitorSteps

\* A window whose verdict is given is a window still.
LEMMA VerdictTyped ==
  ASSUME window \in Window,
         NEW v \in {"none", "open", "satisfied", "stale", "suppressed", "cancelled"},
         Verdict(v)
  PROVE  window' \in Window
<1>1. [window EXCEPT !.verdict = v] \in Window
  BY DEF Window
<1> QED BY <1>1 DEF Verdict

\* So is a new one.
LEMMA ArmTyped ==
  ASSUME generation \in Nat, tip \in Nat, NEW S, S \subseteq Symbols, Arm(S)
  PROVE  window' \in Window
<1>1. [of |-> generation, symbols |-> S, tip |-> tip, verdict |-> "open"] \in Window
  BY DEF Window
<1> QED BY <1>1 DEF Arm

\* Cancelling the guard leaves it well typed.
LEMMA CancelTyped ==
  ASSUME CollectorTypes, NEW v \in {"satisfied", "cancelled"}, GuardCancel(v)
  PROVE  /\ awaiting' = FALSE /\ healing' \in BOOLEAN /\ reported' \in BOOLEAN
         /\ window' \in Window
<1>1. window' \in Window
  BY VerdictTyped DEF CollectorTypes, GuardCancel
<1> QED BY <1>1 DEF CollectorTypes, GuardCancel

\* The variables of the stream keep their types.
LEMMA TypesKeep ==
  ASSUME ManagerInv, CollectorTypes, Next
  PROVE  CollectorTypes'
<1> USE CollectorAssumption
<1>1. ASSUME UNCHANGED <<Others, rest>>, rest > 0 => phase' = phase PROVE CollectorTypes'
  BY <1>1 DEF Others, trackerVars, guardVars, serverVars, CollectorTypes
<1>2. CASE LoopStep
  <2>1. phase # "handling"
    BY <1>2 DEF LoopStep, Start, ConnectFails, ListenEnds, Cleanup, BackoffEnds
  <2>2. UNCHANGED <<Others, rest>>
    BY <1>2 DEF LoopStep
  <2> QED BY <1>1, <2>1, <2>2 DEF CollectorTypes
<1>3. CASE (StopCloses \/ Background) /\ UNCHANGED <<Others, rest>>
  <2>1. CASE StopCloses
    BY <1>1, <1>3, <2>1 DEF StopCloses, loopVars
  <2>2. CASE Background
    <3>1. UNCHANGED phase
      BY <2>2 DEF Background, HealthCut, KeepAliveRefused, KeepAliveBreaks, PeerCloses, GoesQuiet,
                  Disconnect, TipWindowEnds, TipCooldownEnds, RecordTipProgress,
                  ConsumeTipDetection, TipFails, TipAnswers, MonitorOnly, loopVars
    <3> QED BY <1>1, <1>3, <3>1
  <2> QED BY <1>3, <2>1, <2>2
<1>4. CASE Cancelled
  BY <1>4 DEF Cancelled, Others, trackerVars, guardVars, serverVars, CollectorTypes
<1>5. CASE Connect
  <2>1. generation' = generation + 1 /\ wire' = {} /\ acked' = {} /\ phase # "handling"
        /\ UNCHANGED <<registry, expected, confirmed, rest, full, controls>>
    BY <1>5 DEF Connect, Connected, trackerVars
  <2>2. awaiting' = FALSE /\ healing' \in BOOLEAN /\ reported' \in BOOLEAN /\ window' \in Window
    BY <1>5, CancelTyped DEF Connect
  <2>3. generation' \in Nat /\ full' \in 0 .. generation' /\ rest' = 0
    BY <2>1 DEF CollectorTypes
  <2> QED BY <2>1, <2>2, <2>3 DEF CollectorTypes
<1>6. CASE ResubscribeAll \/ ResubscribeFails
  <2>1. /\ wire' \subseteq Symbols /\ expected' \subseteq Symbols /\ confirmed' \subseteq Symbols
        /\ phase # "handling"
    BY <1>6 DEF ResubscribeAll, ResubscribeFails, CallbackReturns, CallbackRaises, BeginExpectation,
                Forget, CollectorTypes, trackerVars, serverVars
  <2>2. UNCHANGED <<registry, acked, generation, full, rest, awaiting, healing, reported, window, controls>>
    BY <1>6 DEF ResubscribeAll, ResubscribeFails, guardVars, serverVars
  <2> QED BY <2>1, <2>2 DEF CollectorTypes
<1>7. ASSUME NEW s \in Symbols, ReceiveAck(s) PROVE CollectorTypes'
  <2>1. phase = "listening" /\ acked' = acked \cup {s}
        /\ UNCHANGED <<registry, generation, rest, wire, controls>>
    BY <1>7 DEF ReceiveAck, Receive
  <2>2. CASE UNCHANGED <<guardVars, full>>
    <3>1. expected' \subseteq Symbols /\ confirmed' \subseteq Symbols
      BY <1>7 DEF ReceiveAck, CollectorTypes, trackerVars, Forget
    <3> QED BY <2>1, <2>2, <3>1 DEF CollectorTypes, guardVars
  <2>3. CASE Forget /\ Arm(confirmed \cup {s}) /\ full' = generation
    <3>1. window' \in Window
      BY <2>3, ArmTyped DEF ManagerInv, Numbers, CollectorTypes
    <3>2. full' \in 0 .. generation
      BY <2>3 DEF CollectorTypes
    <3> QED BY <2>1, <2>3, <3>1, <3>2 DEF CollectorTypes, Forget, Arm
  <2> QED BY <1>7, <2>2, <2>3 DEF ReceiveAck
<1>8. ASSUME Dispatch, rest' \in 0 .. MaxTicks - 1, phase' = "handling" PROVE CollectorTypes'
  <2>1. awaiting' = FALSE /\ healing' \in BOOLEAN /\ reported' \in BOOLEAN /\ window' \in Window
    BY <1>8, CancelTyped DEF Dispatch
  <2> QED BY <1>8, <2>1 DEF Dispatch, CollectorTypes, trackerVars, serverVars
<1>9. CASE (\E n \in 1 .. MaxTicks : ReceiveTicks(n)) \/ DispatchNext
  BY <1>8, <1>9 DEF ReceiveTicks, DispatchNext, CollectorTypes, loopVars
<1>10. CASE MessageEnds
  BY <1>10 DEF MessageEnds, CollectorTypes, trackerVars, guardVars, serverVars
<1>11. CASE ReceiveOther
  BY <1>1, <1>11 DEF ReceiveOther, Others
<1>12. CASE ConfirmationTimesOut
  BY <1>12 DEF ConfirmationTimesOut, Forget, CollectorTypes, managerVars, loopVars, guardVars, serverVars
<1>13. CASE WriteWindowEnds
  <2>1. window' \in Window
    BY <1>13, VerdictTyped DEF WriteWindowEnds, CollectorTypes
  <2> QED BY <1>13, <2>1 DEF WriteWindowEnds, GuardOnly, CollectorTypes, managerVars, loopVars,
                             trackerVars, serverVars
<1>14. CASE HealCooldownEnds \/ ConsumeStaleDetection
  BY <1>14 DEF HealCooldownEnds, ConsumeStaleDetection, GuardOnly, CollectorTypes, managerVars,
               loopVars, trackerVars, serverVars
<1>15. ASSUME NEW S \in SUBSET Symbols, Subscribe(S) \/ Unsubscribe(S) PROVE CollectorTypes'
  <2>1. UNCHANGED <<phase, expected, confirmed, generation, rest, awaiting, healing, reported,
                    window, full, acked>>
    BY <1>15 DEF Subscribe, Unsubscribe, managerVars, loopVars, trackerVars, guardVars
  <2>2. registry' \subseteq Symbols /\ wire' \subseteq Symbols
    BY <1>15 DEF Subscribe, Unsubscribe, CollectorTypes
  <2>3. controls' \in 0 .. MaxControls
    BY <1>15 DEF Subscribe, Unsubscribe, Control, CollectorTypes
  <2> QED BY <2>1, <2>2, <2>3 DEF CollectorTypes
<1>16. CASE Stop
  <2>1. awaiting' = FALSE /\ healing' \in BOOLEAN /\ reported' \in BOOLEAN /\ window' \in Window
    BY <1>16, CancelTyped DEF Stop
  <2> QED BY <1>16, <2>1 DEF Stop, StopBegins, Forget, CollectorTypes, loopVars, serverVars
<1> QED BY <1>2, <1>3, <1>4, <1>5, <1>6, <1>7, <1>9, <1>10, <1>11, <1>12, <1>13, <1>14,
           <1>15, <1>16 DEF Next

\* The steps that neither connect, resubscribe nor change the registry: they do not
\* touch what the server knows, and bring no connection up.
LEMMA WireRests ==
  ASSUME ManagerInv, Next,
         ~Connect, ~ResubscribeAll, ~(\E S \in SUBSET Symbols : Subscribe(S) \/ Unsubscribe(S))
  PROVE  /\ UNCHANGED <<wire, registry>>
         /\ phase' = "callback" => phase = "callback"
         /\ phase' \in {"listening", "handling"} => phase \in {"listening", "handling"}
         /\ link' = "open" => link = "open"
<1>1. CASE ManagerOnly
  BY <1>1, ManagerOnlyLeaves DEF ManagerOnly, Others, serverVars, Connection
<1>2. CASE ResubscribeFails
  BY <1>2 DEF ResubscribeFails, CallbackRaises, Exited, serverVars
<1>3. ASSUME NEW s \in Symbols, ReceiveAck(s)
      PROVE  UNCHANGED <<wire, registry, phase, link>>
  BY <1>3 DEF ReceiveAck, Receive
<1>4. ASSUME NEW n \in 1 .. MaxTicks, ReceiveTicks(n)
      PROVE  UNCHANGED <<wire, registry, link>> /\ phase = "listening" /\ phase' = "handling"
  BY <1>4 DEF ReceiveTicks, Dispatch, Receive, serverVars
<1>5. CASE DispatchNext
  BY <1>5 DEF DispatchNext, Dispatch, loopVars, socketVars, serverVars
<1>6. CASE MessageEnds
  BY <1>6 DEF MessageEnds, Handled, socketVars, serverVars
<1>7. CASE ReceiveOther
  BY <1>7 DEF ReceiveOther, Receive, serverVars
<1>8. CASE ConfirmationTimesOut \/ WriteWindowEnds \/ HealCooldownEnds \/ ConsumeStaleDetection
  BY <1>8 DEF ConfirmationTimesOut, WriteWindowEnds, HealCooldownEnds, ConsumeStaleDetection,
              GuardOnly, managerVars, loopVars, socketVars, serverVars
<1>9. CASE Stop
  BY <1>9 DEF Stop, StopBegins, Disconnected, Closing, loopVars, serverVars
<1> QED BY <1>1, <1>2, <1>3, <1>4, <1>5, <1>6, <1>7, <1>8, <1>9
        DEF Next, ManagerOnly, LoopStep, Cancelled

\* What the server of an open link is subscribed to keeps agreeing with the registry.
LEMMA WireKeeps ==
  ASSUME ManagerInv, CollectorTypes, WireIsRegistered, WireMatchesRegistry, Next
  PROVE  WireIsRegistered' /\ WireMatchesRegistry'
<1>1. CASE Connect
  BY <1>1 DEF Connect, Connected, WireIsRegistered, WireMatchesRegistry
<1>2. CASE ResubscribeAll
  <2>1. phase = "callback" /\ phase' = "listening" /\ UNCHANGED <<link, registry>>
    BY <1>2 DEF ResubscribeAll, CallbackReturns, socketVars
  <2>2. CASE registry # {} /\ wire' = wire \cup registry
    BY <2>1, <2>2 DEF WireIsRegistered, WireMatchesRegistry
  <2>3. CASE registry = {} /\ UNCHANGED wire
    BY <2>1, <2>3 DEF WireIsRegistered, WireMatchesRegistry
  <2> QED BY <1>2, <2>2, <2>3 DEF ResubscribeAll
<1>3. ASSUME NEW S \in SUBSET Symbols, Subscribe(S) \/ Unsubscribe(S)
      PROVE  WireIsRegistered' /\ WireMatchesRegistry'
  <2>1. UNCHANGED <<phase, link, wsSet>>
    BY <1>3 DEF Subscribe, Unsubscribe, managerVars, loopVars, socketVars
  <2>2. IsConnected <=> link = "open"
    BY DEF IsConnected, ManagerInv, Linked, OpenIsKnown, Flags
  <2>3. CASE Subscribe(S)
    BY <2>1, <2>2, <2>3 DEF Subscribe, WireIsRegistered, WireMatchesRegistry
  <2>4. CASE Unsubscribe(S)
    BY <2>1, <2>2, <2>4 DEF Unsubscribe, WireIsRegistered, WireMatchesRegistry
  <2> QED BY <1>3, <2>3, <2>4
<1>4. CASE /\ ~Connect /\ ~ResubscribeAll
           /\ ~(\E S \in SUBSET Symbols : Subscribe(S) \/ Unsubscribe(S))
  BY <1>4, WireRests DEF WireIsRegistered, WireMatchesRegistry
<1> QED BY <1>1, <1>2, <1>3, <1>4

\* The window of the guard stays one of this connection, for symbols that were
\* acknowledged on it.
LEMMA AcksKeep ==
  ASSUME ManagerInv, CollectorTypes, ConfirmedHere, ArmedByThisConnection, Next
  PROVE  ConfirmedHere' /\ ArmedByThisConnection'
<1> USE DEF ConfirmedHere, ArmedByThisConnection
<1>1. ASSUME UNCHANGED <<generation, acked>>,
             \/ UNCHANGED <<awaiting, window>>
             \/ awaiting' = FALSE,
             \/ confirmed' = {}
             \/ /\ UNCHANGED confirmed
                /\ phase' \in {"listening", "handling"} => phase \in {"listening", "handling"}
      PROVE  ConfirmedHere' /\ ArmedByThisConnection'
  BY <1>1
<1>2. CASE ManagerOnly
  <2>1. UNCHANGED <<generation, acked, awaiting, window, confirmed>>
    BY <1>2 DEF ManagerOnly, Others, trackerVars, guardVars, serverVars
  <2>2. phase' \in {"listening", "handling"} => phase \in {"listening", "handling"}
    BY <1>2, ManagerOnlyLeaves DEF ManagerOnly, Connection
  <2> QED BY <1>1, <2>1, <2>2
<1>3. CASE Connect
  BY <1>3 DEF Connect, Connected, GuardCancel
<1>4. CASE ResubscribeAll \/ ResubscribeFails
  <2>1. UNCHANGED <<generation, acked, awaiting, window>>
    BY <1>4 DEF ResubscribeAll, ResubscribeFails, guardVars, serverVars
  <2>2. confirmed' = {} \/ phase' = "cleanup"
    BY <1>4 DEF ResubscribeAll, ResubscribeFails, CallbackRaises, BeginExpectation, Forget
  <2> QED BY <2>1, <2>2
<1>5. ASSUME NEW s \in Symbols, ReceiveAck(s)
      PROVE  ConfirmedHere' /\ ArmedByThisConnection'
  <2>1. /\ phase = "listening" /\ UNCHANGED <<phase, generation>>
        /\ acked' = acked \cup {s} /\ confirmed \subseteq acked
    BY <1>5 DEF ReceiveAck, Receive
  <2>2. CASE confirmed' = confirmed \cup {s} /\ UNCHANGED guardVars
    BY <2>1, <2>2 DEF guardVars
  <2>3. CASE Forget /\ Arm(confirmed \cup {s})
    <3>1. window'.of = generation /\ window'.symbols = confirmed \cup {s} /\ confirmed' = {}
      BY <2>3 DEF Forget, Arm
    <3> QED BY <2>1, <3>1
  <2>4. CASE UNCHANGED <<trackerVars, guardVars>>
    BY <2>1, <2>4 DEF trackerVars, guardVars
  <2> QED BY <1>5, <2>2, <2>3, <2>4 DEF ReceiveAck
<1>6. ASSUME NEW n \in 1 .. MaxTicks, ReceiveTicks(n)
      PROVE  ConfirmedHere' /\ ArmedByThisConnection'
  <2>1. UNCHANGED <<generation, acked, confirmed>> /\ awaiting' = FALSE /\ phase = "listening"
    BY <1>6 DEF ReceiveTicks, Receive, Dispatch, GuardCancel, trackerVars, serverVars
  <2> QED BY <1>1, <2>1
<1>7. CASE DispatchNext
  <2>1. UNCHANGED <<generation, acked, confirmed, phase>> /\ awaiting' = FALSE
    BY <1>7 DEF DispatchNext, Dispatch, GuardCancel, trackerVars, serverVars, loopVars
  <2> QED BY <1>1, <2>1
<1>8. CASE MessageEnds \/ ReceiveOther
  <2>1. UNCHANGED <<generation, acked, confirmed, awaiting, window>>
        /\ phase \in {"listening", "handling"}
    BY <1>8 DEF MessageEnds, Handled, ReceiveOther, Receive, trackerVars, guardVars, serverVars
  <2> QED BY <1>1, <2>1
<1>9. CASE ConfirmationTimesOut \/ Stop
  <2>1. UNCHANGED <<generation, acked>> /\ confirmed' = {}
        /\ (UNCHANGED <<awaiting, window>> \/ awaiting' = FALSE)
    BY <1>9 DEF ConfirmationTimesOut, Stop, Forget, GuardCancel, guardVars, serverVars
  <2> QED BY <1>1, <2>1
<1>10. CASE WriteWindowEnds \/ HealCooldownEnds \/ ConsumeStaleDetection
  <2>1. UNCHANGED <<generation, acked, confirmed, phase>>
        /\ (UNCHANGED <<awaiting, window>> \/ awaiting' = FALSE)
    BY <1>10 DEF WriteWindowEnds, HealCooldownEnds, ConsumeStaleDetection, GuardOnly,
                 managerVars, loopVars, trackerVars, serverVars
  <2> QED BY <1>1, <2>1
<1>11. ASSUME NEW S \in SUBSET Symbols, Subscribe(S) \/ Unsubscribe(S)
       PROVE  ConfirmedHere' /\ ArmedByThisConnection'
  <2>1. UNCHANGED <<generation, acked, confirmed, awaiting, window, phase>>
    BY <1>11 DEF Subscribe, Unsubscribe, managerVars, loopVars, trackerVars, guardVars
  <2> QED BY <1>1, <2>1
<1> QED BY <1>2, <1>3, <1>4, <1>5, <1>6, <1>7, <1>8, <1>9, <1>10, <1>11
        DEF Next, ManagerOnly, LoopStep, Cancelled

\* The stop event is never taken back.
LEMMA StopIsKept ==
  ASSUME ManagerInv, StopIsSet, Next
  PROVE  StopIsSet'
<1> USE DEF StopIsSet
<1>1. CASE LoopStep
  BY <1>1 DEF LoopStep, Start, ConnectFails, ListenEnds, Cleanup, BackoffEnds, LoopTop
<1>2. CASE Connect \/ ResubscribeAll \/ ResubscribeFails
  BY <1>2 DEF Connect, Connected, ResubscribeAll, ResubscribeFails, CallbackReturns, CallbackRaises
<1>3. CASE \/ \E s \in Symbols : ReceiveAck(s)
           \/ \E n \in 1 .. MaxTicks : ReceiveTicks(n)
           \/ DispatchNext \/ MessageEnds \/ ReceiveOther
  BY <1>3 DEF ReceiveAck, ReceiveTicks, DispatchNext, MessageEnds, ReceiveOther, Receive, Handled
<1>4. CASE UNCHANGED managerVars
  BY <1>4 DEF managerVars
<1>5. CASE Stop \/ Cancelled \/ StopCloses
  BY <1>5 DEF Stop, StopBegins, Cancelled, Cancel, StopCloses
<1>6. CASE Background
  BY <1>6 DEF Background, HealthCut, KeepAliveRefused, KeepAliveBreaks, PeerCloses, GoesQuiet,
              Disconnect, TipWindowEnds, TipCooldownEnds, RecordTipProgress,
              ConsumeTipDetection, TipFails, TipAnswers, MonitorOnly
<1> QED BY <1>1, <1>2, <1>3, <1>4, <1>5, <1>6
        DEF Next, ConfirmationTimesOut, WriteWindowEnds, HealCooldownEnds,
            ConsumeStaleDetection, GuardOnly, Subscribe, Unsubscribe

\* No connection without a cause: the number of connects stays within the faults.
LEMMA CausesKeep ==
  ASSUME ManagerInv, CollectorTypes, StopIsSet, ConnectsAreCaused, Next
  PROVE  ConnectsAreCaused'
<1> USE DEF ConnectsAreCaused, Connection
<1>0. generation \in Nat /\ faults \in Nat
  BY ManagerAssumption DEF ManagerInv, Numbers, CollectorTypes
<1>1. ASSUME Fault, UNCHANGED generation PROVE ConnectsAreCaused'
  BY <1>0, <1>1 DEF Fault
<1>2. ASSUME UNCHANGED <<generation, faults, phase, stopSet, link>>, quiet' = quiet \/ quiet' = FALSE
      PROVE  ConnectsAreCaused'
  BY <1>0, <1>2
<1>3. CASE LoopStep
  <2>1. UNCHANGED generation
    BY <1>3 DEF LoopStep, Others
  <2>2. CASE Start \/ BackoffEnds
    BY <1>0, <2>1, <2>2 DEF Start, BackoffEnds, LoopTop
  <2>3. CASE ConnectFails
    BY <1>1, <2>1, <2>3 DEF ConnectFails
  <2>4. CASE ListenEnds
    BY <1>0, <2>1, <2>4 DEF ListenEnds
  <2>5. CASE Cleanup
    BY <1>0, <2>1, <2>5 DEF Cleanup
  <2> QED BY <1>3, <2>2, <2>3, <2>4, <2>5 DEF LoopStep
<1>4. CASE Connect
  <2>1. /\ generation' = generation + 1 /\ UNCHANGED faults /\ generation <= faults
        /\ phase' = "callback" /\ link' = "open" /\ quiet' = FALSE
    BY <1>4 DEF Connect, Connected
  <2> QED BY <1>0, <2>1
<1>5. CASE ResubscribeAll
  BY <1>0, <1>5 DEF ResubscribeAll, CallbackReturns, socketVars
<1>6. CASE ResubscribeFails
  <2>1. /\ UNCHANGED <<generation, faults, stopSet>>
        /\ phase = "callback" /\ phase' = "cleanup" /\ ~IsConnected
    BY <1>6 DEF ResubscribeFails, CallbackRaises
  <2>2. link # "open"
    BY <2>1 DEF IsConnected, ManagerInv, Linked, OpenIsKnown, Flags
  <2> QED BY <1>0, <2>1, <2>2
<1>7. ASSUME NEW s \in Symbols, ReceiveAck(s) PROVE ConnectsAreCaused'
  BY <1>2, <1>7 DEF ReceiveAck, Receive
<1>8. ASSUME NEW n \in 1 .. MaxTicks, ReceiveTicks(n) PROVE ConnectsAreCaused'
  <2>1. /\ UNCHANGED <<generation, faults, stopSet, link>> /\ quiet' = FALSE
        /\ phase = "listening" /\ phase' = "handling"
    BY <1>8 DEF ReceiveTicks, Receive, Dispatch
  <2> QED BY <1>0, <2>1
<1>9. CASE DispatchNext
  BY <1>2, <1>9 DEF DispatchNext, Dispatch, loopVars, socketVars
<1>10. CASE MessageEnds
  <2>1. /\ UNCHANGED <<generation, faults, stopSet, link, quiet>>
        /\ phase = "handling" /\ phase' = "listening"
    BY <1>10 DEF MessageEnds, Handled, socketVars
  <2> QED BY <1>0, <2>1
<1>11. CASE ReceiveOther
  BY <1>2, <1>11 DEF ReceiveOther, Receive
<1>12. CASE \/ ConfirmationTimesOut \/ WriteWindowEnds \/ HealCooldownEnds \/ ConsumeStaleDetection
            \/ \E S \in SUBSET Symbols : Subscribe(S) \/ Unsubscribe(S)
  BY <1>2, <1>12 DEF ConfirmationTimesOut, WriteWindowEnds, HealCooldownEnds,
                     ConsumeStaleDetection, GuardOnly, Subscribe, Unsubscribe,
                     managerVars, loopVars, socketVars
<1>13. CASE Stop
  <2>1. UNCHANGED <<generation, faults, phase>> /\ stopSet' = TRUE
    BY <1>13 DEF Stop, StopBegins, loopVars
  <2> QED BY <1>0, <2>1
<1>14. CASE Cancelled
  BY <1>1, <1>14 DEF Cancelled, Cancel, Others
<1>15. CASE StopCloses /\ UNCHANGED <<Others, rest>>
  <2>1. UNCHANGED <<generation, faults, phase, stopSet>> /\ stopSet
    BY <1>15 DEF StopCloses, loopVars, Others, StopIsSet, ManagerInv, Flags
  <2> QED BY <1>0, <2>1
<1>16. CASE Background /\ UNCHANGED <<Others, rest>>
  <2>1. UNCHANGED generation
    BY <1>16 DEF Others
  <2>2. CASE HealthCut
    <3>1. quiet /\ UNCHANGED <<faults, phase, stopSet>>
      BY <2>2 DEF HealthCut, loopVars
    <3> QED BY <1>0, <2>1, <3>1
  <2>3. CASE KeepAliveBreaks \/ PeerCloses \/ GoesQuiet \/ Disconnect \/ TipFails
    BY <1>1, <2>1, <2>3 DEF KeepAliveBreaks, PeerCloses, GoesQuiet, Disconnect, TipFails
  <2>4. CASE KeepAliveRefused \/ TipAnswers \/ MonitorSteps
    <3>1. UNCHANGED <<faults, phase, stopSet, link, quiet>>
      BY <2>4 DEF KeepAliveRefused, TipAnswers, MonitorSteps, TipWindowEnds, TipCooldownEnds,
                  RecordTipProgress, ConsumeTipDetection, MonitorOnly, loopVars, socketVars
    <3> QED BY <1>2, <2>1, <3>1
  <2> QED BY <1>16, <2>2, <2>3, <2>4 DEF Background, MonitorSteps
<1> QED BY <1>3, <1>4, <1>5, <1>6, <1>7, <1>8, <1>9, <1>10, <1>11, <1>12, <1>13, <1>14,
           <1>15, <1>16 DEF Next

-----------------------------------------------------------------------------
(* The theorems *)

\* The stream starts in the invariant.
LEMMA CollectorStarts == Init => CollectorInv
<1> SUFFICES ASSUME Init PROVE CollectorInv
  OBVIOUS
<1>1. ManagerInv
  BY ManagerStarts DEF Init
<1>2. CollectorTypes
  <2>1. NoWindow \in Window
    BY DEF NoWindow, Window
  <2>2. 0 \in 0 .. MaxTicks - 1 /\ 0 \in 0 .. MaxControls /\ InitialSymbols \subseteq Symbols
    BY CollectorAssumption
  <2>3. window \in Window /\ awaiting = FALSE /\ healing = FALSE /\ reported = FALSE
    BY <2>1 DEF Init
  <2>4. registry = InitialSymbols /\ expected = {} /\ confirmed = {} /\ wire = {} /\ acked = {}
    BY DEF Init
  <2>5. generation = 0 /\ full = 0 /\ rest = 0 /\ controls = 0
    BY DEF Init
  <2>6. full \in 0 .. generation /\ rest \in 0 .. MaxTicks - 1 /\ controls \in 0 .. MaxControls
    BY <2>2, <2>5
  <2>7. awaiting \in BOOLEAN /\ healing \in BOOLEAN /\ reported \in BOOLEAN
    BY <2>3
  <2>8. generation \in Nat /\ ~(rest > 0)
    BY <2>5
  <2> QED BY <2>2, <2>3, <2>4, <2>6, <2>7, <2>8 DEF CollectorTypes
<1>3. StopIsSet /\ ConnectsAreCaused
  BY DEF Init, ManagerInit, StopIsSet, ConnectsAreCaused, Connection
<1>4. WireIsRegistered /\ WireMatchesRegistry /\ ConfirmedHere /\ ArmedByThisConnection
  BY DEF Init, ManagerInit, WireIsRegistered, WireMatchesRegistry, ConfirmedHere,
         ArmedByThisConnection
<1> QED BY <1>1, <1>2, <1>3, <1>4 DEF CollectorInv

\* Every step keeps it.
LEMMA CollectorKeeps == CollectorInv /\ [Next]_vars => CollectorInv'
<1> SUFFICES ASSUME CollectorInv, [Next]_vars PROVE CollectorInv'
  OBVIOUS
<1> USE DEF CollectorInv
<1>1. CASE Next
  BY <1>1, ManagerKeeps, TypesKeep, StopIsKept, CausesKeep, WireKeeps, AcksKeep
<1>2. CASE UNCHANGED vars
  <2>1. ManagerInv'
    BY <1>2, ManagerStutters DEF vars
  <2>2. UNCHANGED <<phase, link, quiet, stopSet, stopping, faults>>
    BY <1>2 DEF vars, managerVars, loopVars, socketVars
  <2>3. UNCHANGED <<registry, expected, confirmed, generation, rest, awaiting, healing, reported,
                    window, full, wire, acked, controls>>
    BY <1>2 DEF vars, trackerVars, guardVars, serverVars
  <2>4. CollectorTypes'
    BY <2>2, <2>3 DEF CollectorTypes
  <2>5. StopIsSet' /\ ConnectsAreCaused'
    BY <2>2, <2>3 DEF StopIsSet, ConnectsAreCaused
  <2>6. WireIsRegistered' /\ WireMatchesRegistry' /\ ConfirmedHere' /\ ArmedByThisConnection'
    BY <2>2, <2>3 DEF WireIsRegistered, WireMatchesRegistry, ConfirmedHere, ArmedByThisConnection
  <2> QED BY <2>1, <2>4, <2>5, <2>6
<1> QED BY <1>1, <1>2

\* The inductive invariant of the collector, with whatever its network, its peer,
\* its journal and its callers do.
THEOREM CollectorInvariant == Spec => []CollectorInv
  BY CollectorStarts, CollectorKeeps, PTL DEF Spec

\* Type correctness.  That there are never more connects than faults and one is part
\* of it: a connection that nothing disturbs is never replaced.
THEOREM TypeCorrect == Spec => []TypeOK
<1>1. CollectorInv => TypeOK
  <2> SUFFICES ASSUME CollectorInv PROVE TypeOK
    OBVIOUS
  <2>1. ManagerTypeOK
    BY ManagerTypes DEF CollectorInv, ManagerInv
  <2>2. generation \in 0 .. MaxFaults + 1 /\ full \in 0 .. MaxFaults + 1
    <3>1. generation \in Nat /\ faults \in 0 .. MaxFaults /\ generation <= faults + 1
          /\ full \in 0 .. generation
      BY DEF CollectorInv, ManagerInv, Numbers, CollectorTypes, ConnectsAreCaused
    <3> QED BY <3>1, ManagerAssumption
  <2> QED BY <2>1, <2>2 DEF TypeOK, CollectorInv, CollectorTypes
<1> QED BY <1>1, CollectorInvariant, PTL

\* finally: no task and no socket of a connection outlives it, for any order of
\* faults, cancellations and stop().
THEOREM NothingOutlivesItsConnection == Spec => []ConnectionsAreReleased
<1>1. CollectorInv => ConnectionsAreReleased
  BY DEF CollectorInv, ManagerInv, Linked, Released, ConnectionsAreReleased
<1> QED BY <1>1, CollectorInvariant, PTL

\* The tip monitor pairs a close with at most one reconnect.
THEOREM FlapsMatch == Spec => []FlapsAreMatched
<1>1. CollectorInv => FlapsAreMatched
  BY DEF CollectorInv, ManagerInv, Linked
<1> QED BY <1>1, CollectorInvariant, PTL

\* The server of an open connection is subscribed to what the registry holds,
\* for any set of symbols and any interleaving of calls and reconnects.
THEOREM WireIsRight == Spec => []WireMatchesRegistry
<1>1. CollectorInv => WireMatchesRegistry
  BY DEF CollectorInv
<1> QED BY <1>1, CollectorInvariant, PTL

\* The guard's window is one of the connection that is up, for symbols that were
\* all acknowledged on it.
THEOREM GuardIsOfThisConnection == Spec => []ArmedByThisConnection
<1>1. CollectorInv => ArmedByThisConnection
  BY DEF CollectorInv
<1> QED BY <1>1, CollectorInvariant, PTL

=============================================================================
