---------------------------- MODULE CollectorStream ----------------------------
(***************************************************************************)
(* exchanges/base_stream.py with the subscription registry, the tracker of *)
(* subscription acknowledgements, the write-liveness guard and the journal *)
(* dispatcher, on top of the connection manager: what a collector does     *)
(* from a connect to the first journal write after it.                     *)
(*                                                                         *)
(* The actions of ReconnectingWebSocketManager take part as conjuncts.     *)
(***************************************************************************)
EXTENDS ReconnectingWebSocketManager, FiniteSets

CONSTANTS
    Symbols,         \* instrument ids
    InitialSymbols,  \* the symbols of the constructor
    MaxTicks,        \* bound: ticks in one message
    MaxControls      \* bound: calls of subscribe and unsubscribe

ASSUME CollectorAssumption ==
    /\ InitialSymbols \subseteq Symbols
    /\ MaxTicks \in Nat \ {0}
    /\ MaxControls \in Nat

VARIABLES
    registry,    \* SubscriptionRegistry
    expected,    \* tracker: the expected set, empty when no window is open
    confirmed,   \* tracker: the confirmed set
    generation,  \* connect_generation
    rest,        \* ticks of the message in hand that are not dispatched yet
    awaiting,    \* guard: the await-write watchdog task
    healing,     \* guard: within min_heal_interval_seconds of its last heal
    reported,    \* guard: last_stale_detection
    wire,        \* history: what the server of this connection is subscribed to
    acked,       \* history: the acks delivered on this connection
    window,      \* history: the guard's last window
    full,        \* history: the last connect whose symbols were all acked in time
    controls     \* bound: calls so far

trackerVars == <<expected, confirmed>>
guardVars == <<awaiting, healing, reported, window>>
serverVars == <<wire, acked>>
vars == <<managerVars, registry, trackerVars, generation, rest, guardVars, full, serverVars,
          controls>>

\* Of the guard's last window: the connection it was armed on, the symbols, the
\* tip then, and how it ended.
Window == [of : Nat, symbols : SUBSET Symbols, tip : Nat,
           verdict : {"none", "open", "satisfied", "stale", "suppressed", "cancelled"}]

NoWindow == [of |-> 0, symbols |-> {}, tip |-> 0, verdict |-> "none"]

Init ==
    /\ ManagerInit
    /\ registry = InitialSymbols
    /\ expected = {} /\ confirmed = {}
    /\ generation = 0 /\ rest = 0
    /\ awaiting = FALSE /\ healing = FALSE /\ reported = FALSE /\ window = NoWindow
    /\ full = 0
    /\ wire = {} /\ acked = {}
    /\ controls = 0

Control == controls < MaxControls /\ controls' = controls + 1

-----------------------------------------------------------------------------
(* SubscriptionConfirmationTracker *)

Forget == expected' = {} /\ confirmed' = {}

\* Mutant of BeginExpectation: earlier acknowledgements still count.
BeginExpectationKeeps(S) == expected' = S /\ confirmed' = confirmed \cap S

BeginExpectation(S) == expected' = S /\ confirmed' = {}

-----------------------------------------------------------------------------
(* PostReconnectWriteLivenessGuard *)

Verdict(v) == window' = IF awaiting THEN [window EXCEPT !.verdict = v] ELSE window

\* cancel, for the reason v
GuardCancel(v) ==
    /\ awaiting' = FALSE /\ Verdict(v)
    /\ UNCHANGED <<healing, reported>>

\* Mutant of Arm: the first connect of a process is skipped.
ArmButFirst(S) ==
    /\ IF generation = 1
       THEN UNCHANGED <<awaiting, window>>
       ELSE /\ awaiting' = TRUE
            /\ window' = [of |-> generation, symbols |-> S, tip |-> tip, verdict |-> "open"]
    /\ UNCHANGED <<healing, reported>>

\* arm_after_subscriptions_confirmed
Arm(S) ==
    /\ awaiting' = TRUE
    /\ window' = [of |-> generation, symbols |-> S, tip |-> tip, verdict |-> "open"]
    /\ UNCHANGED <<healing, reported>>

GuardOnly ==
    UNCHANGED <<managerVars, registry, trackerVars, generation, rest, full, serverVars, controls>>

\* No write within timeout_seconds: on_stale, unless the last one is too recent.
WriteWindowEnds ==
    /\ awaiting
    /\ awaiting' = FALSE
    /\ \/ ~healing /\ Verdict("stale") /\ reported' = TRUE
       \/ healing /\ Verdict("suppressed") /\ UNCHANGED reported
    /\ healing' = TRUE
    /\ GuardOnly

HealCooldownEnds ==
    /\ healing
    /\ healing' = FALSE
    /\ UNCHANGED <<awaiting, reported, window>> /\ GuardOnly

\* consume_last_stale_detection
ConsumeStaleDetection ==
    /\ reported
    /\ reported' = FALSE
    /\ UNCHANGED <<awaiting, healing, window>> /\ GuardOnly

-----------------------------------------------------------------------------
(* Connects *)

\* The connection is up and __handle_connect starts: the guard's window is
\* cancelled, the reconnect callbacks are awaited.
Connect ==
    /\ Connected
    /\ generation' = generation + 1
    /\ GuardCancel("cancelled")
    /\ wire' = {} /\ acked' = {}
    /\ UNCHANGED <<registry, trackerVars, rest, full, controls>>

\* Mutants of ResubscribeAll: the connect is counted again; it sends the symbols of the constructor.
ResubscribeCounts ==
    /\ CallbackReturns
    /\ IsConnected
    /\ wire' = wire \cup registry
    /\ BeginExpectation(registry)
    /\ generation' = generation + 1
    /\ UNCHANGED <<registry, rest, guardVars, full, acked, controls>>

ResubscribeInitial ==
    /\ CallbackReturns
    /\ IsConnected
    /\ wire' = wire \cup InitialSymbols
    /\ BeginExpectation(InitialSymbols)
    /\ UNCHANGED <<registry, generation, rest, guardVars, full, acked, controls>>

\* _resubscribe_all: the registered symbols are sent in one payload and expected;
\* without a symbol nothing is sent.
ResubscribeAll ==
    /\ CallbackReturns
    /\ \/ /\ registry # {} /\ IsConnected
          /\ wire' = wire \cup registry
          /\ BeginExpectation(registry)
       \/ /\ registry = {}
          /\ Forget
          /\ UNCHANGED wire
    /\ UNCHANGED <<registry, generation, rest, guardVars, full, acked, controls>>

\* The send finds no open socket, or loses it.
ResubscribeFails ==
    /\ CallbackRaises
    /\ registry # {} /\ ~IsConnected
    /\ UNCHANGED <<registry, trackerVars, generation, rest, guardVars, full, serverVars, controls>>

-----------------------------------------------------------------------------
(* Messages *)

\* A subscribe event for a symbol that this connection asked for.
ReceiveAck(s) ==
    /\ Receive /\ s \in wire \cup expected
    /\ acked' = acked \cup {s}
    /\ LET now == confirmed \cup {s}
       IN  \/ /\ s \in expected \ confirmed /\ now # expected
              /\ confirmed' = now
              /\ UNCHANGED <<expected, guardVars, full>>
           \/ /\ s \in expected \ confirmed /\ now = expected
              /\ Forget /\ Arm(now)
              /\ full' = generation
           \/ /\ s \notin expected \ confirmed
              /\ UNCHANGED <<trackerVars, guardVars, full>>
    /\ UNCHANGED <<phase, tip, registry, generation, rest, wire, controls>>

\* The acks are not all there in time: the window is closed, a later ack ignored.
ConfirmationTimesOut ==
    /\ expected # {}
    /\ Forget
    /\ UNCHANGED <<managerVars, registry, generation, rest, guardVars, full, serverVars, controls>>

\* JournalDispatchDecorator.dispatch: a tick that the journal holds is not written
\* again, and the guard is told of a write all the same.
Dispatch ==
    /\ \/ tip < MaxTip /\ tip' = tip + 1
       \/ tip > 0 /\ UNCHANGED tip
    /\ GuardCancel("satisfied")
    /\ UNCHANGED <<registry, trackerVars, generation, full, serverVars, controls>>

\* A trade message: its first tick is dispatched, and the queue and the observers
\* awaited.
ReceiveTicks(n) ==
    /\ Receive /\ wire # {}
    /\ phase' = "handling" /\ rest' = n - 1
    /\ Dispatch

\* The next tick of the message, whatever has become of the link meanwhile.
DispatchNext ==
    /\ phase = "handling" /\ rest > 0
    /\ rest' = rest - 1
    /\ Dispatch
    /\ UNCHANGED <<loopVars, stopSet, stopping, socketVars, taskVars, monitorVars,
                   readable, faults>>

\* All ticks are handled, or a dispatch raises: the rest of the message is dropped.
MessageEnds ==
    /\ Handled
    /\ rest' = 0
    /\ UNCHANGED <<tip, registry, trackerVars, generation, guardVars, full, serverVars, controls>>

\* Everything else: a pong, an error, a message that is not parsed, a tick whose
\* append raises.
ReceiveOther ==
    /\ Receive
    /\ UNCHANGED <<phase, tip, registry, trackerVars, generation, rest, guardVars, full,
                   serverVars, controls>>

-----------------------------------------------------------------------------
(* Calls *)

\* subscribe_symbol(s): what is new is registered first, then sent in one payload;
\* the send raises to the caller when there is no open socket.
Subscribe(S) ==
    /\ Control /\ S \ registry # {}
    /\ registry' = registry \cup S
    /\ wire' = IF IsConnected THEN wire \cup (S \ registry) ELSE wire
    /\ UNCHANGED <<managerVars, trackerVars, generation, rest, guardVars, full, acked>>

Unsubscribe(S) ==
    /\ Control /\ S \cap registry # {}
    /\ registry' = registry \ S
    /\ wire' = IF IsConnected THEN wire \ (S \cap registry) ELSE wire
    /\ UNCHANGED <<managerVars, trackerVars, generation, rest, guardVars, full, acked>>

\* stop(): the tracker, the guard, then the manager.
Stop ==
    /\ StopBegins
    /\ Forget /\ GuardCancel("cancelled")
    /\ UNCHANGED <<registry, generation, rest, full, serverVars, controls>>

-----------------------------------------------------------------------------
Others == <<registry, trackerVars, generation, guardVars, full, serverVars, controls>>

LoopStep ==
    /\ Start \/ ConnectFails \/ ListenEnds \/ Cleanup \/ BackoffEnds
    /\ UNCHANGED <<Others, rest>>

\* A task that is cancelled in the middle of a message leaves the rest of it.
Cancelled == Cancel /\ rest' = 0 /\ UNCHANGED Others

Next ==
    \/ LoopStep
    \/ Connect \/ ResubscribeAll \/ ResubscribeFails
    \/ \E s \in Symbols : ReceiveAck(s)
    \/ \E n \in 1 .. MaxTicks : ReceiveTicks(n)
    \/ DispatchNext \/ MessageEnds \/ ReceiveOther
    \/ ConfirmationTimesOut \/ WriteWindowEnds \/ HealCooldownEnds \/ ConsumeStaleDetection
    \/ \E S \in SUBSET Symbols : Subscribe(S) \/ Unsubscribe(S)
    \/ Stop \/ Cancelled
    \/ (StopCloses \/ Background) /\ UNCHANGED <<Others, rest>>

\* The event loop runs what is ready, a handshake, a callback, the observers and
\* the queue end, and a timer that stays armed fires.  A lost link has only so many
\* messages left, so the loop that drains them comes to its end (SF).  Nobody
\* promises a message, a call or a fault.
Fairness ==
    /\ SF_vars(ListenEnds /\ UNCHANGED <<Others, rest>>)
    /\ WF_vars((Cleanup \/ BackoffEnds) /\ UNCHANGED <<Others, rest>>)
    /\ WF_vars(Connect)
    /\ WF_vars(ResubscribeAll \/ ResubscribeFails)
    /\ WF_vars(DispatchNext \/ MessageEnds)
    /\ WF_vars(HealthCut /\ UNCHANGED <<Others, rest>>)
    /\ WF_vars(StopCloses /\ UNCHANGED <<Others, rest>>)
    /\ WF_vars(ConfirmationTimesOut)
    /\ WF_vars(WriteWindowEnds)
    /\ WF_vars(TipWindowEnds /\ UNCHANGED <<Others, rest>>)

Spec == Init /\ [][Next]_vars

FairSpec == Spec /\ Fairness

-----------------------------------------------------------------------------
(* Properties *)

TypeOK ==
    /\ ManagerTypeOK
    /\ {registry, expected, confirmed, wire, acked} \subseteq SUBSET Symbols
    /\ generation \in 0 .. MaxFaults + 1
    /\ rest \in 0 .. MaxTicks - 1 /\ (rest > 0 => phase = "handling")
    /\ {awaiting, healing, reported} \subseteq BOOLEAN
    /\ window \in Window /\ full \in 0 .. MaxFaults + 1
    /\ controls \in 0 .. MaxControls

\* Once a connection has resubscribed and while it is open, the server is
\* subscribed to exactly the registered symbols, whatever was subscribed or
\* unsubscribed before, during and after the reconnect.
WireMatchesRegistry ==
    phase \in {"listening", "handling"} /\ link = "open" => wire = registry

\* A window of the guard stands for the connection that is up, and for symbols
\* that were all acknowledged on that connection: neither the acknowledgements
\* nor the window of an earlier connection count.
ArmedByThisConnection ==
    awaiting => window.of = generation /\ window.symbols \subseteq acked

\* When all symbols that a resubscription asked for are acknowledged in time, the
\* guard decides: a dispatched tick, staleness, or the end of the connection or of
\* the stream.  The first connect of a process is no exception.
FullConfirmIsJudged ==
    \A g \in 1 .. MaxFaults + 1 :
        full = g ~> window.of >= g /\ window.verdict # "open"

\* A flap after which the journal stands still heals: from a noted close on, the
\* tip passes what it was then, or staleness is reported, unless the monitor cannot
\* read the tip, has just healed, or the stream ends.
MuteFlapHeals ==
    \A t \in 0 .. MaxTip :
        pending /\ before = t ~>
            tip > t \/ detected \/ cooling \/ ~readable \/ stopSet \/ Finished

\* A link that is gone is tried again, however it went, unless the stream is told
\* to end or a task of the connection died of the break.
LostLinkIsRetried ==
    phase = "listening" /\ link # "open" ~>
        phase = "connecting" \/ stopSet \/ cancelled \/ "raised" \in {health, keepAlive}

\* A link that has gone silent is cut, with whatever the keep-alive task has met,
\* unless it speaks again.
SilentLinkIsCut ==
    (phase = "listening" /\ quiet /\ ~stopSet) ~> (phase # "listening" \/ ~quiet)

\* stop() ends the generator when it finds it connected or waiting to reconnect.
StopEnds == (stopping = "tasks" \/ (stopSet /\ phase = "backoff")) ~> Finished

================================================================================
