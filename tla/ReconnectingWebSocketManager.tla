--------------------- MODULE ReconnectingWebSocketManager ---------------------
(***************************************************************************)
(* core/network: the generator that keeps a websocket connected, its       *)
(* watchdog and keep-alive tasks, the retry policy, stop(), and the        *)
(* monitor that watches the journal tip after a flap.                      *)
(*                                                                         *)
(* One event loop runs everything, so what the code does between two       *)
(* awaits is one step.  Time is not measured: a timer that is armed may    *)
(* fire.  The websocket and its peer are external.                         *)
(***************************************************************************)
EXTENDS Integers

CONSTANTS
    Limited,      \* max_retries is a number
    MaxRetries,   \* that number
    MaxTip,       \* bound: the tip of the journal
    MaxFaults     \* bound: what the network and the peer do wrong

ASSUME ManagerAssumption ==
    /\ Limited \in BOOLEAN
    /\ {MaxRetries, MaxTip, MaxFaults} \subseteq Nat

VARIABLES
    phase,      \* where start_connection_and_listen is
    cancelled,  \* the task that runs it was cancelled
    attempt,    \* its local of that name
    stopSet,    \* the stop event
    stopping,   \* how far the caller of stop() is
    wsSet,      \* __ws is not None
    link,       \* the socket: closed orderly, or lost (ConnectionClosedError)
    health,     \* __health_task
    keepAlive,  \* __keep_alive_task, and how it died
    quiet,      \* the silence timeout has run out since the last ping
    pending,    \* monitor: a close was noted and no reconnect yet
    before,     \* monitor: tip_seq_before
    baseline,   \* monitor: what the armed watchdog task compares with, or None
    cooling,    \* monitor: within min_heal_interval_seconds of its last heal
    detected,   \* monitor: last_tip_stale_detection
    tip,        \* latest_seq of the journal
    readable,   \* the tip provider answers
    faults      \* bound: network faults so far

loopVars == <<phase, cancelled, attempt>>
socketVars == <<wsSet, link, quiet>>
taskVars == <<health, keepAlive>>
monitorVars == <<pending, before, baseline, cooling, detected>>
journalVars == <<tip, readable>>
managerVars == <<loopVars, stopSet, stopping, socketVars, taskVars, monitorVars,
                 journalVars, faults>>

None == -1

Finished == phase \in {"ended", "gave up", "escaped"}

Fault == faults < MaxFaults /\ faults' = faults + 1

ManagerInit ==
    /\ phase = "new" /\ cancelled = FALSE /\ attempt = 0
    /\ stopSet = FALSE /\ stopping = "no"
    /\ wsSet = FALSE /\ link = "none" /\ quiet = FALSE
    /\ health = "off" /\ keepAlive = "off"
    /\ pending = FALSE /\ before = None /\ baseline = None
    /\ cooling = FALSE /\ detected = FALSE
    /\ tip = 0 /\ readable = TRUE /\ faults = 0

-----------------------------------------------------------------------------
(* PostFlapTipCorrelationMonitor *)

\* __sample_tip_seq: a provider that raises or returns nothing is no tip.
Sample == IF readable THEN tip ELSE None

Armed == baseline # None

MonitorCancel == baseline' = None

NoteConnectionClosed ==
    /\ pending' = TRUE /\ before' = Sample
    /\ MonitorCancel
    /\ UNCHANGED <<cooling, detected>>

\* Mutant of NoteConnectionRestored: the noted close is not consumed.
NoteConnectionRestoredAgain ==
    /\ baseline' = IF ~pending THEN baseline ELSE IF before # None THEN before ELSE Sample
    /\ UNCHANGED <<pending, before, cooling, detected>>

\* A noted close arms the watchdog, with the tip before it or, when that could
\* not be read, with the tip now; without either it stays unarmed.  A window
\* that is still armed from an earlier flap stays so.
NoteConnectionRestored ==
    /\ pending' = FALSE
    /\ baseline' = IF ~pending THEN baseline ELSE IF before # None THEN before ELSE Sample
    /\ UNCHANGED <<before, cooling, detected>>

MonitorOnly ==
    UNCHANGED <<loopVars, stopSet, stopping, socketVars, taskVars, pending, before,
                journalVars, faults>>

\* Mutant of RecordTipProgress: a tip that stands where it stood is progress.
RecordTipSeen ==
    /\ Armed /\ readable /\ tip >= baseline
    /\ MonitorCancel
    /\ UNCHANGED <<cooling, detected>> /\ MonitorOnly

\* The collector may call it after a journal write.
RecordTipProgress ==
    /\ Armed /\ readable /\ tip > baseline
    /\ MonitorCancel
    /\ UNCHANGED <<cooling, detected>> /\ MonitorOnly

\* The window runs out: on_stale when the tip stands still, unless the last heal
\* is too recent; nothing when the tip cannot be read.
TipWindowEnds ==
    /\ Armed
    /\ MonitorCancel
    /\ \/ /\ readable /\ tip <= baseline /\ ~cooling
          /\ cooling' = TRUE /\ detected' = TRUE
       \/ /\ ~readable \/ tip > baseline \/ cooling
          /\ UNCHANGED <<cooling, detected>>
    /\ MonitorOnly

\* min_heal_interval_seconds are over.
TipCooldownEnds ==
    /\ cooling
    /\ cooling' = FALSE
    /\ UNCHANGED <<baseline, detected>> /\ MonitorOnly

\* consume_last_tip_stale_detection
ConsumeTipDetection ==
    /\ detected
    /\ detected' = FALSE
    /\ UNCHANGED <<baseline, cooling>> /\ MonitorOnly

\* The journal's latest_seq raises for a while.
TipFails ==
    /\ readable /\ Fault
    /\ readable' = FALSE
    /\ UNCHANGED <<loopVars, stopSet, stopping, socketVars, taskVars, monitorVars, tip>>

TipAnswers ==
    /\ ~readable
    /\ readable' = TRUE
    /\ UNCHANGED <<loopVars, stopSet, stopping, socketVars, taskVars, monitorVars, tip, faults>>

-----------------------------------------------------------------------------
(* start_connection_and_listen *)

\* RetryPolicy.can_retry
CanRetry(a) == Limited => a < MaxRetries

\* The top of the while loop.
LoopTop(a) ==
    /\ attempt' = a
    /\ \/ stopSet /\ phase' = "ended" /\ UNCHANGED stopSet
       \/ ~stopSet /\ CanRetry(a) /\ phase' = "connecting" /\ UNCHANGED stopSet
       \/ ~stopSet /\ ~CanRetry(a) /\ phase' = "gave up" /\ stopSet' = TRUE

Start ==
    /\ phase = "new"
    /\ LoopTop(0)
    /\ UNCHANGED <<cancelled, stopping, socketVars, taskVars, monitorVars, journalVars, faults>>

\* Mutant of Connected: the health task is started for the first attempt only.
ConnectedUnwatched ==
    /\ phase = "connecting" /\ phase' = "callback"
    /\ link' = "open" /\ wsSet' = TRUE /\ quiet' = FALSE
    /\ attempt' = 0
    /\ health' = (IF stopSet \/ attempt > 0 THEN "off" ELSE "on") /\ keepAlive' = "on"
    /\ NoteConnectionRestored
    /\ UNCHANGED <<cancelled, stopSet, stopping, journalVars, faults>>

\* The handshake succeeds: a stop() since it began changes nothing, but the
\* health loop sees the stop event before it first sleeps.
Connected ==
    /\ phase = "connecting" /\ phase' = "callback"
    /\ link' = "open" /\ wsSet' = TRUE /\ quiet' = FALSE
    /\ attempt' = 0
    /\ health' = (IF stopSet THEN "off" ELSE "on") /\ keepAlive' = "on"
    /\ NoteConnectionRestored
    /\ UNCHANGED <<cancelled, stopSet, stopping, journalVars, faults>>

\* The handshake fails or outlasts connect_timeout.
ConnectFails ==
    /\ phase = "connecting" /\ Fault
    /\ phase' = "cleanup"
    /\ UNCHANGED <<cancelled, attempt, stopSet, stopping, socketVars, taskVars,
                   monitorVars, journalVars>>

IsConnected == wsSet /\ link = "open"

CallbackReturns ==
    /\ phase = "callback" /\ phase' = "listening"
    /\ UNCHANGED <<cancelled, attempt, stopSet, stopping, socketVars, taskVars,
                   monitorVars, journalVars, faults>>

\* Leaving the connection's context manager closes the socket.
Exited == IF link = "open" THEN "closed" ELSE link

CallbackRaises ==
    /\ phase = "callback" /\ phase' = "cleanup"
    /\ link' = Exited
    /\ UNCHANGED <<cancelled, attempt, stopSet, stopping, wsSet, quiet, taskVars,
                   monitorVars, journalVars, faults>>

\* A message pings the watchdog and goes to the stream.  What the peer had sent
\* before the link broke is still received.
Receive ==
    /\ phase = "listening" /\ link # "none"
    /\ quiet' = FALSE
    /\ UNCHANGED <<cancelled, attempt, stopSet, stopping, wsSet, link, taskVars,
                   monitorVars, readable, faults>>

\* The stream asks for the next message.
Handled ==
    /\ phase = "handling" /\ phase' = "listening"
    /\ UNCHANGED <<cancelled, attempt, stopSet, stopping, socketVars, taskVars,
                   monitorVars, readable, faults>>

\* The message loop ends: by ConnectionClosed, which is noted as the start of a
\* flap, or silently after an orderly close.
ListenEnds ==
    /\ phase = "listening" /\ link \in {"lost", "closed"}
    /\ \/ link = "lost" /\ NoteConnectionClosed
       \/ link = "closed" /\ UNCHANGED monitorVars
    /\ phase' = "cleanup"
    /\ UNCHANGED <<cancelled, attempt, stopSet, stopping, socketVars, taskVars, journalVars, faults>>

\* Mutant of Cleanup: the keep-alive task is left running.
CleanupForgetsKeepAlive ==
    /\ phase = "cleanup"
    /\ health' = "off" /\ UNCHANGED keepAlive
    /\ wsSet' = FALSE /\ link' = "none"
    /\ phase' = IF cancelled \/ stopSet THEN "ended" ELSE "backoff"
    /\ UNCHANGED <<cancelled, attempt, stopSet, stopping, quiet, monitorVars, journalVars, faults>>

\* Mutant of Cleanup: an orderly close is taken for the end.
CleanupEndsWhenClosed ==
    /\ phase = "cleanup"
    /\ \/ /\ "raised" \in {health, keepAlive}
          /\ phase' = "escaped"
          /\ UNCHANGED <<wsSet, link, health, keepAlive>>
       \/ /\ "raised" \notin {health, keepAlive}
          /\ health' = "off" /\ keepAlive' = "off"
          /\ wsSet' = FALSE /\ link' = "none"
          /\ phase' = IF cancelled \/ stopSet \/ link = "closed" THEN "ended" ELSE "backoff"
    /\ UNCHANGED <<cancelled, attempt, stopSet, stopping, quiet, monitorVars, journalVars, faults>>

\* The finally block.  A task that died of ConnectionClosed, which is no
\* ConnectionError, raises it here, out of the generator.  A cancellation that
\* arrives in this block is swallowed with the task's and has no effect.
Cleanup ==
    /\ phase = "cleanup"
    /\ \/ /\ "raised" \in {health, keepAlive}
          /\ phase' = "escaped"
          /\ UNCHANGED <<wsSet, link, health, keepAlive>>
       \/ /\ "raised" \notin {health, keepAlive}
          /\ health' = "off" /\ keepAlive' = "off"
          /\ wsSet' = FALSE /\ link' = "none"
          /\ phase' = IF cancelled \/ stopSet THEN "ended" ELSE "backoff"
    /\ UNCHANGED <<cancelled, attempt, stopSet, stopping, quiet, monitorVars, journalVars, faults>>

\* The delay is over or the stop event is set.
BackoffEnds ==
    /\ phase = "backoff"
    /\ LoopTop(attempt + 1)
    /\ UNCHANGED <<cancelled, stopping, socketVars, taskVars, monitorVars, journalVars, faults>>

\* The task is cancelled where it waits; a generator that is left in the middle
\* of a message is closed and runs its finally block too.
Cancel ==
    /\ Fault
    /\ phase \in {"connecting", "callback", "listening", "handling", "backoff"}
    /\ phase' = IF phase = "backoff" THEN "ended" ELSE "cleanup"
    /\ cancelled' = TRUE
    /\ link' = Exited
    /\ UNCHANGED <<attempt, stopSet, stopping, wsSet, quiet, taskVars, monitorVars, journalVars>>

-----------------------------------------------------------------------------
(* Background tasks and the socket *)

\* ws.close(): a peer that does not answer leaves the socket lost.
Closing == link' \in (IF link = "open" THEN {"closed", "lost"} ELSE {link})

\* disconnect.  Nothing can connect again between the close and the reset.
Disconnected ==
    /\ wsSet' = FALSE
    /\ IF wsSet THEN Closing ELSE UNCHANGED link

\* The health loop finds the silence too long: the keep-alive task is cancelled
\* and awaited, then the connection is closed and the loop ends.
HealthCut ==
    /\ health = "on" /\ quiet
    /\ \/ keepAlive = "raised" /\ health' = "raised" /\ UNCHANGED <<keepAlive, wsSet, link>>
       \/ keepAlive # "raised" /\ keepAlive' = "off" /\ health' = "off" /\ Disconnected
    /\ UNCHANGED <<loopVars, stopSet, stopping, quiet, monitorVars, journalVars, faults>>

\* Its send finds no open socket: ConnectionError.
KeepAliveRefused ==
    /\ keepAlive = "on" /\ ~IsConnected
    /\ keepAlive' = "refused"
    /\ UNCHANGED <<loopVars, stopSet, stopping, socketVars, health, monitorVars, journalVars, faults>>

\* The socket breaks in its send: ConnectionClosed.
KeepAliveBreaks ==
    /\ keepAlive = "on" /\ IsConnected /\ Fault
    /\ keepAlive' = "raised" /\ link' \in {"closed", "lost"}
    /\ UNCHANGED <<loopVars, stopSet, stopping, wsSet, quiet, health, monitorVars, journalVars>>

PeerCloses ==
    /\ link = "open" /\ Fault
    /\ link' \in {"closed", "lost"}
    /\ UNCHANGED <<loopVars, stopSet, stopping, wsSet, quiet, taskVars, monitorVars, journalVars>>

GoesQuiet ==
    /\ link = "open" /\ ~quiet /\ Fault
    /\ quiet' = TRUE
    /\ UNCHANGED <<loopVars, stopSet, stopping, wsSet, link, taskVars, monitorVars, journalVars>>

\* disconnect() called from outside
Disconnect ==
    /\ wsSet /\ Fault
    /\ Disconnected
    /\ UNCHANGED <<loopVars, stopSet, stopping, quiet, taskVars, monitorVars, journalVars>>

-----------------------------------------------------------------------------
(* stop *)

\* The event is set, the monitor cancelled and the health task cancelled and
\* awaited; without background tasks nothing is awaited but the close.
StopBegins ==
    /\ stopping = "no"
    /\ stopSet' = TRUE /\ MonitorCancel
    /\ \/ /\ {health, keepAlive} = {"off"}
          /\ Disconnected
          /\ stopping' = "returned"
          /\ UNCHANGED health
       \/ /\ health = "raised"
          /\ stopping' = "raised"
          /\ UNCHANGED <<wsSet, link, health>>
       \/ /\ {health, keepAlive} # {"off"} /\ health # "raised"
          /\ health' = "off"
          /\ stopping' = "tasks"
          /\ UNCHANGED <<wsSet, link>>
    /\ UNCHANGED <<loopVars, quiet, keepAlive, pending, before, cooling, detected,
                   journalVars, faults>>

\* Mutant of StopCloses: the socket is left to its peer.
StopClosesNothing ==
    /\ stopping = "tasks"
    /\ keepAlive' = "off" /\ stopping' = "returned"
    /\ UNCHANGED <<loopVars, stopSet, socketVars, health, monitorVars, journalVars, faults>>

\* Then the keep-alive task, and the close.
StopCloses ==
    /\ stopping = "tasks"
    /\ \/ /\ keepAlive = "raised"
          /\ stopping' = "raised"
          /\ UNCHANGED <<wsSet, link, keepAlive>>
       \/ /\ keepAlive # "raised"
          /\ keepAlive' = "off" /\ stopping' = "returned"
          /\ Disconnected
    /\ UNCHANGED <<loopVars, stopSet, quiet, health, monitorVars, journalVars, faults>>

-----------------------------------------------------------------------------
Background ==
    \/ HealthCut \/ KeepAliveRefused \/ KeepAliveBreaks
    \/ PeerCloses \/ GoesQuiet \/ Disconnect
    \/ TipWindowEnds \/ TipCooldownEnds \/ RecordTipProgress \/ ConsumeTipDetection
    \/ TipFails \/ TipAnswers

-----------------------------------------------------------------------------
(* Properties *)

ManagerTypeOK ==
    /\ phase \in {"new", "connecting", "callback", "listening", "handling", "cleanup",
                  "backoff", "ended", "gave up", "escaped"}
    /\ attempt \in Nat /\ (Limited => attempt <= MaxRetries)
    /\ stopping \in {"no", "tasks", "returned", "raised"}
    /\ link \in {"none", "open", "closed", "lost"}
    /\ health \in {"off", "on", "raised"}
    /\ keepAlive \in {"off", "on", "refused", "raised"}
    /\ {cancelled, stopSet, wsSet, quiet, pending, cooling, detected, readable} \subseteq BOOLEAN
    /\ {before, baseline} \subseteq {None} \cup 0 .. MaxTip
    /\ tip \in 0 .. MaxTip
    /\ faults \in 0 .. MaxFaults

\* No background task and no socket outlives its connection: between two
\* attempts, and after the generator has ended in any way but by an exception
\* of a task, everything that belonged to the last one is gone.
ConnectionsAreReleased ==
    phase \in {"connecting", "backoff", "ended", "gave up"} =>
        health = "off" /\ keepAlive = "off" /\ link = "none" /\ ~wsSet

\* A close that the monitor noted is matched by the next reconnect, once: while a
\* connection is up none is pending, so that a reconnect after an orderly close
\* is not taken for the end of a flap, and none is watched twice.
FlapsAreMatched == pending => link # "open"

=============================================================================
