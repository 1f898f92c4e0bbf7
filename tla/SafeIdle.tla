------------------------------ MODULE SafeIdle ------------------------------
(***************************************************************************)
(* The safe_idle runtime, worker/doc_worker/runtime.py: a main thread that *)
(* serves health probes, a heartbeat thread, and a signal handler that     *)
(* asks both to stop.                                                      *)
(*                                                                         *)
(* The interpreter runs a signal handler on the main thread, between two   *)
(* of its instructions, on top of whatever it is doing: of the main code   *)
(* or of another run of the handler.  Event.set takes the event's lock,    *)
(* which is not reentrant.  Each probe is answered on a thread of its own. *)
(***************************************************************************)
EXTENDS Naturals, Sequences, FiniteSets

CONSTANTS
  Probe,       \* requests of the health server's clients
  MaxSignals,  \* bound on the signals received
  MaxBeats     \* bound on the heartbeat counter

ASSUME SignalAssumption == MaxSignals \in Nat /\ MaxBeats \in Nat

Stopper == 1..MaxSignals

VARIABLES
  main,       \* where run_safe_idle is
  frames,     \* where each run of the signal handler is, the innermost last
  held,       \* the main thread holds the lock of the event stopping
  stopping,   \* the event's flag
  requested,  \* the server's shutdown request
  shutDown,   \* the server's loop has ended
  heart,      \* where heartbeat_loop is
  stopper,    \* where each shutdown thread is
  signals,    \* signals received
  beats,      \* heartbeat_count
  late,       \* ghost: heartbeats counted after stopping was set
  probe       \* how far each request for a health probe is, and its answer

vars == <<main, frames, held, stopping, requested, shutDown, heart, stopper, signals,
          beats, late, probe>>

Top == frames[Len(frames)]
GotoFrame(step) == frames' = [frames EXCEPT ![Len(frames)] = step]
Return == frames' = SubSeq(frames, 1, Len(frames) - 1)

\* The main code goes on when no handler runs on top of it.
Goto(from, to) == frames = <<>> /\ main = from /\ main' = to

\* Daemon threads die with the main thread.
Alive == main # "stopped"

-----------------------------------------------------------------------------
(* The signal handler stop, installed for SIGTERM and SIGINT.              *)

\* A signal arrives, at any instruction of the main thread.
Signal ==
  /\ Alive /\ signals < MaxSignals
  /\ signals' = signals + 1
  /\ frames' = Append(frames, "enter")
  /\ UNCHANGED <<main, held, stopping, requested, shutDown, heart, stopper, beats, late,
                 probe>>

\* state.stopping.set() waits for the lock of the event.
HandlerLock ==
  /\ frames # <<>> /\ Top = "enter" /\ ~held
  /\ held' = TRUE
  /\ GotoFrame("locked")
  /\ UNCHANGED <<main, stopping, requested, shutDown, heart, stopper, signals, beats,
                 late, probe>>

\* Mutant: the lock is not released.
HandlerSetKeepsLock ==
  /\ frames # <<>> /\ Top = "locked"
  /\ stopping' = TRUE
  /\ GotoFrame("spawn")
  /\ UNCHANGED <<main, held, requested, shutDown, heart, stopper, signals, beats, late,
                 probe>>

\* It sets the flag, wakes the heartbeat and releases the lock.
HandlerSet ==
  /\ frames # <<>> /\ Top = "locked"
  /\ stopping' = TRUE /\ held' = FALSE
  /\ GotoFrame("spawn")
  /\ UNCHANGED <<main, requested, shutDown, heart, stopper, signals, beats, late, probe>>

\* Mutant: server.shutdown() is called in the handler itself.
HandlerSpawnInline ==
  /\ frames # <<>> /\ Top = "spawn" /\ shutDown
  /\ requested' = TRUE
  /\ Return
  /\ UNCHANGED <<main, held, stopping, shutDown, heart, stopper, signals, beats, late,
                 probe>>

\* A new thread will call server.shutdown(), and the handler returns.
HandlerSpawn ==
  /\ frames # <<>> /\ Top = "spawn"
  /\ stopper' = [stopper EXCEPT ![CHOOSE i \in Stopper : stopper[i] = "none"] = "request"]
  /\ Return
  /\ UNCHANGED <<main, held, stopping, requested, shutDown, heart, signals, beats, late,
                 probe>>

\* BaseServer.shutdown: ask the loop to end, then wait until it has.
ShutdownRequest(i) ==
  /\ Alive /\ stopper[i] = "request"
  /\ requested' = TRUE
  /\ stopper' = [stopper EXCEPT ![i] = "wait"]
  /\ UNCHANGED <<main, frames, held, stopping, shutDown, heart, signals, beats, late,
                 probe>>

ShutdownReturns(i) ==
  /\ Alive /\ stopper[i] = "wait" /\ shutDown
  /\ stopper' = [stopper EXCEPT ![i] = "ended"]
  /\ UNCHANGED <<main, frames, held, stopping, requested, shutDown, heart, signals, beats,
                 late, probe>>

-----------------------------------------------------------------------------
(* run_safe_idle.                                                          *)

StartHeartbeat ==
  /\ Goto("boot", "enter_serve")
  /\ heart' = "check"
  /\ UNCHANGED <<frames, held, stopping, requested, shutDown, stopper, signals, beats,
                 late, probe>>

\* Mutant: a request made before the loop began is forgotten.
ServeBeginForgets ==
  /\ Goto("enter_serve", "serving")
  /\ shutDown' = FALSE /\ requested' = FALSE
  /\ UNCHANGED <<frames, held, stopping, heart, stopper, signals, beats, late, probe>>

\* serve_forever clears its event, and keeps a request made before it.
ServeBegin ==
  /\ Goto("enter_serve", "serving")
  /\ shutDown' = FALSE
  /\ UNCHANGED <<frames, held, stopping, requested, heart, stopper, signals, beats, late,
                 probe>>

\* Mutant: the loop may end by itself.
ServeEndUnasked ==
  /\ Goto("serving", "finally")
  /\ requested' = FALSE /\ shutDown' = TRUE
  /\ UNCHANGED <<frames, held, stopping, heart, stopper, signals, beats, late, probe>>

ServeEnd ==
  /\ requested
  /\ Goto("serving", "finally")
  /\ requested' = FALSE /\ shutDown' = TRUE
  /\ UNCHANGED <<frames, held, stopping, heart, stopper, signals, beats, late, probe>>

\* The finally clause sets the event once more.
FinallyLock ==
  /\ ~held
  /\ Goto("finally", "finally_locked")
  /\ held' = TRUE
  /\ UNCHANGED <<frames, stopping, requested, shutDown, heart, stopper, signals, beats,
                 late, probe>>

FinallySet ==
  /\ Goto("finally_locked", "join")
  /\ stopping' = TRUE /\ held' = FALSE
  /\ UNCHANGED <<frames, requested, shutDown, heart, stopper, signals, beats, late,
                 probe>>

\* heartbeat.join returns when the thread has ended, or after its timeout; then the
\* server is closed and run_safe_idle returns.
JoinAndClose ==
  /\ Goto("join", "stopped")
  /\ UNCHANGED <<frames, held, stopping, requested, shutDown, heart, stopper, signals,
                 beats, late, probe>>

-----------------------------------------------------------------------------
(* heartbeat_loop.                                                         *)

\* stopping.wait looks at the flag under the lock, and waits when it is not set.
HeartCheck ==
  /\ Alive /\ heart = "check" /\ ~held
  /\ heart' = IF stopping THEN "ended" ELSE "wait"
  /\ UNCHANGED <<main, frames, held, stopping, requested, shutDown, stopper, signals,
                 beats, late, probe>>

\* set() wakes it: wait returns TRUE.
HeartNotified ==
  /\ Alive /\ heart = "wait" /\ stopping /\ ~held
  /\ heart' = "ended"
  /\ UNCHANGED <<main, frames, held, stopping, requested, shutDown, stopper, signals,
                 beats, late, probe>>

\* The timeout ends the wait: it will return FALSE, even when the flag is set before
\* the lock is taken again.
HeartTimeout ==
  /\ Alive /\ heart = "wait"
  /\ heart' = "timed_out"
  /\ UNCHANGED <<main, frames, held, stopping, requested, shutDown, stopper, signals,
                 beats, late, probe>>

\* Mutant: the loop waits again without looking at the flag.
HeartBeatForever ==
  /\ Alive /\ heart = "timed_out" /\ ~held /\ beats < MaxBeats
  /\ beats' = beats + 1
  /\ late' = IF stopping THEN late + 1 ELSE late
  /\ heart' = "wait"
  /\ UNCHANGED <<main, frames, held, stopping, requested, shutDown, stopper, signals,
                 probe>>

\* state.heartbeat(), and the loop starts over.
HeartBeat ==
  /\ Alive /\ heart = "timed_out" /\ ~held /\ beats < MaxBeats
  /\ beats' = beats + 1
  /\ late' = IF stopping THEN late + 1 ELSE late
  /\ heart' = "check"
  /\ UNCHANGED <<main, frames, held, stopping, requested, shutDown, stopper, signals,
                 probe>>

-----------------------------------------------------------------------------
(* The health probes, do_GET and do_POST.                                  *)

Route == {"/health/live", "/health/ready", "/health/version", "/health/status", "/metrics",
          "other", "POST"}
Counting == {"/health/status", "/metrics"}

Status(route) == CASE route = "POST" -> 503 [] route = "other" -> 404 [] OTHER -> 200

NoProbe == [at |-> "none", from |-> 0, count |-> 0, route |-> "other", status |-> 0]

\* The server's loop starts a thread; from: the counter when the client asked.
AcceptProbe(i) ==
  /\ frames = <<>> /\ main = "serving" /\ probe[i] = NoProbe
  /\ \E route \in Route :
       probe' = [probe EXCEPT ![i] = [NoProbe EXCEPT !.at = "asked", !.from = beats,
                                                     !.route = route]]
  /\ UNCHANGED <<main, frames, held, stopping, requested, shutDown, heart, stopper,
                 signals, beats, late>>

\* Mutant: the counter is that of the time the handler was made.
SnapshotCached(i) ==
  /\ Alive /\ probe[i].at = "asked"
  /\ probe' = [probe EXCEPT ![i].at = "read"]
  /\ UNCHANGED <<main, frames, held, stopping, requested, shutDown, heart, stopper,
                 signals, beats, late>>

\* state.snapshot(), under the lock of the counter, when the route wants it.
Snapshot(i) ==
  /\ Alive /\ probe[i].at = "asked"
  /\ probe' = [probe EXCEPT ![i].at = "read",
                            ![i].count = IF probe[i].route \in Counting THEN beats ELSE 0]
  /\ UNCHANGED <<main, frames, held, stopping, requested, shutDown, heart, stopper,
                 signals, beats, late>>

\* The answer is written, for as long as the client takes to read it.
AnswerProbe(i) ==
  /\ Alive /\ probe[i].at = "read"
  /\ probe' = [probe EXCEPT ![i].at = "told", ![i].status = Status(probe[i].route)]
  /\ UNCHANGED <<main, frames, held, stopping, requested, shutDown, heart, stopper,
                 signals, beats, late>>

-----------------------------------------------------------------------------

\* The handlers have just been installed.
Init ==
  /\ main = "boot" /\ frames = <<>> /\ held = FALSE
  /\ stopping = FALSE /\ requested = FALSE /\ shutDown = FALSE
  /\ heart = "new" /\ stopper = [i \in Stopper |-> "none"]
  /\ signals = 0 /\ beats = 0 /\ late = 0 /\ probe = [i \in Probe |-> NoProbe]

MainThread == \/ HandlerLock \/ HandlerSet \/ HandlerSpawn
              \/ StartHeartbeat \/ ServeBegin \/ ServeEnd
              \/ FinallyLock \/ FinallySet \/ JoinAndClose

HeartThread == HeartCheck \/ HeartNotified \/ HeartTimeout \/ HeartBeat

ShutdownThread(i) == ShutdownRequest(i) \/ ShutdownReturns(i)

ProbeThread(i) == AcceptProbe(i) \/ Snapshot(i) \/ AnswerProbe(i)

Next == \/ Signal \/ MainThread \/ HeartThread
        \/ \E i \in Stopper : ShutdownThread(i)
        \/ \E i \in Probe : ProbeThread(i)

\* Every thread that can go on does, but for those that answer: nothing makes a signal
\* come, or a client read.
Fairness == /\ WF_vars(MainThread)
            /\ \A i \in Stopper : WF_vars(ShutdownThread(i))

Spec == Init /\ [][Next]_vars /\ Fairness

-----------------------------------------------------------------------------
(* Properties.                                                             *)

\* The runs of the handler and the main code that are setting the flag.
Holders == {i \in 1..Len(frames) : frames[i] = "locked"}
           \cup IF main = "finally_locked" THEN {0} ELSE {}

\* Every variable has its type, and the event's lock is held by exactly one run of set().
TypeOK ==
  /\ Cardinality(Holders) = IF held THEN 1 ELSE 0
  /\ main \in {"boot", "enter_serve", "serving", "finally", "finally_locked", "join", "stopped"}
  /\ frames \in Seq({"enter", "locked", "spawn"}) /\ Len(frames) <= signals
  /\ heart \in {"new", "check", "wait", "timed_out", "ended"}
  /\ stopper \in [Stopper -> {"none", "request", "wait", "ended"}]
  /\ {held, stopping, requested, shutDown} \subseteq BOOLEAN
  /\ probe \in [Probe -> [at : {"none", "asked", "read", "told"}, from : 0..beats,
                          count : 0..beats, route : Route, status : {0, 200, 404, 503}]]
  /\ signals \in 0..MaxSignals /\ beats \in 0..MaxBeats /\ late \in 0..beats

\* The heartbeat stops with the service: at most the beat whose wait had already timed
\* out is counted after the stop was asked for.
AtMostOneLateBeat == late <= 1

\* A probe is told a counter that is no older than its question, whatever the heartbeat
\* does while it is answered; so the counter of /metrics never goes back.
ProbesAreCurrent ==
  \A i \in Probe : probe[i].at \in {"read", "told"} /\ probe[i].route \in Counting
                    => probe[i].count \in probe[i].from..beats

\* No signal is lost: until the server's loop has ended, a runtime that was asked to stop
\* is still in a handler, or a thread is about to call shutdown, or the server has the
\* request, also when the loop had not begun.
StopIsKept ==
  signals > 0 /\ main \in {"boot", "enter_serve", "serving"} =>
    frames # <<>> \/ requested \/ \E i \in Stopper : stopper[i] = "request"

\* The handler of the first signal never waits for the lock of the event, whatever it
\* interrupts: the deadlock that the docstring of stop speaks of takes a second one.
FirstSignalGoesOn == signals = 1 /\ frames # <<>> /\ Top = "enter" => ~held

\* run_safe_idle "ensures a clean stop on SIGTERM/SIGINT" (its docstring): a signal that
\* comes at any instruction after the handlers are installed, before the server's loop,
\* in it or after it, makes the runtime return, also when a client keeps its probe open.
StopsOnSignal == signals > 0 ~> main = "stopped"
=============================================================================
