---------------------------- MODULE SafeIdleProofs ----------------------------
(* What the safe_idle runtime keeps while it serves and stops, for any     *)
(* number of signals, probes and beats.                                    *)
EXTENDS SafeIdle, FiniteSetTheorems, SequenceTheorems, TLAPS

\* Once a late beat was counted the flag is set, and the loop looks at it next.
LateInv ==
  /\ late \in {0, 1}
  /\ late = 1 => stopping /\ heart \in {"check", "ended"}

LEMMA LateInit == Init => LateInv
  BY DEF Init, LateInv

\* The steps of the signal handler and of the main thread set the flag and start the
\* heartbeat, and never clear or stop them.
LEMMA LateMain ==
  ASSUME LateInv, Signal \/ MainThread
  PROVE  LateInv'
<1>1. CASE Signal  BY <1>1 DEF Signal, LateInv
<1>2. CASE HandlerLock  BY <1>2 DEF HandlerLock, LateInv
<1>3. CASE HandlerSet  BY <1>3 DEF HandlerSet, LateInv
<1>4. CASE HandlerSpawn  BY <1>4 DEF HandlerSpawn, LateInv
<1>5. CASE StartHeartbeat  BY <1>5 DEF StartHeartbeat, LateInv
<1>6. CASE ServeBegin \/ ServeEnd  BY <1>6 DEF ServeBegin, ServeEnd, LateInv
<1>7. CASE FinallyLock \/ FinallySet  BY <1>7 DEF FinallyLock, FinallySet, LateInv
<1>8. CASE JoinAndClose  BY <1>8 DEF JoinAndClose, LateInv
<1> QED  BY <1>1, <1>2, <1>3, <1>4, <1>5, <1>6, <1>7, <1>8 DEF MainThread

\* A beat is counted from a wait that timed out, which no late beat precedes.
LEMMA LateHeart ==
  ASSUME LateInv, HeartThread
  PROVE  LateInv'
<1>1. CASE HeartCheck  BY <1>1 DEF HeartCheck, LateInv
<1>2. CASE HeartNotified  BY <1>2 DEF HeartNotified, LateInv
<1>3. CASE HeartTimeout  BY <1>3 DEF HeartTimeout, LateInv
<1>4. CASE HeartBeat
  <2>1. late = 0 /\ heart' = "check" /\ stopping' = stopping
    BY <1>4 DEF HeartBeat, LateInv
  <2>2. late' = IF stopping THEN 1 ELSE 0
    BY <1>4, <2>1 DEF HeartBeat
  <2> QED  BY <2>1, <2>2 DEF LateInv
<1> QED  BY <1>1, <1>2, <1>3, <1>4 DEF HeartThread

LEMMA LateNext == LateInv /\ [Next]_vars => LateInv'
<1> SUFFICES ASSUME LateInv, [Next]_vars PROVE LateInv'
  OBVIOUS
<1>1. CASE Signal \/ MainThread  BY <1>1, LateMain
<1>2. CASE HeartThread  BY <1>2, LateHeart
<1>3. ASSUME NEW i \in Stopper, ShutdownThread(i) PROVE LateInv'
  BY <1>3 DEF ShutdownThread, ShutdownRequest, ShutdownReturns, LateInv
<1>4. ASSUME NEW i \in Probe, ProbeThread(i) PROVE LateInv'
  BY <1>4 DEF ProbeThread, AcceptProbe, Snapshot, AnswerProbe, LateInv
<1>5. CASE UNCHANGED vars  BY <1>5 DEF vars, LateInv
<1> QED  BY <1>1, <1>2, <1>3, <1>4, <1>5 DEF Next

\* The heartbeat counts at most one beat after the stop was asked for, however many
\* signals come and wherever they interrupt the main thread.
THEOREM HeartbeatStops == Spec => []AtMostOneLateBeat
<1>1. LateInv => AtMostOneLateBeat  BY DEF LateInv, AtMostOneLateBeat
<1> QED  BY <1>1, LateInit, LateNext, PTL DEF Spec

-----------------------------------------------------------------------------
(* What probes are told.                                                   *)

Told(q) == q.at \in {"read", "told"} /\ q.route \in Counting

Stage == {"none", "asked", "read", "told"}
Code == {0, 200, 404, 503}
ProbeRecord == [at : Stage, from : Nat, count : Nat, route : Route, status : Code]

LEMMA Stages == "none" \in Stage /\ "asked" \in Stage /\ "read" \in Stage /\ "told" \in Stage
  BY DEF Stage

LEMMA Codes == 0 \in Code /\ \A r \in Route : Status(r) \in Code
  BY DEF Code, Status

LEMMA NoProbeType == NoProbe \in ProbeRecord
<1>1. "other" \in Route  BY DEF Route
<1> QED  BY <1>1, Stages, Codes DEF NoProbe, ProbeRecord

\* A snapshot is between the question and now.
True(q, now) ==
  /\ q.from <= now /\ q.count <= now
  /\ Told(q) => q.from <= q.count /\ q.count <= now

ProbeInv ==
  /\ beats \in Nat
  /\ probe \in [Probe -> ProbeRecord]
  /\ \A i \in Probe : True(probe[i], beats)

LEMMA ProbeInit == Init => ProbeInv
<1>1. NoProbe \in ProbeRecord  BY NoProbeType
<1>2. NoProbe.from = 0 /\ NoProbe.count = 0 /\ NoProbe.at = "none"  BY DEF NoProbe
<1>3. True(NoProbe, 0)  BY <1>2 DEF True, Told
<1> QED  BY <1>1, <1>3 DEF Init, ProbeInv

\* A step that leaves the probes alone, or counts a beat.
LEMMA BeatInv ==
  ASSUME ProbeInv, probe' = probe, beats' \in {beats, beats + 1}
  PROVE  ProbeInv'
<1>1. beats' \in Nat /\ beats <= beats'  BY DEF ProbeInv
<1>2. ASSUME NEW i \in Probe  PROVE True(probe[i], beats')
  <2>1. probe[i].from \in Nat /\ probe[i].count \in Nat /\ True(probe[i], beats)
    BY DEF ProbeInv, ProbeRecord
  <2> QED  BY <1>1, <2>1 DEF True, ProbeInv
<1> QED  BY <1>1, <1>2 DEF ProbeInv

LEMMA OneProbe ==
  ASSUME ProbeInv, NEW i \in Probe, NEW q \in ProbeRecord, True(q, beats),
         probe' = [probe EXCEPT ![i] = q], beats' = beats
  PROVE  ProbeInv'
BY DEF ProbeInv

LEMMA ProbeThreadInv ==
  ASSUME ProbeInv, NEW i \in Probe, ProbeThread(i)
  PROVE  ProbeInv'
<1>0. probe[i] \in ProbeRecord /\ True(probe[i], beats) /\ beats \in Nat  BY DEF ProbeInv
<1>1. CASE AcceptProbe(i)
  <2>1. PICK route \in Route :
          probe' = [probe EXCEPT ![i] = [NoProbe EXCEPT !.at = "asked", !.from = beats,
                                                        !.route = route]]
    BY <1>1 DEF AcceptProbe
  <2> DEFINE q == [NoProbe EXCEPT !.at = "asked", !.from = beats, !.route = route]
  <2>2. beats' = beats  BY <1>1 DEF AcceptProbe
  <2>3. q \in ProbeRecord
    BY <1>0, NoProbeType, Stages DEF ProbeRecord
  <2>4. q.from = beats /\ q.count = 0 /\ q.at = "asked"  BY DEF NoProbe
  <2>5. True(q, beats)
    <3> HIDE DEF q
    <3> QED  BY <1>0, <2>4 DEF True, Told
  <2> HIDE DEF q
  <2>6. probe' = [probe EXCEPT ![i] = q]  BY <2>1 DEF q
  <2> QED  BY <2>2, <2>3, <2>5, <2>6, OneProbe
<1>2. CASE Snapshot(i)
  <2> DEFINE c == IF probe[i].route \in Counting THEN beats ELSE 0
             q == [probe[i] EXCEPT !.at = "read", !.count = c]
  <2>1. probe' = [probe EXCEPT ![i] = q] /\ beats' = beats  BY <1>2 DEF Snapshot, ProbeInv
  <2>2. q \in ProbeRecord
    <3>1. c \in Nat  BY <1>0
    <3> HIDE DEF c
    <3> QED  BY <1>0, <3>1, Stages DEF ProbeRecord
  <2>3. q.from = probe[i].from /\ q.route = probe[i].route /\ q.count = c
    BY <1>0 DEF ProbeRecord
  <2>4. q.route \in Counting => q.count = beats  BY <2>3
  <2>5. probe[i].from <= beats /\ c <= beats  BY <1>0 DEF True
  <2> HIDE DEF q, c
  <2>6. True(q, beats)  BY <1>0, <2>3, <2>4, <2>5 DEF True, Told
  <2> QED  BY <2>1, <2>2, <2>6, OneProbe
<1>3. CASE AnswerProbe(i)
  <2> DEFINE q == [probe[i] EXCEPT !.at = "told", !.status = Status(probe[i].route)]
  <2>1. probe' = [probe EXCEPT ![i] = q] /\ beats' = beats /\ probe[i].at = "read"
    BY <1>3 DEF AnswerProbe, ProbeInv
  <2>2. Status(probe[i].route) \in Code  BY <1>0, Codes DEF ProbeRecord
  <2>3. q \in ProbeRecord  BY <1>0, <2>2, Stages DEF ProbeRecord
  <2>4. q.from = probe[i].from /\ q.route = probe[i].route /\ q.count = probe[i].count
    BY <1>0 DEF ProbeRecord
  <2> HIDE DEF q
  <2>5. True(q, beats)  BY <1>0, <2>1, <2>4 DEF True, Told
  <2> QED  BY <2>1, <2>3, <2>5, OneProbe
<1> QED  BY <1>1, <1>2, <1>3 DEF ProbeThread

LEMMA ProbeNext == ProbeInv /\ [Next]_vars => ProbeInv'
<1> SUFFICES ASSUME ProbeInv, [Next]_vars PROVE ProbeInv'
  OBVIOUS
<1>1. CASE Signal \/ MainThread
  BY <1>1, BeatInv
     DEF Signal, MainThread, HandlerLock, HandlerSet, HandlerSpawn, StartHeartbeat, ServeBegin,
         ServeEnd, FinallyLock, FinallySet, JoinAndClose
<1>2. CASE HeartThread
  BY <1>2, BeatInv DEF HeartThread, HeartCheck, HeartNotified, HeartTimeout, HeartBeat
<1>3. ASSUME NEW i \in Stopper, ShutdownThread(i) PROVE ProbeInv'
  BY <1>3, BeatInv DEF ShutdownThread, ShutdownRequest, ShutdownReturns
<1>4. CASE UNCHANGED vars  BY <1>4, BeatInv DEF vars
<1> QED  BY <1>1, <1>2, <1>3, <1>4, ProbeThreadInv DEF Next

\* A probe is told a counter between the one its client could know and the current one,
\* for any number of probes and beats.
THEOREM ProbesToldTrue == Spec => []ProbesAreCurrent
<1>1. ProbeInv => ProbesAreCurrent
  <2> SUFFICES ASSUME ProbeInv, NEW i \in Probe, Told(probe[i])
               PROVE  probe[i].count \in probe[i].from..beats
    BY DEF ProbesAreCurrent, Told
  <2>1. /\ probe[i].from \in Nat /\ probe[i].count \in Nat /\ beats \in Nat
        /\ True(probe[i], beats)
    BY DEF ProbeInv, ProbeRecord
  <2> QED  BY <2>1 DEF True
<1> QED  BY <1>1, ProbeInit, ProbeNext, PTL DEF Spec
-----------------------------------------------------------------------------
(* The types, and the lock of the event.                                   *)

Step == {"enter", "locked", "spawn"}

\* The threads and their counters.
ThreadInv ==
  /\ main \in {"boot", "enter_serve", "serving", "finally", "finally_locked", "join", "stopped"}
  /\ heart \in {"new", "check", "wait", "timed_out", "ended"}
  /\ stopper \in [Stopper -> {"none", "request", "wait", "ended"}]
  /\ {held, stopping, requested, shutDown} \subseteq BOOLEAN
  /\ signals \in 0..MaxSignals /\ beats \in 0..MaxBeats /\ late \in 0..beats

FrameInv == frames \in Seq(Step) /\ Len(frames) <= signals

\* Each run of set() that is under way holds the lock, so there is one at most.
LockInv ==
  /\ ~held => Holders = {}
  /\ held => \E h : Holders = {h}

LEMMA ThreadInit == Init => ThreadInv /\ FrameInv /\ LockInv
<1> SUFFICES ASSUME Init PROVE ThreadInv /\ FrameInv /\ LockInv
  OBVIOUS
<1>0. ThreadInv
  <2>1. {held, stopping, requested, shutDown} \subseteq BOOLEAN  BY DEF Init
  <2>2. stopper \in [Stopper -> {"none", "request", "wait", "ended"}]  BY DEF Init
  <2>3. signals \in 0..MaxSignals /\ beats \in 0..MaxBeats /\ late \in 0..beats
    <3>1. signals = 0 /\ beats = 0 /\ late = 0  BY DEF Init
    <3> QED  BY <3>1, SignalAssumption
  <2> QED  BY <2>1, <2>2, <2>3 DEF Init, ThreadInv
<1>1. FrameInv
  <2>1. <<>> \in Seq(Step) /\ Len(<<>>) = 0
    OBVIOUS
  <2> QED  BY <2>1 DEF Init, FrameInv
<1>2. LockInv  BY DEF Init, LockInv, Holders
<1> QED  BY <1>0, <1>1, <1>2

LEMMA ThreadMain ==
  ASSUME ThreadInv, Signal \/ MainThread
  PROVE  ThreadInv'
<1> USE DEF ThreadInv
<1>1. CASE Signal  BY <1>1, SignalAssumption DEF Signal
<1>2. CASE HandlerLock  BY <1>2 DEF HandlerLock
<1>3. CASE HandlerSet  BY <1>3 DEF HandlerSet
<1>4. CASE HandlerSpawn  BY <1>4 DEF HandlerSpawn
<1>5. CASE StartHeartbeat  BY <1>5 DEF StartHeartbeat, Goto
<1>6. CASE ServeBegin \/ ServeEnd  BY <1>6 DEF ServeBegin, ServeEnd, Goto
<1>7. CASE FinallyLock \/ FinallySet  BY <1>7 DEF FinallyLock, FinallySet, Goto
<1>8. CASE JoinAndClose  BY <1>8 DEF JoinAndClose, Goto
<1> QED  BY <1>1, <1>2, <1>3, <1>4, <1>5, <1>6, <1>7, <1>8 DEF MainThread

LEMMA ThreadHeart ==
  ASSUME ThreadInv, HeartThread
  PROVE  ThreadInv'
<1> USE DEF ThreadInv
<1>1. CASE HeartCheck  BY <1>1 DEF HeartCheck
<1>2. CASE HeartNotified  BY <1>2 DEF HeartNotified
<1>3. CASE HeartTimeout  BY <1>3 DEF HeartTimeout
<1>4. CASE HeartBeat  BY <1>4, SignalAssumption DEF HeartBeat
<1> QED  BY <1>1, <1>2, <1>3, <1>4 DEF HeartThread

LEMMA ThreadNext == ThreadInv /\ [Next]_vars => ThreadInv'
<1> SUFFICES ASSUME ThreadInv, [Next]_vars PROVE ThreadInv'
  OBVIOUS
<1>1. CASE Signal \/ MainThread  BY <1>1, ThreadMain
<1>2. CASE HeartThread  BY <1>2, ThreadHeart
<1>3. ASSUME NEW i \in Stopper, ShutdownThread(i) PROVE ThreadInv'
  BY <1>3 DEF ShutdownThread, ShutdownRequest, ShutdownReturns, ThreadInv
<1>4. ASSUME NEW i \in Probe, ProbeThread(i) PROVE ThreadInv'
  BY <1>4 DEF ProbeThread, AcceptProbe, Snapshot, AnswerProbe, ThreadInv
<1>5. CASE UNCHANGED vars  BY <1>5 DEF vars, ThreadInv
<1> QED  BY <1>1, <1>2, <1>3, <1>4, <1>5 DEF Next

\* The innermost run of the handler is the only one that goes on; popping one that is not
\* inside set() changes no holder, and neither does pushing one.
LEMMA TopStep ==
  ASSUME frames \in Seq(Step), frames # <<>>, NEW step \in Step, GotoFrame(step), main' = main
  PROVE  /\ frames' \in Seq(Step) /\ Len(frames') = Len(frames)
         /\ Holders' = (Holders \ {Len(frames)})
                       \cup IF step = "locked" THEN {Len(frames)} ELSE {}
<1>1. Len(frames) \in Nat /\ Len(frames) >= 1
  OBVIOUS
<1>2. frames' \in Seq(Step) /\ Len(frames') = Len(frames)
  BY <1>1 DEF GotoFrame
<1>3. \A i \in 1..Len(frames) : frames'[i] = IF i = Len(frames) THEN step ELSE frames[i]
  BY <1>1 DEF GotoFrame
<1>4. Holders' = (Holders \ {Len(frames)}) \cup IF step = "locked" THEN {Len(frames)} ELSE {}
  BY <1>1, <1>2, <1>3 DEF Holders
<1> QED  BY <1>2, <1>4

LEMMA PopStep ==
  ASSUME frames \in Seq(Step), frames # <<>>, Top # "locked", Return, main' = main
  PROVE  frames' \in Seq(Step) /\ Len(frames') = Len(frames) - 1 /\ Holders' = Holders
<1>1. Len(frames) \in Nat /\ Len(frames) >= 1
  OBVIOUS
<1>2. frames' \in Seq(Step) /\ Len(frames') = Len(frames) - 1
  <2>1. frames' = SubSeq(frames, 1, Len(frames) - 1)  BY DEF Return
  <2> DEFINE n == Len(frames) - 1
  <2>2. n \in Nat /\ \A i \in 1..n : frames[i] \in Step  BY <1>1
  <2> HIDE DEF n
  <2>3. SubSeq(frames, 1, n) \in Seq(Step)  BY <2>2, SubSeqProperties
  <2>4. Len(SubSeq(frames, 1, n)) = IF 1 <= n THEN n - 1 + 1 ELSE 0
    BY <2>2, SubSeqProperties
  <2>5. Len(SubSeq(frames, 1, n)) = n  BY <2>2, <2>4
  <2>6. n = Len(frames) - 1  BY DEF n
  <2> QED  BY <2>1, <2>3, <2>5, <2>6
<1>3. \A i \in 1..(Len(frames) - 1) : frames'[i] = frames[i]
  BY <1>1 DEF Return
<1>4. Holders' = Holders
  BY <1>1, <1>2, <1>3 DEF Holders, Top
<1> QED  BY <1>2, <1>4

LEMMA PushStep ==
  ASSUME frames \in Seq(Step), frames' = Append(frames, "enter"), main' = main
  PROVE  frames' \in Seq(Step) /\ Len(frames') = Len(frames) + 1 /\ Holders' = Holders
<1>1. Len(frames) \in Nat
  OBVIOUS
<1>2. frames' \in Seq(Step) /\ Len(frames') = Len(frames) + 1
  BY DEF Step
<1>3. \A i \in 1..Len(frames) : frames'[i] = frames[i]
  OBVIOUS
<1>4. frames'[Len(frames) + 1] = "enter"
  OBVIOUS
<1>5. Holders' = Holders
  BY <1>1, <1>2, <1>3, <1>4 DEF Holders
<1> QED  BY <1>2, <1>5

\* The main code goes on when no handler runs.
LEMMA MainStep ==
  ASSUME NEW from, NEW to, Goto(from, to), frames' = frames,
         ThreadInv, FrameInv, LockInv,
         \/ from # "finally_locked" /\ to # "finally_locked" /\ held' = held
         \/ to = "finally_locked" /\ held' = TRUE
         \/ from = "finally_locked" /\ to # "finally_locked" /\ held' = FALSE,
         signals' = signals
  PROVE  FrameInv' /\ LockInv'
<1>1. frames = <<>> /\ Len(frames) = 0  BY DEF Goto
<1>2. Holders = IF from = "finally_locked" THEN {0} ELSE {}
  BY <1>1 DEF Holders, Goto
<1>3. Holders' = IF to = "finally_locked" THEN {0} ELSE {}
  BY <1>1 DEF Holders, Goto
<1>4. LockInv'  BY <1>2, <1>3 DEF LockInv
<1> QED  BY <1>4 DEF FrameInv

LEMMA LockMain ==
  ASSUME ThreadInv, FrameInv, LockInv, Signal \/ MainThread
  PROVE  FrameInv' /\ LockInv'
<1>0. /\ frames \in Seq(Step) /\ Len(frames) <= signals /\ signals \in Nat
      /\ Len(frames) \in Nat
  BY SignalAssumption DEF ThreadInv, FrameInv
<1>1. CASE Signal
  <2>1. /\ frames' = Append(frames, "enter") /\ main' = main /\ held' = held
        /\ signals' = signals + 1
    BY <1>1 DEF Signal
  <2>2. frames' \in Seq(Step) /\ Len(frames') = Len(frames) + 1 /\ Holders' = Holders
    BY <1>0, <2>1, PushStep
  <2>3. FrameInv'  BY <1>0, <2>1, <2>2 DEF FrameInv
  <2>4. LockInv'  BY <2>1, <2>2, Zenon DEF LockInv
  <2> QED  BY <2>3, <2>4
<1>2. CASE HandlerLock
  <2>1. /\ frames # <<>> /\ GotoFrame("locked") /\ main' = main /\ ~held /\ held' = TRUE
        /\ signals' = signals /\ "locked" \in Step
    BY <1>2 DEF HandlerLock, Step
  <2>2. /\ frames' \in Seq(Step) /\ Len(frames') = Len(frames)
        /\ Holders' = (Holders \ {Len(frames)}) \cup {Len(frames)}
    BY <1>0, <2>1, TopStep
  <2>3. Holders' = {Len(frames)}  BY <2>1, <2>2 DEF LockInv
  <2> QED  BY <1>0, <2>1, <2>2, <2>3 DEF FrameInv, LockInv
<1>3. CASE HandlerSet
  <2>1. /\ frames # <<>> /\ GotoFrame("spawn") /\ main' = main /\ held' = FALSE
        /\ signals' = signals /\ "spawn" \in Step /\ Top = "locked"
    BY <1>3 DEF HandlerSet, Step
  <2>2. /\ frames' \in Seq(Step) /\ Len(frames') = Len(frames)
        /\ Holders' = Holders \ {Len(frames)}
    BY <1>0, <2>1, TopStep
  <2>3. Len(frames) \in Holders  BY <1>0, <2>1 DEF Holders, Top
  <2>4. Holders' = {}  BY <2>2, <2>3 DEF LockInv
  <2> QED  BY <1>0, <2>1, <2>2, <2>4 DEF FrameInv, LockInv
<1>4. CASE HandlerSpawn
  <2>1. /\ frames # <<>> /\ Top # "locked" /\ Return /\ main' = main /\ held' = held
        /\ signals' = signals
    BY <1>4 DEF HandlerSpawn
  <2>2. frames' \in Seq(Step) /\ Len(frames') = Len(frames) - 1 /\ Holders' = Holders
    BY <1>0, <2>1, PopStep
  <2>3. FrameInv'  BY <1>0, <2>1, <2>2 DEF FrameInv
  <2>4. LockInv'  BY <2>1, <2>2, Zenon DEF LockInv
  <2> QED  BY <2>3, <2>4
<1>5. CASE StartHeartbeat \/ ServeBegin \/ ServeEnd \/ JoinAndClose
  BY <1>5, MainStep DEF StartHeartbeat, ServeBegin, ServeEnd, JoinAndClose
<1>6. CASE FinallyLock  BY <1>6, MainStep DEF FinallyLock
<1>7. CASE FinallySet  BY <1>7, MainStep DEF FinallySet
<1> QED  BY <1>1, <1>2, <1>3, <1>4, <1>5, <1>6, <1>7 DEF MainThread

\* The other threads leave the main thread's stack and the lock alone.
LEMMA LockNext == ThreadInv /\ FrameInv /\ LockInv /\ [Next]_vars => FrameInv' /\ LockInv'
<1> SUFFICES ASSUME ThreadInv, FrameInv, LockInv, [Next]_vars PROVE FrameInv' /\ LockInv'
  OBVIOUS
<1> DEFINE Same == main' = main /\ frames' = frames /\ held' = held /\ signals' = signals
<1>0. ASSUME Same PROVE FrameInv' /\ LockInv'
  <2>1. Holders' = Holders  BY <1>0 DEF Holders
  <2> QED  BY <1>0, <2>1 DEF FrameInv, LockInv
<1>1. CASE Signal \/ MainThread  BY <1>1, LockMain
<1>2. HeartThread => Same
  BY DEF HeartThread, HeartCheck, HeartNotified, HeartTimeout, HeartBeat
<1>3. ASSUME NEW i \in Stopper, ShutdownThread(i) PROVE Same
  BY <1>3 DEF ShutdownThread, ShutdownRequest, ShutdownReturns
<1>4. ASSUME NEW i \in Probe, ProbeThread(i) PROVE Same
  BY <1>4 DEF ProbeThread, AcceptProbe, Snapshot, AnswerProbe
<1>5. UNCHANGED vars => Same  BY DEF vars
<1> HIDE DEF Same
<1> QED  BY <1>0, <1>1, <1>2, <1>3, <1>4, <1>5 DEF Next

\* The types hold, and the lock of the event is held by exactly one run of set(), for any
\* number of signals on top of each other.
THEOREM IdleTypes == Spec => []TypeOK
<1> DEFINE Inv == ThreadInv /\ FrameInv /\ LockInv /\ ProbeInv
<1>1. Init => Inv  BY ThreadInit, ProbeInit
<1>2. Inv /\ [Next]_vars => Inv'  BY ThreadNext, LockNext, ProbeNext
<1>3. Inv => TypeOK
  <2> SUFFICES ASSUME Inv PROVE TypeOK
    OBVIOUS
  <2>1. Cardinality(Holders) = IF held THEN 1 ELSE 0
    <3>1. CASE held
      <4>1. PICK h : Holders = {h}  BY <3>1 DEF LockInv
      <4> QED  BY <3>1, <4>1, FS_Singleton
    <3>2. CASE ~held  BY <3>2, FS_EmptySet DEF LockInv
    <3> QED  BY <3>1, <3>2
  <2>2. probe \in [Probe -> [at : Stage, from : 0..beats, count : 0..beats, route : Route,
                             status : Code]]
    <3>1. ASSUME NEW i \in Probe
          PROVE  probe[i] \in [at : Stage, from : 0..beats, count : 0..beats, route : Route,
                               status : Code]
      <4>1. probe[i] \in ProbeRecord /\ True(probe[i], beats) /\ beats \in Nat
        BY DEF ProbeInv
      <4>2. probe[i].from \in 0..beats /\ probe[i].count \in 0..beats
        BY <4>1 DEF ProbeRecord, True
      <4> QED  BY <4>1, <4>2 DEF ProbeRecord
    <3> QED  BY <3>1 DEF ProbeInv
  <2>3. frames \in Seq({"enter", "locked", "spawn"}) /\ Len(frames) <= signals
    BY DEF FrameInv, Step
  <2> QED  BY <2>1, <2>2, <2>3 DEF TypeOK, ThreadInv, Stage, Code
<1> QED  BY <1>1, <1>2, <1>3, PTL DEF Spec
-----------------------------------------------------------------------------
(* No signal is lost, and the first one waits for nothing.                 *)

Before == {"boot", "enter_serve", "serving"}
Spawned == {i \in Stopper : stopper[i] # "none"}

\* Every signal is a run of the handler, or the thread that the run has started; nothing
\* else makes the server stop.
KeptInv ==
  /\ Cardinality(Spawned) + Len(frames) = signals
  /\ requested \/ main \notin Before => Spawned # {}
  /\ StopIsKept

LEMMA SpawnedFinite ==
  ThreadInv => /\ IsFiniteSet(Spawned) /\ Cardinality(Spawned) \in Nat
               /\ Spawned \subseteq Stopper /\ IsFiniteSet(Stopper)
               /\ Cardinality(Stopper) = MaxSignals
<1>1. IsFiniteSet(Stopper) /\ Cardinality(Stopper) = MaxSignals
  BY SignalAssumption, FS_Interval DEF Stopper
<1>2. Spawned \in SUBSET Stopper  BY DEF Spawned
<1> QED  BY <1>1, <1>2, FS_Subset, FS_CardinalityType

LEMMA KeptInit == Init => KeptInv
<1> SUFFICES ASSUME Init PROVE KeptInv
  OBVIOUS
<1>1. Spawned = {}  BY DEF Init, Spawned
<1>2. Len(<<>>) = 0  OBVIOUS
<1> QED  BY <1>1, <1>2, FS_EmptySet DEF Init, KeptInv, StopIsKept, Before

\* A handler that returns leaves one thread more.
LEMMA SpawnStep ==
  ASSUME ThreadInv, FrameInv, KeptInv, HandlerSpawn
  PROVE  /\ Cardinality(Spawned') = Cardinality(Spawned) + 1
         /\ \E i \in Stopper : stopper'[i] = "request"
<1>1. Len(frames) \in Nat /\ Len(frames) >= 1
  BY DEF FrameInv, HandlerSpawn
<1>2. Cardinality(Spawned) < MaxSignals
  BY <1>1, SpawnedFinite, SignalAssumption DEF KeptInv, ThreadInv
<1>3. \E i \in Stopper : stopper[i] = "none"
  BY <1>2, SpawnedFinite DEF Spawned
<1>4. PICK i \in Stopper : stopper[i] = "none" /\ stopper' = [stopper EXCEPT ![i] = "request"]
  <2> DEFINE i == CHOOSE i \in Stopper : stopper[i] = "none"
  <2>1. i \in Stopper /\ stopper[i] = "none"  BY <1>3
  <2>2. stopper' = [stopper EXCEPT ![i] = "request"]  BY DEF HandlerSpawn
  <2> QED  BY <2>1, <2>2
<1>5. Spawned' = Spawned \cup {i} /\ i \notin Spawned
  BY <1>4 DEF Spawned, ThreadInv
<1>6. Cardinality(Spawned') = Cardinality(Spawned) + 1
  BY <1>5, SpawnedFinite, FS_AddElement
<1> QED  BY <1>4, <1>6 DEF ThreadInv

LEMMA KeptMain ==
  ASSUME ThreadInv, FrameInv, KeptInv, Signal \/ MainThread
  PROVE  KeptInv'
<1>0. /\ frames \in Seq(Step) /\ Len(frames) \in Nat /\ signals \in Nat
      /\ Cardinality(Spawned) \in Nat
  BY SpawnedFinite, SignalAssumption DEF ThreadInv, FrameInv
<1>s. stopper' = stopper => Spawned' = Spawned  BY DEF Spawned
<1>1. CASE Signal
  <2>1. Len(frames') = Len(frames) + 1 /\ frames' # <<>>
    BY <1>0, <1>1 DEF Signal
  <2> QED  BY <1>0, <1>1, <1>s, <2>1 DEF Signal, KeptInv, StopIsKept
<1>2. CASE HandlerLock \/ HandlerSet
  <2>1. PICK step \in Step : GotoFrame(step)
    BY <1>2 DEF HandlerLock, HandlerSet, Step
  <2>2. frames # <<>> /\ UNCHANGED <<main, requested, stopper, signals>>
    BY <1>2 DEF HandlerLock, HandlerSet
  <2>3. Len(frames') = Len(frames) /\ frames' \in Seq(Step)
    BY <1>0, <2>1, <2>2, TopStep
  <2>4. frames' # <<>>  BY <1>0, <2>2, <2>3
  <2> QED  BY <1>s, <2>2, <2>3, <2>4 DEF KeptInv, StopIsKept
<1>3. CASE HandlerSpawn
  <2>1. frames # <<>> /\ Top # "locked" /\ Return /\ UNCHANGED <<main, requested, signals>>
    BY <1>3 DEF HandlerSpawn
  <2>2. Len(frames') = Len(frames) - 1  BY <1>0, <2>1, PopStep
  <2>3. Cardinality(Spawned') = Cardinality(Spawned) + 1
        /\ \E i \in Stopper : stopper'[i] = "request"
    BY <1>3, SpawnStep
  <2>4. Spawned' # {}  BY <2>3 DEF Spawned
  <2> QED  BY <1>0, <2>1, <2>2, <2>3, <2>4 DEF KeptInv, StopIsKept
<1>4. CASE StartHeartbeat \/ ServeBegin
  <2>1. UNCHANGED <<frames, requested, stopper, signals>> /\ main \in Before /\ main' \in Before
    BY <1>4 DEF StartHeartbeat, ServeBegin, Goto, Before
  <2> QED  BY <1>s, <2>1 DEF KeptInv, StopIsKept, Before
<1>5. CASE ServeEnd
  <2>1. UNCHANGED <<frames, stopper, signals>> /\ requested /\ main' \notin Before
    BY <1>5 DEF ServeEnd, Goto, Before
  <2> QED  BY <1>s, <2>1 DEF KeptInv, StopIsKept, Before
<1>6. CASE FinallyLock \/ FinallySet \/ JoinAndClose
  <2>1. /\ UNCHANGED <<frames, requested, stopper, signals>>
        /\ main \notin Before /\ main' \notin Before
    BY <1>6 DEF FinallyLock, FinallySet, JoinAndClose, Goto, Before
  <2> QED  BY <1>s, <2>1 DEF KeptInv, StopIsKept, Before
<1> QED  BY <1>1, <1>2, <1>3, <1>4, <1>5, <1>6 DEF MainThread

LEMMA KeptNext == ThreadInv /\ FrameInv /\ KeptInv /\ [Next]_vars => KeptInv'
<1> SUFFICES ASSUME ThreadInv, FrameInv, KeptInv, [Next]_vars PROVE KeptInv'
  OBVIOUS
<1> DEFINE Same == UNCHANGED <<main, frames, requested, stopper, signals>>
<1>0. ASSUME Same PROVE KeptInv'
  <2>1. Spawned' = Spawned  BY <1>0 DEF Spawned
  <2> QED  BY <1>0, <2>1 DEF KeptInv, StopIsKept
<1>1. CASE Signal \/ MainThread  BY <1>1, KeptMain
<1>2. HeartThread => Same
  BY DEF HeartThread, HeartCheck, HeartNotified, HeartTimeout, HeartBeat
<1>3. ASSUME NEW i \in Stopper, ShutdownThread(i) PROVE KeptInv'
  <2>1. Spawned' = Spawned /\ UNCHANGED <<main, frames, signals>> /\ i \in Spawned
    BY <1>3 DEF ShutdownThread, ShutdownRequest, ShutdownReturns, Spawned, ThreadInv
  <2>2. CASE ShutdownRequest(i)
    BY <2>1, <2>2 DEF ShutdownRequest, KeptInv, StopIsKept
  <2>3. CASE ShutdownReturns(i)
    <3>1. requested' = requested
          /\ \A j \in Stopper : stopper[j] = "request" => stopper'[j] = "request"
      BY <2>3 DEF ShutdownReturns, ThreadInv
    <3> QED  BY <2>1, <3>1 DEF KeptInv, StopIsKept
  <2> QED  BY <1>3, <2>2, <2>3 DEF ShutdownThread
<1>4. ASSUME NEW i \in Probe, ProbeThread(i) PROVE Same
  BY <1>4 DEF ProbeThread, AcceptProbe, Snapshot, AnswerProbe
<1>5. UNCHANGED vars => Same  BY DEF vars
<1> HIDE DEF Same
<1> QED  BY <1>0, <1>1, <1>2, <1>3, <1>4, <1>5 DEF Next

IdleInv == ThreadInv /\ FrameInv /\ LockInv /\ KeptInv

LEMMA IdleAlways == Spec => []IdleInv
<1>1. Init => IdleInv  BY ThreadInit, KeptInit DEF IdleInv
<1>2. IdleInv /\ [Next]_vars => IdleInv'
  BY ThreadNext, LockNext, KeptNext DEF IdleInv
<1> QED  BY <1>1, <1>2, PTL DEF Spec

\* A runtime that was asked to stop is on its way to it until its server has stopped, for
\* any number of signals, wherever they interrupt the start.
THEOREM SignalsAreKept == Spec => []StopIsKept
<1>1. IdleInv => StopIsKept  BY DEF IdleInv, KeptInv
<1> QED  BY <1>1, IdleAlways, PTL

\* While its handler runs, the first signal has started no thread, so the main thread is
\* not in the finally clause, and it is the only one that could hold the lock.
THEOREM FirstSignalFree == Spec => []FirstSignalGoesOn
<1>1. IdleInv => FirstSignalGoesOn
  <2> SUFFICES ASSUME IdleInv, signals = 1, frames # <<>>, Top = "enter"
               PROVE  ~held
    BY DEF FirstSignalGoesOn
  <2>1. /\ Len(frames) \in Nat /\ Len(frames) >= 1 /\ frames \in Seq(Step)
        /\ Cardinality(Spawned) \in Nat
    BY SpawnedFinite DEF IdleInv, FrameInv
  <2>2. Len(frames) = 1 /\ Cardinality(Spawned) = 0
    <3>1. Cardinality(Spawned) + Len(frames) = 1  BY DEF IdleInv, KeptInv
    <3> DEFINE c == Cardinality(Spawned)
               n == Len(frames)
    <3>2. c \in Nat /\ n \in Nat /\ n >= 1 /\ c + n = 1  BY <2>1, <3>1
    <3> HIDE DEF c, n
    <3>3. n = 1 /\ c = 0  BY <3>2
    <3> QED  BY <3>3 DEF c, n
  <2>3. Spawned = {}  BY <2>2, SpawnedFinite, FS_EmptySet DEF IdleInv
  <2>4. main \in Before  BY <2>3 DEF IdleInv, KeptInv
  <2>5. Holders = {}  BY <2>1, <2>2, <2>4 DEF Holders, Top, Before
  <2> QED  BY <2>5 DEF IdleInv, LockInv
<1> QED  BY <1>1, IdleAlways, PTL
=============================================================================
