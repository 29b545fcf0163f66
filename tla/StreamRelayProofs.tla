------------------------- MODULE StreamRelayProofs -------------------------
(***************************************************************************)
(* What one call of StreamProxy promises of its timers, of its outcome and *)
(* of what the client reads, for any mode, any idle times, any cut of the  *)
(* answer into reads and any length of it.                                 *)
(***************************************************************************)
EXTENDS StreamRelay, FoldTheorems

\* The timer that speaks first to the client, and its idle time.
Lowest == IF mode.ka THEN ka ELSE ws
LowestIdle == IF mode.ka THEN KeepAliveIdle ELSE WaitSignalIdle

\* The timers and clocks are typed, and a request without keep-alives has none.
ClocksOK ==
    /\ mode \in [strip : BOOLEAN, translate : BOOLEAN, ka : BOOLEAN, stream : BOOLEAN]
    /\ ka \in Timer(KeepAliveIdle) /\ ws \in Timer(WaitSignalIdle)
    /\ quiet \in Nat /\ sinceRead \in Nat /\ gone \in BOOLEAN
    /\ watch \in BOOLEAN /\ (watch => mode.stream)
    /\ ~mode.ka => ~ka.on /\ ~ka.fired

\* The timers run between the status line and the return, the status goes out
\* once, and an outcome ends the call.
Phases ==
    /\ pc \in {"dial", "peek"} => ~headers /\ ka = NoTimer /\ ws = NoTimer
    /\ pc = "done" => ~ka.on /\ ~ws.on
    /\ outcome # "none" => pc = "done"

\* A timer that is on has been armed or is about to send, and is armed no longer
\* than its idle time after the last write.
Ready(t, idle) ==
    /\ t.on /\ (t.left > 0 \/ t.fired)
    /\ t.since + t.left >= idle
    /\ t.fired /\ t.left > 0 => t.left = idle

\* The lowest timer of a stream is ready, and what is left of its window keeps
\* the client's wait, or the backend's silence, within one idle time.
Prompt ==
    /\ pc = "deliver" /\ after = "read" => sinceRead = 0
    /\ mode.stream /\ ~gone /\ pc \in {"read", "deliver"} => Ready(Lowest, LowestIdle)
    /\ mode.stream /\ ~gone /\ pc = "read" =>
           \/ quiet + Lowest.left <= LowestIdle
           \/ sinceRead + Lowest.left <= LowestIdle

-----------------------------------------------------------------------------
(* The operations of one timer.                                            *)

\* Every operation of a silence writer and its clock leave a timer a timer.
LEMMA TimerKept ==
    ASSUME NEW idle \in Nat \ {0}, NEW t \in Timer(idle)
    PROVE  /\ NoTimer \in Timer(idle) /\ armLocked(t, idle) \in Timer(idle)
           /\ SilenceStart(t, idle) \in Timer(idle) /\ SilenceStop(t) \in Timer(idle)
           /\ SilenceWrite(t, idle) \in Timer(idle) /\ SilenceFlush(t, idle) \in Timer(idle)
           /\ SilenceFlush(SilenceWrite(t, idle), idle) \in Timer(idle)
           /\ Elapse(t, idle) \in Timer(idle)
           /\ [t EXCEPT !.fired = FALSE] \in Timer(idle)
           /\ armLocked([t EXCEPT !.fired = FALSE], idle) \in Timer(idle)
           /\ [[t EXCEPT !.fired = FALSE] EXCEPT !.on = FALSE] \in Timer(idle)
<1>1. idle \in 0 .. idle /\ 0 \in 0 .. idle
  OBVIOUS
<1>2. \A x \in 0 .. idle : /\ (IF x < idle THEN x + 1 ELSE idle) \in 0 .. idle
                           /\ (IF x > 0 THEN x - 1 ELSE 0) \in 0 .. idle
  OBVIOUS
<1>3. Elapse(t, idle) \in Timer(idle)
  BY <1>2 DEF Elapse, Timer
<1> QED BY <1>1, <1>3 DEF Timer, NoTimer, armLocked, SilenceStart, SilenceStop, SilenceWrite, SilenceFlush

\* The same for the operations the relay's writes and its return call.
LEMMA KeepAliveKept ==
    ASSUME ClocksOK, NEW t \in Timer(KeepAliveIdle)
    PROVE  KaWrite(t) \in Timer(KeepAliveIdle) /\ KaFlush(t) \in Timer(KeepAliveIdle)
           /\ KaFlush(KaWrite(t)) \in Timer(KeepAliveIdle)
<1>1. SilenceWrite(t, KeepAliveIdle) \in Timer(KeepAliveIdle)
      /\ SilenceFlush(t, KeepAliveIdle) \in Timer(KeepAliveIdle)
      /\ SilenceFlush(SilenceWrite(t, KeepAliveIdle), KeepAliveIdle) \in Timer(KeepAliveIdle)
  BY TimerKept, StreamAssumption
<1> QED BY <1>1 DEF KaWrite, KaFlush

\* Whether a timer is on, and whether its callback waits, after each operation.
LEMMA Switches ==
    ASSUME NEW idle \in Nat \ {0}, NEW t \in Timer(idle)
    PROVE  /\ armLocked(t, idle).on = t.on /\ armLocked(t, idle).fired = t.fired
           /\ SilenceStart(t, idle).on /\ SilenceStart(t, idle).fired = t.fired
           /\ ~SilenceStop(t).on /\ SilenceStop(t).fired = t.fired
           /\ SilenceWrite(t, idle).on = t.on /\ SilenceWrite(t, idle).fired = t.fired
           /\ SilenceFlush(t, idle).on = t.on /\ SilenceFlush(t, idle).fired = t.fired
           /\ Elapse(t, idle).on = t.on
           /\ ~t.on => Elapse(t, idle) = t
BY DEF Timer, NoTimer, armLocked, SilenceStart, SilenceStop, SilenceWrite, SilenceFlush, Elapse

-----------------------------------------------------------------------------
(* The steps, sorted by what they do to the timers.                        *)

\* StreamProxy returns; only before the status line, or to a client that has left,
\* with an outcome that lets the router try elsewhere.
Returns ==
    \E o \in {"ok", "ctx", "transport", "streamError", "buffered", "write", "midstream"} :
        /\ Return(o) /\ pc # "done"
        /\ o \in {"transport", "streamError", "buffered", "write"} => pc \in {"dial", "peek"} \/ gone

\* The status line goes out.
Begins ==
    /\ pc \in {"dial", "peek"} /\ pc' \in {"read", "deliver"} /\ Begin

\* A step that touches no timer.
Idle ==
    /\ UNCHANGED <<mode, outcome, headers, ka, ws, gone, clientVars>>
    /\ sinceRead' \in {sinceRead, 0} /\ watch' \in {watch, FALSE}
    /\ pc' = pc \/ (pc = "read" /\ pc' = "deliver") \/ (pc = "dial" /\ pc' = "peek")
          \/ (pc = "deliver" /\ pc' = "drain")
    /\ pc' = "deliver" /\ after' = "read" => sinceRead' = 0 \/ (pc = "deliver" /\ after = "read")

\* Delivered goes back to reading.
ReadsOn ==
    /\ pc = "deliver" /\ after = "read" /\ pc' = "read"
    /\ ka' = KaFlush(ka) /\ ws' = SilenceFlush(ws, WaitSignalIdle)
    /\ UNCHANGED <<mode, relayVars, queue, clientVars, watchVars, goneVars>>

\* Every step is of one of these kinds.
LEMMA NextSorted ==
    ASSUME [Next]_vars
    PROVE  \/ Returns \/ Begins \/ Idle \/ ReadsOn
           \/ Deliver \/ KaTick \/ WsTick \/ ClientLeaves \/ Tick
<1>1. CASE UNCHANGED vars
  BY <1>1 DEF vars, relayVars, watchVars, goneVars, Idle
<1>2. CASE DialFails
  BY <1>2 DEF DialFails, Returns
<1>3. CASE Answered
  BY <1>3 DEF Answered, Begins
<1>4. CASE AnsweredRetryable
  BY <1>4 DEF AnsweredRetryable, relayVars, watchVars, goneVars, Idle
<1>5. CASE PeekFrames \/ PeekSmall
  BY <1>5 DEF PeekFrames, PeekSmall, Returns
<1>6. CASE PeekOversized
  BY <1>6 DEF PeekOversized, DetectAndWrite, Begins
<1>7. CASE ReadData
  <2>1. /\ pc = "read" /\ pc' = "deliver" /\ sinceRead' = 0
        /\ UNCHANGED <<mode, outcome, headers, clientVars, ka, ws, watch, gone>>
    BY <1>7 DEF ReadData, DetectAndWrite, goneVars
  <2> QED BY <2>1 DEF Idle
<1>8. CASE ReadEOF
  <2>1. /\ pc = "read" /\ pc' = "deliver" /\ after' = "eof"
        /\ UNCHANGED <<mode, outcome, headers, clientVars, ka, ws, watch, sinceRead, gone>>
    BY <1>8 DEF ReadEOF, watchVars, goneVars
  <2> QED BY <2>1 DEF Idle
<1>9. CASE ReadFails
  <2>1. CASE Return("ctx")
    BY <1>9, <2>1 DEF ReadFails, Returns
  <2>2. CASE ~Return("ctx")
    <3>1. /\ pc = "read" /\ pc' = "deliver" /\ after' = "error"
          /\ UNCHANGED <<mode, outcome, headers, clientVars, ka, ws, watch, sinceRead, gone>>
      BY <1>9, <2>2 DEF ReadFails, watchVars, goneVars
    <3> QED BY <3>1 DEF Idle
  <2> QED BY <2>1, <2>2
<1>10. CASE DrainEnds \/ DrainDeadline
  BY <1>10 DEF DrainEnds, DrainDeadline, Returns
<1>11. CASE WriteFails
  <2>1. pc = "deliver" /\ gone
    BY <1>11 DEF WriteFails, MayFail
  <2>2. CASE Return("midstream") \/ Return("write")
    BY <2>1, <2>2 DEF Returns
  <2>3. CASE ~(Return("midstream") \/ Return("write"))
    <3>1. /\ pc' \in {"drain", pc}
          /\ UNCHANGED <<mode, relayVars, clientVars, ka, ws, sinceRead, watch, goneVars>>
      BY <1>11, <2>3 DEF WriteFails, watchVars
    <3> QED BY <2>1, <3>1 DEF Idle, relayVars, goneVars
  <2> QED BY <2>2, <2>3
<1>12. CASE Delivered
  BY <1>12 DEF Delivered, Returns, ReadsOn
<1>13. CASE Watchdog
  BY <1>13 DEF Watchdog, relayVars, goneVars, Idle
<1>14. CASE ContextDone
  BY <1>14 DEF ContextDone, relayVars, Idle
<1> QED BY <1>1, <1>2, <1>3, <1>4, <1>5, <1>6, <1>7, <1>8, <1>9, <1>10, <1>11, <1>12, <1>13,
           <1>14 DEF Next, Backend, Relay

-----------------------------------------------------------------------------
(* Clocks and phases.                                                      *)

\* Every step keeps the timers and clocks in their sets.
LEMMA ClocksStep ==
    ASSUME ClocksOK, Phases, [Next]_vars
    PROVE  ClocksOK'
<1>0. KeepAliveIdle \in Nat \ {0} /\ WaitSignalIdle \in Nat \ {0}
  BY StreamAssumption
<1>1. CASE Returns
  <2>1. /\ ka' = SilenceStop(ka) /\ ws' = SilenceStop(ws) /\ watch' = FALSE /\ sinceRead' = 0
        /\ UNCHANGED <<mode, quiet, gone>>
    BY <1>1 DEF Returns, Return, clientVars, goneVars
  <2>2. /\ ka' \in Timer(KeepAliveIdle) /\ ws' \in Timer(WaitSignalIdle)
        /\ ~ka'.on /\ ka'.fired = ka.fired
    BY <1>0, <2>1, TimerKept, Switches DEF ClocksOK
  <2> QED BY <2>1, <2>2 DEF ClocksOK
<1>2. CASE Begins
  <2>1. /\ ka' = IF mode.stream /\ mode.ka THEN SilenceStart(ka, KeepAliveIdle) ELSE ka
        /\ ws' = IF mode.stream THEN SilenceStart(ws, WaitSignalIdle) ELSE ws
        /\ watch' = mode.stream /\ sinceRead' = 0 /\ quiet' = 0 /\ UNCHANGED <<mode, gone>>
    BY <1>2 DEF Begins, Begin, goneVars
  <2>2. ka' \in Timer(KeepAliveIdle) /\ ws' \in Timer(WaitSignalIdle)
    BY <1>0, <2>1, TimerKept DEF ClocksOK
  <2> QED BY <2>1, <2>2 DEF ClocksOK
<1>3. CASE Idle
  <2>1. /\ UNCHANGED <<mode, ka, ws, quiet, gone>> /\ sinceRead' \in {sinceRead, 0}
        /\ watch' = watch \/ watch' = FALSE
    BY <1>3 DEF Idle, clientVars
  <2>2. watch \in BOOLEAN /\ (watch => mode.stream)
    BY DEF ClocksOK
  <2>4. watch' \in BOOLEAN /\ (watch' => mode.stream)
    <3>1. CASE watch' = watch
      BY <2>2, <3>1
    <3>2. CASE watch' = FALSE
      <4>1. watch' \in BOOLEAN
        BY <3>2
      <4>2. ~watch'
        BY <3>2
      <4> QED BY <4>1, <4>2
    <3> QED BY <2>1, <3>1, <3>2
  <2>3. sinceRead' \in Nat
    BY <2>1 DEF ClocksOK
  <2> QED BY <2>1, <2>3, <2>4 DEF ClocksOK
<1>4. CASE ReadsOn
  <2>1. /\ ka' = KaFlush(ka) /\ ws' = SilenceFlush(ws, WaitSignalIdle)
        /\ UNCHANGED <<mode, quiet, gone, watch, sinceRead>>
    BY <1>4 DEF ReadsOn, clientVars, watchVars, goneVars
  <2>2. ka' \in Timer(KeepAliveIdle) /\ ws' \in Timer(WaitSignalIdle)
    BY <1>0, <2>1, TimerKept, KeepAliveKept DEF ClocksOK
  <2>3. ~mode.ka => ka' = ka
    BY <2>1 DEF KaFlush
  <2> QED BY <2>1, <2>2, <2>3 DEF ClocksOK
<1>5. CASE Deliver
  <2>1. /\ ka' = KaFlush(KaWrite(ka)) /\ quiet' = 0
        /\ ws' = SilenceFlush(SilenceWrite(ws, WaitSignalIdle), WaitSignalIdle)
        /\ UNCHANGED <<mode, gone, watch, sinceRead>>
    BY <1>5 DEF Deliver, watchVars, goneVars
  <2>2. ka' \in Timer(KeepAliveIdle) /\ ws' \in Timer(WaitSignalIdle)
    BY <1>0, <2>1, TimerKept, KeepAliveKept DEF ClocksOK
  <2>3. ~mode.ka => ka' = ka
    BY <2>1 DEF KaFlush, KaWrite
  <2> QED BY <2>1, <2>2, <2>3 DEF ClocksOK
<1>6. CASE KaTick
  <2> DEFINE t == [ka EXCEPT !.fired = FALSE]
  <2>1. /\ ka.fired /\ ka' \in {t, armLocked(t, KeepAliveIdle), [t EXCEPT !.on = FALSE]}
        /\ quiet' \in {quiet, 0} /\ UNCHANGED <<mode, ws, gone, watch, sinceRead>>
    BY <1>6 DEF KaTick, Heartbeat, clientVars, watchVars, goneVars
  <2>2. ka' \in Timer(KeepAliveIdle)
    <3>1. /\ t \in Timer(KeepAliveIdle) /\ armLocked(t, KeepAliveIdle) \in Timer(KeepAliveIdle)
          /\ [t EXCEPT !.on = FALSE] \in Timer(KeepAliveIdle)
      BY <1>0, TimerKept DEF ClocksOK
    <3> QED BY <2>1, <3>1
  <2> QED BY <2>1, <2>2 DEF ClocksOK
<1>7. CASE WsTick
  <2> DEFINE t == [ws EXCEPT !.fired = FALSE]
  <2>1. /\ ws' \in {t, armLocked(t, WaitSignalIdle), [t EXCEPT !.on = FALSE]}
        /\ ka' \in {ka, KaFlush(KaWrite(ka)), KaWrite(ka)}
        /\ quiet' \in {quiet, 0} /\ UNCHANGED <<mode, gone, watch, sinceRead>>
    BY <1>7 DEF WsTick, Heartbeat, clientVars, watchVars, goneVars
  <2>2. ws' \in Timer(WaitSignalIdle) /\ ka' \in Timer(KeepAliveIdle)
    <3>1. /\ t \in Timer(WaitSignalIdle) /\ armLocked(t, WaitSignalIdle) \in Timer(WaitSignalIdle)
          /\ [t EXCEPT !.on = FALSE] \in Timer(WaitSignalIdle)
      BY <1>0, TimerKept DEF ClocksOK
    <3>2. /\ ka \in Timer(KeepAliveIdle) /\ KaWrite(ka) \in Timer(KeepAliveIdle)
          /\ KaFlush(KaWrite(ka)) \in Timer(KeepAliveIdle)
      BY KeepAliveKept DEF ClocksOK
    <3> HIDE DEF t
    <3> QED BY <2>1, <3>1, <3>2
  <2>3. ~mode.ka => ka' = ka
    BY <2>1 DEF KaFlush, KaWrite
  <2> QED BY <2>1, <2>2, <2>3 DEF ClocksOK
<1>8. CASE ClientLeaves
  BY <1>8 DEF ClientLeaves, ClocksOK, watchVars
<1>9. CASE Tick
  <2>1. /\ ka' \in {ka, Elapse(ka, KeepAliveIdle)} /\ ws' \in {ws, Elapse(ws, WaitSignalIdle)}
        /\ quiet' \in {quiet, quiet + 1} /\ sinceRead' \in {sinceRead, sinceRead + 1}
        /\ UNCHANGED <<mode, gone, watch>>
    BY <1>9 DEF Tick, goneVars
  <2>2. ka' \in Timer(KeepAliveIdle) /\ ws' \in Timer(WaitSignalIdle)
    BY <1>0, <2>1, TimerKept DEF ClocksOK
  <2>3. ~ka.on => ka' = ka
    BY <1>0, <2>1, Switches DEF ClocksOK
  <2> QED BY <2>1, <2>2, <2>3 DEF ClocksOK
<1> QED BY <1>1, <1>2, <1>3, <1>4, <1>5, <1>6, <1>7, <1>8, <1>9, NextSorted

\* Every step keeps the order of the phases, and what an outcome says.
LEMMA PhasesStep ==
    ASSUME ClocksOK, Phases, RetryOnlyUnsent, [Next]_vars
    PROVE  /\ Phases' /\ RetryOnlyUnsent'
           /\ pc = "done" => UNCHANGED clientVars
<1>0. KeepAliveIdle \in Nat \ {0} /\ WaitSignalIdle \in Nat \ {0}
  BY StreamAssumption
<1>1. CASE Returns
  <2>1. PICK o \in {"ok", "ctx", "transport", "streamError", "buffered", "write", "midstream"} :
            /\ Return(o) /\ pc # "done"
            /\ o \in {"transport", "streamError", "buffered", "write"} => pc \in {"dial", "peek"} \/ gone
    BY <1>1 DEF Returns
  <2>2. /\ pc' = "done" /\ outcome' = o /\ ka' = SilenceStop(ka) /\ ws' = SilenceStop(ws)
        /\ UNCHANGED <<headers, gone>>
    BY <2>1 DEF Return, goneVars
  <2>3. ~ka'.on /\ ~ws'.on
    BY <1>0, <2>2, Switches DEF ClocksOK
  <2> QED BY <2>1, <2>2, <2>3 DEF Phases, RetryOnlyUnsent
<1>2. CASE Begins
  <2>1. pc \in {"dial", "peek"} /\ pc' \in {"read", "deliver"} /\ outcome' = outcome
    BY <1>2 DEF Begins, Begin
  <2> QED BY <2>1 DEF Phases, RetryOnlyUnsent
<1>3. CASE Idle
  BY <1>3 DEF Idle, Phases, RetryOnlyUnsent
<1>4. CASE ReadsOn \/ Deliver
  <2>1. pc = "deliver" /\ pc' \in {"read", "deliver"} /\ UNCHANGED <<headers, outcome, gone>>
    BY <1>4 DEF ReadsOn, Deliver, relayVars, goneVars
  <2> QED BY <2>1 DEF Phases, RetryOnlyUnsent
<1>5. CASE KaTick
  <2> DEFINE t == [ka EXCEPT !.fired = FALSE]
  <2>1. ka.fired /\ UNCHANGED <<pc, headers, outcome, gone, ws>>
    BY <1>5 DEF KaTick, relayVars, goneVars
  <2>2. ~ka.on => ka' = t /\ UNCHANGED clientVars
    <3>1. t.on = ka.on
      BY DEF ClocksOK, Timer
    <3> QED BY <1>5, <3>1 DEF KaTick
  <2>3. ~ka.on => ~ka'.on
    BY <2>2 DEF ClocksOK, Timer
  <2> QED BY <2>1, <2>2, <2>3 DEF Phases, RetryOnlyUnsent, NoTimer
<1>6. CASE WsTick
  <2> DEFINE t == [ws EXCEPT !.fired = FALSE]
  <2>1. ws.fired /\ UNCHANGED <<pc, headers, outcome, gone>>
    BY <1>6 DEF WsTick, relayVars, goneVars
  <2>2. ~ws.on => ws' = t /\ UNCHANGED <<clientVars, ka>>
    <3>1. t.on = ws.on
      BY DEF ClocksOK, Timer
    <3> QED BY <1>6, <3>1 DEF WsTick
  <2>3. ~ws.on => ~ws'.on
    BY <2>2 DEF ClocksOK, Timer
  <2> QED BY <2>1, <2>2, <2>3 DEF Phases, RetryOnlyUnsent, NoTimer
<1>7. CASE ClientLeaves
  BY <1>7 DEF ClientLeaves, relayVars, Phases, RetryOnlyUnsent
<1>8. CASE Tick
  BY <1>8 DEF Tick, relayVars, goneVars, Phases, RetryOnlyUnsent
<1> QED BY <1>1, <1>2, <1>3, <1>4, <1>5, <1>6, <1>7, <1>8, NextSorted

\* Timers, clocks and phases, throughout.
LEMMA AlwaysPhased == Spec => [](ClocksOK /\ Phases /\ RetryOnlyUnsent)
<1>1. Init => ClocksOK /\ Phases /\ RetryOnlyUnsent
  <2> SUFFICES ASSUME Init PROVE ClocksOK /\ Phases /\ RetryOnlyUnsent
    OBVIOUS
  <2>1. NoTimer \in Timer(KeepAliveIdle) /\ NoTimer \in Timer(WaitSignalIdle)
        /\ ~NoTimer.on /\ ~NoTimer.fired
    BY StreamAssumption DEF Timer, NoTimer
  <2> QED BY <2>1, StreamAssumption DEF Init, ClocksOK, Phases, RetryOnlyUnsent
<1>2. ClocksOK /\ Phases /\ RetryOnlyUnsent /\ [Next]_vars => (ClocksOK /\ Phases /\ RetryOnlyUnsent)'
  BY ClocksStep, PhasesStep
<1> QED BY <1>1, <1>2, PTL DEF Spec

\* proxy.go's error returns: an outcome the router takes as leave to send the
\* request elsewhere comes before the status line, or after the client has left.
THEOREM RetriesSafe == Spec => []RetryOnlyUnsent
BY AlwaysPhased, PTL

\* silenceWriter.Stop, deferred in StreamProxy: nothing reaches the client after
\* the return, not even from a timer callback that was waiting for the mutex.
THEOREM NothingAfterReturn == Spec => SilentAfterReturn
<1>1. ClocksOK /\ Phases /\ RetryOnlyUnsent /\ [Next]_vars => [pc = "done" => UNCHANGED clientVars]_vars
  BY PhasesStep
<1> QED BY <1>1, AlwaysPhased, PTL DEF Spec, SilentAfterReturn

-----------------------------------------------------------------------------
(* The client is not left waiting.                                         *)

\* Armed anew, by a write, a flush or its own callback, a running timer is ready.
LEMMA ReadyAgain ==
    ASSUME NEW idle \in Nat \ {0}, NEW t \in Timer(idle), t.on
    PROVE  LET w == SilenceFlush(SilenceWrite(t, idle), idle)
               f == SilenceFlush(t, idle)
               a == armLocked([t EXCEPT !.fired = FALSE], idle)
           IN  /\ Ready(w, idle) /\ w.left = idle
               /\ Ready(f, idle) /\ f.left = idle
               /\ Ready(a, idle) /\ a.left = idle
BY DEF Ready, Timer, armLocked, SilenceWrite, SilenceFlush

\* A timer that is started is ready.
LEMMA ReadyStarted ==
    ASSUME NEW idle \in Nat \ {0}
    PROVE  Ready(SilenceStart(NoTimer, idle), idle) /\ SilenceStart(NoTimer, idle).left = idle
BY DEF Ready, NoTimer, armLocked, SilenceStart

\* A tick of the clock uses up the window, and the callback waits at its end.
LEMMA ReadyElapses ==
    ASSUME NEW idle \in Nat \ {0}, NEW t \in Timer(idle), Ready(t, idle), ~t.fired
    PROVE  Ready(Elapse(t, idle), idle) /\ Elapse(t, idle).left = t.left - 1
BY DEF Ready, Timer, Elapse

\* A callback that skips its turn had just been armed.
LEMMA SkippedJustArmed ==
    ASSUME NEW idle \in Nat \ {0}, NEW t \in Timer(idle), Ready(t, idle), t.fired, t.since < idle
    PROVE  t.left = idle
BY DEF Ready, Timer

\* What the lowest timer is, now and after a step.
LEMMA LowestIs ==
    ASSUME ClocksOK, mode' = mode
    PROVE  /\ Lowest \in Timer(LowestIdle) /\ LowestIdle \in Nat \ {0}
           /\ LowestIdle' = LowestIdle
           /\ mode.ka => Lowest = ka /\ Lowest' = ka' /\ LowestIdle = KeepAliveIdle
           /\ ~mode.ka => Lowest = ws /\ Lowest' = ws' /\ LowestIdle = WaitSignalIdle
           /\ mode.ka \in BOOLEAN /\ mode.stream \in BOOLEAN
BY StreamAssumption DEF ClocksOK, Lowest, LowestIdle

\* A callback of the lowest timer that is ready sends, or has just been armed.
LEMMA LowestTicks ==
    ASSUME NEW idle \in Nat \ {0}, NEW t \in Timer(idle), NEW new, Ready(t, idle), t.fired,
           new = armLocked([t EXCEPT !.fired = FALSE], idle)
    PROVE  /\ Ready(new, idle) /\ new.left = idle
           /\ SkipsTick([t EXCEPT !.fired = FALSE], idle) => t.left = idle
<1>1. t.on /\ [t EXCEPT !.fired = FALSE].since = t.since
  BY DEF Ready, Timer
<1> QED BY <1>1, ReadyAgain, SkippedJustArmed DEF SkipsTick

\* Every step keeps the client's wait within the window.
LEMMA PromptStep ==
    ASSUME ClocksOK, Phases, Prompt, [Next]_vars
    PROVE  Prompt'
<1>0. mode' = mode => LowestIdle \in Nat \ {0} /\ quiet \in Nat /\ sinceRead \in Nat
  BY LowestIs DEF ClocksOK
<1>1. CASE Returns
  <2>1. pc' = "done"
    BY <1>1 DEF Returns, Return
  <2> QED BY <2>1 DEF Prompt
<1>2. CASE Begins
  <2>1. /\ ka' = IF mode.stream /\ mode.ka THEN SilenceStart(ka, KeepAliveIdle) ELSE ka
        /\ ws' = IF mode.stream THEN SilenceStart(ws, WaitSignalIdle) ELSE ws
        /\ sinceRead' = 0 /\ quiet' = 0 /\ mode' = mode
        /\ ka = NoTimer /\ ws = NoTimer
    BY <1>2 DEF Begins, Begin, Phases
  <2>2. mode.stream => Lowest' = SilenceStart(NoTimer, LowestIdle)
    BY <2>1, LowestIs
  <2>3. mode.stream => Ready(Lowest', LowestIdle) /\ Lowest'.left = LowestIdle
    BY <2>1, <2>2, LowestIs, ReadyStarted
  <2>4. mode.stream => quiet' + Lowest'.left <= LowestIdle
    BY <1>0, <2>1, <2>3
  <2>5. mode.stream => Ready(Lowest, LowestIdle)'
    BY <2>1, <2>3, LowestIs DEF Ready
  <2> QED BY <2>1, <2>4, <2>5, LowestIs DEF Prompt
<1>3. CASE Idle
  <2>1. /\ UNCHANGED <<mode, ka, ws, gone, quiet>> /\ sinceRead' \in {sinceRead, 0}
        /\ pc' = "read" => pc = "read"
        /\ pc' \in {"read", "deliver"} => pc \in {"read", "deliver"}
        /\ pc' = "deliver" /\ after' = "read" => sinceRead' = 0 \/ (pc = "deliver" /\ after = "read")
    BY <1>3 DEF Idle, clientVars
  <2>2. Lowest' = Lowest /\ LowestIdle' = LowestIdle
    BY <2>1 DEF Lowest, LowestIdle
  <2>3. Ready(Lowest, LowestIdle) => Ready(Lowest, LowestIdle)'
    BY <2>2 DEF Ready
  <2>4. pc' = "deliver" /\ after' = "read" => sinceRead' = 0
    BY <2>1 DEF Prompt
  <2>5. sinceRead + Lowest.left <= LowestIdle => sinceRead' + Lowest.left <= LowestIdle
    <3>1. Lowest.left \in Nat
      BY <2>1, LowestIs DEF Timer
    <3> QED BY <1>0, <2>1, <3>1
  <2> QED BY <2>1, <2>2, <2>3, <2>4, <2>5 DEF Prompt
<1>4. CASE ReadsOn
  <2>1. /\ pc = "deliver" /\ after = "read" /\ pc' = "read"
        /\ ka' = KaFlush(ka) /\ ws' = SilenceFlush(ws, WaitSignalIdle)
        /\ UNCHANGED <<mode, gone, sinceRead>> /\ sinceRead = 0
    BY <1>4 DEF ReadsOn, watchVars, goneVars, Prompt
  <2>2. Lowest' = SilenceFlush(Lowest, LowestIdle)
    BY <2>1, LowestIs DEF KaFlush
  <2> SUFFICES ASSUME mode.stream, ~gone PROVE Prompt'
    BY <2>1 DEF Prompt
  <2>3. Lowest.on
    BY <2>1 DEF Prompt, Ready
  <2>4. Ready(Lowest', LowestIdle) /\ Lowest'.left = LowestIdle
    BY <2>1, <2>2, <2>3, LowestIs, ReadyAgain
  <2>5. Ready(Lowest, LowestIdle)'
    BY <2>1, <2>4, LowestIs DEF Ready
  <2>6. (sinceRead + Lowest.left <= LowestIdle)'
    BY <1>0, <2>1, <2>4, LowestIs
  <2> QED BY <2>1, <2>5, <2>6 DEF Prompt
<1>5. CASE Deliver
  <2>1. /\ pc = "deliver" /\ pc' = "deliver"
        /\ ka' = KaFlush(KaWrite(ka))
        /\ ws' = SilenceFlush(SilenceWrite(ws, WaitSignalIdle), WaitSignalIdle)
        /\ UNCHANGED <<mode, gone, sinceRead, after>>
    BY <1>5 DEF Deliver, relayVars, watchVars, goneVars
  <2>2. Lowest' = SilenceFlush(SilenceWrite(Lowest, LowestIdle), LowestIdle)
    BY <2>1, LowestIs DEF KaFlush, KaWrite
  <2>3. ASSUME mode.stream, ~gone PROVE Ready(Lowest, LowestIdle)'
    <3>1. Lowest.on
      BY <2>1, <2>3 DEF Prompt, Ready
    <3>2. Ready(Lowest', LowestIdle)
      BY <2>1, <2>2, <3>1, LowestIs, ReadyAgain
    <3> QED BY <2>1, <3>2, LowestIs DEF Ready
  <2> QED BY <2>1, <2>3 DEF Prompt
<1>6. CASE KaTick
  <2>1. /\ ka.fired /\ UNCHANGED <<mode, pc, after, ws, gone, sinceRead>>
    BY <1>6 DEF KaTick, relayVars, watchVars, goneVars
  <2>2. mode.ka
    BY <2>1 DEF ClocksOK
  <2> SUFFICES ASSUME mode.stream, ~gone, pc \in {"read", "deliver"}
               PROVE  /\ Ready(Lowest, LowestIdle)'
                      /\ pc = "read" => (\/ quiet + Lowest.left <= LowestIdle
                                         \/ sinceRead + Lowest.left <= LowestIdle)'
    BY <2>1 DEF Prompt
  <2> DEFINE t == [ka EXCEPT !.fired = FALSE]
  <2>3. /\ ka \in Timer(KeepAliveIdle) /\ KeepAliveIdle \in Nat \ {0} /\ Ready(ka, KeepAliveIdle)
    BY <2>1, <2>2, LowestIs DEF Prompt
  <2>4. t.on /\ KeepAliveIdle \in Nat
    BY <2>3 DEF Ready, Timer
  <2>5. /\ ka' = armLocked(t, KeepAliveIdle)
        /\ (SkipsTick(t, KeepAliveIdle) /\ quiet' = quiet) \/ quiet' = 0
    BY <1>6, <2>4 DEF KaTick, Heartbeat, MayFail, clientVars
  <2>6. /\ Ready(ka', KeepAliveIdle) /\ ka'.left = KeepAliveIdle
        /\ SkipsTick(t, KeepAliveIdle) => ka.left = KeepAliveIdle
    BY <2>1, <2>3, <2>5, LowestTicks
  <2>7. Ready(Lowest, LowestIdle)'
    BY <2>1, <2>2, <2>6, LowestIs DEF Ready
  <2>8. CASE quiet' = 0
    <3>1. quiet' + ka'.left <= KeepAliveIdle
      BY <2>4, <2>6, <2>8
    <3> QED BY <2>1, <2>2, <2>7, <3>1, LowestIs
  <2>9. CASE SkipsTick(t, KeepAliveIdle) /\ quiet' = quiet
    <3>1. ka'.left = ka.left
      BY <2>6, <2>9
    <3> QED BY <2>1, <2>2, <2>7, <2>9, <3>1, LowestIs DEF Prompt
  <2> QED BY <2>5, <2>8, <2>9
<1>7. CASE WsTick
  <2>1. /\ ws.fired /\ UNCHANGED <<mode, pc, after, gone, sinceRead>>
    BY <1>7 DEF WsTick, relayVars, watchVars, goneVars
  <2> SUFFICES ASSUME mode.stream, ~gone, pc \in {"read", "deliver"}
               PROVE  /\ Ready(Lowest, LowestIdle)'
                      /\ pc = "read" => (\/ quiet + Lowest.left <= LowestIdle
                                         \/ sinceRead + Lowest.left <= LowestIdle)'
    BY <2>1 DEF Prompt
  <2> DEFINE t == [ws EXCEPT !.fired = FALSE]
  <2>2. \/ ~t.on /\ UNCHANGED <<ka, quiet>>
        \/ SkipsTick(t, WaitSignalIdle) /\ ws' = armLocked(t, WaitSignalIdle) /\ UNCHANGED <<ka, quiet>>
        \/ ka' = KaFlush(KaWrite(ka)) /\ quiet' = 0 /\ ws' = armLocked(t, WaitSignalIdle)
    <3>1. \/ ~t.on /\ UNCHANGED <<clientVars, ka>>
          \/ SkipsTick(t, WaitSignalIdle) /\ ws' = armLocked(t, WaitSignalIdle) /\ UNCHANGED <<clientVars, ka>>
          \/ ws' = armLocked(t, WaitSignalIdle) /\ ka' = KaFlush(KaWrite(ka)) /\ Heartbeat
      BY <1>7, Zenon DEF WsTick, MayFail
    <3> QED BY <3>1 DEF Heartbeat, clientVars
  <2>3. Lowest.on /\ Ready(Lowest, LowestIdle)
    BY <2>1 DEF Prompt, Ready
  <2>4. CASE mode.ka
    <3>1. CASE UNCHANGED <<ka, quiet>>
      <4>1. Lowest' = Lowest /\ LowestIdle' = LowestIdle
        BY <2>1, <2>4, <3>1, LowestIs
      <4> QED BY <2>1, <2>3, <3>1, <4>1 DEF Ready, Prompt
    <3>2. CASE ka' = KaFlush(KaWrite(ka)) /\ quiet' = 0
      <4>1. Lowest' = SilenceFlush(SilenceWrite(Lowest, LowestIdle), LowestIdle)
        BY <2>1, <2>4, <3>2, LowestIs DEF KaFlush, KaWrite
      <4>2. Ready(Lowest', LowestIdle) /\ Lowest'.left = LowestIdle
        BY <2>1, <2>3, <4>1, LowestIs, ReadyAgain
      <4>3. Ready(Lowest, LowestIdle)'
        BY <2>1, <4>2, LowestIs DEF Ready
      <4>4. (quiet + Lowest.left <= LowestIdle)'
        BY <1>0, <2>1, <3>2, <4>2, LowestIs
      <4> QED BY <4>3, <4>4
    <3> QED BY <2>2, <3>1, <3>2
  <2>5. CASE ~mode.ka
    <3>1. /\ ws \in Timer(WaitSignalIdle) /\ WaitSignalIdle \in Nat \ {0} /\ Ready(ws, WaitSignalIdle)
      BY <2>1, <2>3, <2>5, LowestIs
    <3>2. t.on /\ WaitSignalIdle \in Nat
      BY <3>1 DEF Ready, Timer
    <3>3. /\ ws' = armLocked(t, WaitSignalIdle)
          /\ (SkipsTick(t, WaitSignalIdle) /\ quiet' = quiet) \/ quiet' = 0
      BY <2>2, <3>2
    <3>4. /\ Ready(ws', WaitSignalIdle) /\ ws'.left = WaitSignalIdle
          /\ SkipsTick(t, WaitSignalIdle) => ws.left = WaitSignalIdle
      BY <2>1, <3>1, <3>3, LowestTicks
    <3>5. Ready(Lowest, LowestIdle)'
      BY <2>1, <2>5, <3>4, LowestIs DEF Ready
    <3>6. CASE quiet' = 0
      <4>1. quiet' + ws'.left <= WaitSignalIdle
        BY <3>2, <3>4, <3>6
      <4> QED BY <2>1, <2>5, <3>5, <4>1, LowestIs
    <3>7. CASE SkipsTick(t, WaitSignalIdle) /\ quiet' = quiet
      <4>1. ws'.left = ws.left
        BY <3>4, <3>7
      <4> QED BY <2>1, <2>5, <3>5, <3>7, <4>1, LowestIs DEF Prompt
    <3> QED BY <3>3, <3>6, <3>7
  <2> QED BY <2>4, <2>5
<1>8. CASE ClientLeaves
  <2>1. gone' /\ UNCHANGED <<pc, after, sinceRead>>
    BY <1>8 DEF ClientLeaves, relayVars, watchVars
  <2> QED BY <2>1 DEF Prompt
<1>9. CASE Tick
  <2>1. /\ ~ka.fired /\ ~ws.fired /\ UNCHANGED <<mode, pc, gone>> /\ pc \in {"read", "drain"}
    BY <1>9 DEF Tick, goneVars
  <2>2. CASE pc = "drain"
    BY <2>1, <2>2 DEF Prompt
  <2>3. CASE pc = "read"
    <3>1. /\ ka' = Elapse(ka, KeepAliveIdle) /\ ws' = Elapse(ws, WaitSignalIdle)
          /\ quiet' \in {quiet, quiet + 1} /\ sinceRead' \in {sinceRead, sinceRead + 1}
      BY <1>9, <2>3 DEF Tick
    <3> SUFFICES ASSUME mode.stream, ~gone PROVE Prompt'
      BY <2>1, <2>3 DEF Prompt
    <3>2. Lowest' = Elapse(Lowest, LowestIdle) /\ ~Lowest.fired /\ LowestIdle' = LowestIdle
      BY <2>1, <3>1, LowestIs
    <3>3. Ready(Lowest', LowestIdle) /\ Lowest'.left = Lowest.left - 1
      BY <2>1, <2>3, <3>2, LowestIs, ReadyElapses DEF Prompt
    <3>4. Ready(Lowest, LowestIdle)'
      BY <3>2, <3>3 DEF Ready
    <3>5. Lowest.left \in Nat
      BY <2>1, LowestIs DEF Timer
    <3>6. (quiet + Lowest.left <= LowestIdle \/ sinceRead + Lowest.left <= LowestIdle)'
      BY <1>0, <2>1, <2>3, <3>1, <3>2, <3>3, <3>5 DEF Prompt
    <3> QED BY <2>1, <2>3, <3>4, <3>6 DEF Prompt
  <2> QED BY <2>1, <2>2, <2>3
<1> QED BY <1>1, <1>2, <1>3, <1>4, <1>5, <1>6, <1>7, <1>8, <1>9, NextSorted

\* silenceWriter: while the backend is silent, a client that stays on a stream
\* never waits longer for a byte than the idle time of its lowest timer, however
\* the callbacks race the relay's writes and flushes.
THEOREM HeardInTime == Spec => []NeverSilent
<1>1. Init => Prompt
  BY DEF Init, Prompt
<1>2. ClocksOK /\ Phases /\ Prompt /\ [Next]_vars => Prompt'
  BY PromptStep
<1>3. ClocksOK /\ Prompt => NeverSilent
  <2> SUFFICES ASSUME ClocksOK, Prompt, watch, pc = "read", ~gone, quiet > LowestIdle
               PROVE  sinceRead <= LowestIdle
    BY DEF NeverSilent, LowestIdle
  <2>1. Lowest.left \in Nat /\ LowestIdle \in Nat /\ quiet \in Nat /\ sinceRead \in Nat /\ mode.stream
    BY StreamAssumption DEF ClocksOK, Lowest, LowestIdle, Timer
  <2> QED BY <2>1 DEF Prompt
<1> QED BY <1>1, <1>2, <1>3, AlwaysPhased, PTL DEF Spec

-----------------------------------------------------------------------------
(* Heartbeats and frames.                                                  *)

\* The frames that are whole; what is written to the client.
Closed == {f \in Frame : Terminated(f)}
Items == [cells : Frame, tr : BOOLEAN]
ClosedItems == {x \in Items : Terminated(x.cells)}

\* Frames of which only the last may lack its end.
OpenFrames == {fs \in Seq(Frame) : \A i \in 1 .. Len(fs) - 1 : Terminated(fs[i])}

\* A sequence is of the type its elements are of.
LEMMA SeqOfType ==
    ASSUME NEW E, NEW s \in Seq(E), NEW T, \A i \in 1 .. Len(s) : s[i] \in T
    PROVE  s \in Seq(T)
<1>1. Len(s) \in Nat /\ s \in [1 .. Len(s) -> E]
  BY LenProperties
<1>2. s \in [1 .. Len(s) -> T]
  BY <1>1
<1> QED BY <1>1, <1>2

\* The ends of a sequence that is not empty, and of one that grew.
LEMMA Ending ==
    ASSUME NEW E, NEW s \in Seq(E)
    PROVE  /\ s # <<>> => Last(s) \in E /\ Front(s) \in Seq(E) /\ Len(Front(s)) = Len(s) - 1
                          /\ \A i \in 1 .. Len(s) - 1 : Front(s)[i] = s[i]
           /\ \A e \in E : Append(s, e) \in Seq(E) /\ Append(s, e) # <<>> /\ Last(Append(s, e)) = e
<1>1. Len(s) \in Nat /\ \A i \in 1 .. Len(s) : s[i] \in E
  BY LenProperties, ElementOfSeq
<1>2. ASSUME s # <<>> PROVE Len(s) >= 1
  BY <1>1, <1>2, EmptySeq
<1>3. ASSUME s # <<>>
      PROVE  Last(s) \in E /\ Front(s) \in Seq(E) /\ Len(Front(s)) = Len(s) - 1
             /\ \A i \in 1 .. Len(s) - 1 : Front(s)[i] = s[i]
  <2>1. Len(s) - 1 \in Nat /\ Len(s) \in 1 .. Len(s) /\ \A i \in 1 .. Len(s) - 1 : s[i] \in E
    BY <1>1, <1>2, <1>3
  <2>2. Last(s) \in E
    BY <1>1, <2>1 DEF Last
  <2> DEFINE m == Len(s) - 1
  <2>3. SubSeq(s, 1, m) \in Seq(E) /\ Len(SubSeq(s, 1, m)) = m /\ \A i \in 1 .. m : SubSeq(s, 1, m)[i] = s[i]
    <3>1. m \in Nat /\ \A i \in 1 .. m : s[i] \in E
      BY <2>1
    <3> HIDE DEF m
    <3>2. m \in Int /\ 1 \in Int
      BY <3>1
    <3>3. /\ SubSeq(s, 1, m) \in Seq(E) /\ Len(SubSeq(s, 1, m)) = IF 1 <= m THEN m - 1 + 1 ELSE 0
          /\ \A i \in 1 .. (m - 1 + 1) : SubSeq(s, 1, m)[i] = s[1 + i - 1]
      BY <3>1, <3>2, SubSeqProperties
    <3>4. (IF 1 <= m THEN m - 1 + 1 ELSE 0) = m /\ m - 1 + 1 = m /\ \A i \in 1 .. m : 1 + i - 1 = i
      BY <3>1
    <3> QED BY <3>3, <3>4
  <2> QED BY <2>2, <2>3 DEF Front
<1>4. ASSUME NEW e \in E PROVE Append(s, e) \in Seq(E) /\ Append(s, e) # <<>> /\ Last(Append(s, e)) = e
  <2>1. Append(s, e) \in Seq(E) /\ Len(Append(s, e)) = Len(s) + 1 /\ Append(s, e)[Len(s) + 1] = e
    BY AppendProperties
  <2>2. Len(<<>>) = 0
    OBVIOUS
  <2> QED BY <1>1, <2>1, <2>2 DEF Last
<1> QED BY <1>3, <1>4

\* A frame of one piece, and a frame with one more, end with that piece.
LEMMA FrameGrows ==
    ASSUME NEW c \in Piece
    PROVE  /\ <<c>> \in Frame /\ Last(<<c>>) = c
           /\ \A f \in Frame : Append(f, c) \in Frame /\ Last(Append(f, c)) = c
<1>1. <<c>> \in Frame /\ Last(<<c>>) = c
  <2> HIDE DEF Piece
  <2> QED BY DEF Frame, Last
<1>2. \A f \in Frame : Append(f, c) \in Frame /\ Last(Append(f, c)) = c
  BY Ending DEF Frame
<1> QED BY <1>1, <1>2

\* findSSEFrameEnd: one more piece keeps the earlier frames whole, and one that
\* ends a frame leaves them all whole.
LEMMA PieceAdded ==
    ASSUME NEW fs \in OpenFrames, NEW c \in Piece
    PROVE  /\ AddPiece(fs, c) \in OpenFrames
           /\ Ends(c) => AddPiece(fs, c) \in Seq(Closed)
<1> DEFINE last == IF fs # <<>> /\ ~Terminated(Last(fs)) THEN Append(Last(fs), c) ELSE <<c>>
           rest == IF fs # <<>> /\ ~Terminated(Last(fs)) THEN Front(fs) ELSE fs
<1>1. fs \in Seq(Frame) /\ Len(fs) \in Nat /\ \A i \in 1 .. Len(fs) - 1 : Terminated(fs[i])
  BY LenProperties DEF OpenFrames
<1>2. last \in Frame /\ Last(last) = c
  BY <1>1, Ending, FrameGrows
<1>3. rest \in Seq(Frame) /\ \A i \in 1 .. Len(rest) : Terminated(rest[i])
  <2>1. CASE fs # <<>> /\ ~Terminated(Last(fs))
    <3>1. rest = Front(fs) /\ Front(fs) \in Seq(Frame) /\ Len(Front(fs)) = Len(fs) - 1
          /\ \A i \in 1 .. Len(fs) - 1 : Front(fs)[i] = fs[i]
      BY <1>1, <2>1, Ending
    <3> HIDE DEF rest
    <3> QED BY <1>1, <3>1
  <2>2. CASE fs = <<>>
    <3>1. rest = fs /\ Len(fs) = 0
      BY <2>2
    <3> HIDE DEF rest
    <3> QED BY <1>1, <3>1
  <2>3. CASE fs # <<>> /\ Terminated(Last(fs))
    <3>1. rest = fs /\ Last(fs) = fs[Len(fs)]
      BY <2>3 DEF Last
    <3>2. ASSUME NEW i \in 1 .. Len(fs) PROVE Terminated(fs[i])
      <4>1. i = Len(fs) \/ i \in 1 .. Len(fs) - 1
        BY <1>1
      <4> QED BY <1>1, <2>3, <3>1, <4>1
    <3> HIDE DEF rest
    <3> QED BY <1>1, <3>1, <3>2
  <2> QED BY <2>1, <2>2, <2>3
<1>4. AddPiece(fs, c) = Append(rest, last)
  BY DEF AddPiece
<1> HIDE DEF last, rest
<1>5. /\ Append(rest, last) \in Seq(Frame) /\ Len(Append(rest, last)) = Len(rest) + 1 /\ Len(rest) \in Nat
      /\ Append(rest, last)[Len(rest) + 1] = last
      /\ \A i \in 1 .. Len(rest) : Append(rest, last)[i] = rest[i]
  BY <1>2, <1>3, AppendProperties, LenProperties
<1>6. AddPiece(fs, c) \in OpenFrames
  <2>1. Len(Append(rest, last)) - 1 = Len(rest)
    BY <1>5
  <2>2. \A i \in 1 .. Len(rest) : Terminated(Append(rest, last)[i])
    BY <1>3, <1>5
  <2>3. Append(rest, last) \in OpenFrames
    BY <1>5, <2>1, <2>2 DEF OpenFrames
  <2> QED BY <1>4, <2>3
<1>7. ASSUME Ends(c) PROVE AddPiece(fs, c) \in Seq(Closed)
  <2>1. last \in Closed
    BY <1>2, <1>7 DEF Closed, Terminated
  <2>2. rest \in Seq(Closed)
    <3>1. \A i \in 1 .. Len(rest) : rest[i] \in Closed
      <4>1. \A i \in 1 .. Len(rest) : rest[i] \in Frame
        BY <1>3, ElementOfSeq
      <4> QED BY <1>3, <4>1 DEF Closed
    <3> QED BY <1>3, <3>1, SeqOfType
  <2> QED BY <1>4, <2>1, <2>2, AppendProperties
<1> QED BY <1>6, <1>7

PieceStep == [p \in OpenFrames \X Piece |-> AddPiece(p[1], p[2])]
StripStep == [p \in Seq(Closed) \X Closed |-> AddStripped(p[1], p[2])]
TranslateStep == [p \in Seq(ClosedItems) \X Closed |-> AddTranslated(p[1], p[2])]

\* The three steps, as functions.
LEMMA PieceStepIs ==
    ASSUME NEW w \in Seq(Piece)
    PROVE  /\ Foldable(w, Piece, OpenFrames, <<>>, PieceStep)
           /\ \A s \in OpenFrames, e \in Piece : PieceStep[<<s, e>>] = AddPiece(s, e)
<1>1. <<>> \in OpenFrames
  BY EmptySeq DEF OpenFrames
<1>2. PieceStep \in [OpenFrames \X Piece -> OpenFrames]
  BY PieceAdded DEF PieceStep
<1> QED BY <1>1, <1>2 DEF Foldable, PieceStep

\* CompleteFrames folds the pieces.
LEMMA PiecesFolded ==
    ASSUME NEW w \in Seq(Piece)
    PROVE  Frames(w) = LeftFold(w, OpenFrames, <<>>, PieceStep)
<1> DEFINE g == PartsFold(w, OpenFrames, <<>>, PieceStep)
           c == CHOOSE h : h = [R \in SUBSET DOMAIN w |->
                    IF R = {} THEN <<>> ELSE AddPiece(h[R \ {Max(R)}], w[Max(R)])]
<1>1. Frames(w) = c[DOMAIN w]
  BY Zenon DEF Frames, FoldLeft, MapThenFoldSet
<1>2. /\ Foldable(w, Piece, OpenFrames, <<>>, PieceStep) /\ \A i \in DOMAIN w : w[i] \in Piece
      /\ \A s \in OpenFrames, e \in Piece : PieceStep[<<s, e>>] = AddPiece(s, e)
  BY PieceStepIs, LenProperties, ElementOfSeq
<1>3. IsLeftFold(g, w, OpenFrames, <<>>, PieceStep)
  BY <1>2, PartsSolve
<1> HIDE DEF g
<1>4. g = [R \in SUBSET DOMAIN w |-> IF R = {} THEN <<>> ELSE AddPiece(g[R \ {Max(R)}], w[Max(R)])]
  <2>1. \A R \in SUBSET DOMAIN w : R # {} => g[R \ {Max(R)}] \in OpenFrames /\ w[Max(R)] \in Piece
    BY <1>2, <1>3 DEF IsLeftFold
  <2>2. \A R \in SUBSET DOMAIN w : R # {} => g[R] = AddPiece(g[R \ {Max(R)}], w[Max(R)])
    BY <1>2, <1>3, <2>1 DEF IsLeftFold
  <2> QED BY <1>3, <2>2 DEF IsLeftFold
<1>5. c = [R \in SUBSET DOMAIN w |-> IF R = {} THEN <<>> ELSE AddPiece(c[R \ {Max(R)}], w[Max(R)])]
  BY <1>4, Zenon
<1> HIDE DEF c
<1>6. SolvesLeft(c, w, OpenFrames, <<>>, PieceStep)
  <2>1. \A R \in SUBSET DOMAIN w : R # {} => Max(R) \in DOMAIN w
    BY <1>3 DEF IsLeftFold
  <2>2. c[{}] = <<>>
    BY <1>5
  <2>3. ASSUME NEW R \in SUBSET DOMAIN w, R # {}, c[R \ {Max(R)}] \in OpenFrames
        PROVE  c[R] = PieceStep[<<c[R \ {Max(R)}], w[Max(R)]>>]
    <3>1. w[Max(R)] \in Piece
      BY <1>2, <2>1, <2>3
    <3>2. c[R] = AddPiece(c[R \ {Max(R)}], w[Max(R)])
      BY <1>5, <2>3
    <3> QED BY <1>2, <2>3, <3>1, <3>2
  <2> QED BY <2>2, <2>3 DEF SolvesLeft
<1> QED BY <1>1, <1>2, <1>6, LeftFoldIs

\* Frame by frame, piece by piece.
LEMMA FramesGrow ==
    ASSUME NEW w \in Seq(Piece)
    PROVE  /\ Frames(w) \in OpenFrames /\ (w = <<>> => Frames(w) = <<>>)
           /\ \A e \in Piece : Frames(Append(w, e)) = AddPiece(Frames(w), e)
<1> DEFINE F(v) == LeftFold(v, OpenFrames, <<>>, PieceStep)
<1>1. Frames(w) = F(w) /\ Foldable(w, Piece, OpenFrames, <<>>, PieceStep)
  BY PiecesFolded, PieceStepIs
<1>2. F(w) \in OpenFrames /\ (w = <<>> => F(w) = <<>>)
  BY <1>1, LeftFoldType
<1>3. ASSUME NEW e \in Piece PROVE Frames(Append(w, e)) = AddPiece(Frames(w), e)
  <2>1. Append(w, e) \in Seq(Piece)
    BY AppendProperties
  <2>2. Frames(Append(w, e)) = F(Append(w, e))
    BY <2>1, PiecesFolded
  <2>3. F(Append(w, e)) = PieceStep[<<F(w), e>>]
    BY <1>1, LeftFoldAppend
  <2>4. PieceStep[<<F(w), e>>] = AddPiece(F(w), e)
    BY <1>2, PieceStepIs
  <2> QED BY <1>1, <2>2, <2>3, <2>4
<1> QED BY <1>1, <1>2, <1>3

\* findSSEFrameEnd, repeated: what is cut off at the last end is whole frames, and
\* the rest is kept.
LEMMA FramesCut ==
    ASSUME NEW buf \in Seq(Piece)
    PROVE  CompleteFrames(buf) \in Seq(Closed) /\ Incomplete(buf) \in Seq(Piece)
<1> DEFINE k == LastEnd(buf)
           I == {i \in 1 .. Len(buf) : Ends(buf[i])}
<1>1. Len(buf) \in Nat /\ \A i \in 1 .. Len(buf) : buf[i] \in Piece
  BY LenProperties, ElementOfSeq
<1>2. k = IF I # {} THEN Max(I) ELSE 0
  BY DEF LastEnd, SelectLastInSeq
<1>3. k \in 0 .. Len(buf) /\ (k # 0 => Ends(buf[k]))
  <2>1. I # {} => Max(I) \in I
    <3> HIDE DEF I
    <3>1. I \in SUBSET (1 .. Len(buf))
      BY DEF I
    <3> QED BY <1>1, <3>1, MaxIn
  <2> QED BY <1>1, <1>2, <2>1
<1> HIDE DEF k, I
<1>4. Incomplete(buf) \in Seq(Piece)
  <2> DEFINE m == Len(buf) - (Len(buf) - k) + 1
  <2>1. m \in Int /\ Len(buf) \in Int /\ \A i \in m .. Len(buf) : buf[i] \in Piece
    <3>1. m = k + 1
      BY <1>1, <1>3
    <3> HIDE DEF m
    <3>2. \A i \in k + 1 .. Len(buf) : i \in 1 .. Len(buf)
      BY <1>1, <1>3
    <3> QED BY <1>1, <1>3, <3>1, <3>2
  <2> HIDE DEF m
  <2>2. SubSeq(buf, m, Len(buf)) \in Seq(Piece)
    BY <2>1, SubSeqProperties
  <2> QED BY <2>2 DEF Incomplete, LastN, m, k
<1>5. CASE k = 0
  <2>1. FirstN(buf, k) = <<>>
    BY <1>5, SubSeqEmpty DEF FirstN
  <2>2. <<>> \in Seq(Piece) /\ <<>> \in Seq(Closed)
    BY EmptySeq
  <2>3. Frames(<<>>) = <<>>
    BY <2>2, FramesGrow
  <2>4. CompleteFrames(buf) = <<>>
    BY <2>1, <2>3 DEF CompleteFrames, k
  <2> QED BY <1>4, <2>2, <2>4
<1>6. CASE k # 0
  <2> DEFINE w == SubSeq(buf, 1, k - 1)
  <2>1. k \in 1 .. Len(buf) /\ k - 1 \in Int /\ 1 \in Int /\ \A i \in 1 .. k - 1 : buf[i] \in Piece
    BY <1>1, <1>3, <1>6
  <2>2. w \in Seq(Piece)
    BY <2>1, SubSeqProperties
  <2>3. FirstN(buf, k) = w \o <<buf[k]>>
    <3>1. 1 \in 1 .. Len(buf) /\ k \in 1 .. Len(buf)
      BY <1>1, <2>1
    <3> QED BY <3>1, SubSeqRecursiveSecond DEF FirstN
  <2> HIDE DEF w
  <2>4. buf[k] \in Piece /\ FirstN(buf, k) = Append(w, buf[k])
    BY <1>1, <2>1, <2>2, <2>3, AppendIsConcat
  <2>5. Append(w, buf[k]) \in Seq(Piece)
    BY <2>2, <2>4, AppendProperties
  <2>6. Frames(w) \in OpenFrames /\ Frames(Append(w, buf[k])) = AddPiece(Frames(w), buf[k])
    BY <2>2, <2>4, FramesGrow
  <2>9. Frames(Append(w, buf[k])) \in Seq(Closed)
    BY <1>3, <1>6, <2>4, <2>6, PieceAdded
  <2> QED BY <1>4, <2>4, <2>9 DEF CompleteFrames, k
<1> QED BY <1>5, <1>6

\* What the router writes itself is whole.
LEMMA OwnItems ==
    /\ ErrorCell \in Piece /\ ClosingCell \in Piece
    /\ \A c \in {ErrorCell, ClosingCell}, b \in BOOLEAN : Item(<<c>>, b) \in ClosedItems
    /\ ErrorItem \in ClosedItems
<1>1. ErrorCell \in Piece /\ ClosingCell \in Piece
  BY DEF ErrorCell, ClosingCell, Piece, Texts
<1>2. Ends(ErrorCell) /\ Ends(ClosingCell)
  BY DEF ErrorCell, ClosingCell, Ends
<1>3. ASSUME NEW c \in {ErrorCell, ClosingCell}, NEW b \in BOOLEAN PROVE Item(<<c>>, b) \in ClosedItems
  <2>1. c \in Piece /\ Ends(c)
    BY <1>1, <1>2
  <2>2. <<c>> \in Frame /\ Terminated(<<c>>)
    BY <2>1, FrameGrows DEF Terminated
  <2> QED BY <2>2 DEF Item, Items, ClosedItems
<1> QED BY <1>1, <1>3 DEF ErrorItem

\* A whole frame is whole as an item, and translated to whole items.
LEMMA FrameTranslated ==
    ASSUME NEW f \in Frame
    PROVE  /\ \A b \in BOOLEAN : Item(f, b) \in Items /\ (f \in Closed => Item(f, b) \in ClosedItems)
           /\ TranslateFrame(f) \in Seq(Items)
           /\ f \in Closed => TranslateFrame(f) \in Seq(ClosedItems)
<1>1. \A b \in BOOLEAN : Item(f, b) \in Items /\ (f \in Closed => Item(f, b) \in ClosedItems)
  BY DEF Item, Items, ClosedItems, Closed
<1>2. \A S, x : x \in S => <<x>> \in Seq(S) /\ <<>> \in Seq(S)
  OBVIOUS
<1>3. TranslateFrame(f) \in {<<ErrorItem>>, <<>>, <<Item(f, TRUE)>>}
  BY DEF TranslateFrame
<1>4. ErrorItem \in ClosedItems /\ ErrorItem \in Items
  BY OwnItems DEF ClosedItems
<1>5. TranslateFrame(f) \in Seq(Items)
  BY <1>1, <1>2, <1>3, <1>4
<1>6. f \in Closed => TranslateFrame(f) \in Seq(ClosedItems)
  BY <1>1, <1>2, <1>3, <1>4
<1> QED BY <1>1, <1>5, <1>6

\* The relay's filter and the translator, as functions.
LEMMA StripStepIs ==
    ASSUME NEW w \in Seq(Closed)
    PROVE  /\ Foldable(w, Closed, Seq(Closed), <<>>, StripStep)
           /\ \A s \in Seq(Closed), e \in Closed : StripStep[<<s, e>>] = AddStripped(s, e)
<1>1. \A s \in Seq(Closed), e \in Closed : AddStripped(s, e) \in Seq(Closed)
  BY AppendProperties DEF AddStripped
<1>2. StripStep \in [Seq(Closed) \X Closed -> Seq(Closed)]
  BY <1>1 DEF StripStep
<1> QED BY <1>2, EmptySeq DEF Foldable, StripStep

\* The same for the translator.
LEMMA TranslateStepIs ==
    ASSUME NEW w \in Seq(Closed)
    PROVE  /\ Foldable(w, Closed, Seq(ClosedItems), <<>>, TranslateStep)
           /\ \A s \in Seq(ClosedItems), e \in Closed : TranslateStep[<<s, e>>] = AddTranslated(s, e)
<1>1. \A s \in Seq(ClosedItems), e \in Closed : AddTranslated(s, e) \in Seq(ClosedItems)
  <2> TAKE s \in Seq(ClosedItems), e \in Closed
  <2>1. TranslateFrame(e) \in Seq(ClosedItems)
    BY FrameTranslated DEF Closed
  <2> QED BY <2>1, ConcatProperties DEF AddTranslated
<1>2. TranslateStep \in [Seq(ClosedItems) \X Closed -> Seq(ClosedItems)]
  BY <1>1 DEF TranslateStep
<1> QED BY <1>2, EmptySeq DEF Foldable, TranslateStep

\* Stripped folds the frames.
LEMMA StripFolded ==
    ASSUME NEW w \in Seq(Closed)
    PROVE  Stripped[w] = LeftFold(w, Seq(Closed), <<>>, StripStep)
<1> DEFINE g == PartsFold(w, Seq(Closed), <<>>, StripStep)
           c == CHOOSE h : h = [R \in SUBSET DOMAIN w |->
                    IF R = {} THEN <<>> ELSE AddStripped(h[R \ {Max(R)}], w[Max(R)])]
<1>0. Stripped[w] = FoldLeft(AddStripped, <<>>, w)
  <2>1. w \in Seq(Frame)
    BY SeqMonotonic DEF Closed
  <2> QED BY <2>1, Zenon DEF Stripped
<1>1. Stripped[w] = c[DOMAIN w]
  BY <1>0, Zenon DEF FoldLeft, MapThenFoldSet
<1>2. /\ Foldable(w, Closed, Seq(Closed), <<>>, StripStep) /\ \A i \in DOMAIN w : w[i] \in Closed
      /\ \A s \in Seq(Closed), e \in Closed : StripStep[<<s, e>>] = AddStripped(s, e)
  BY StripStepIs, LenProperties, ElementOfSeq
<1>3. IsLeftFold(g, w, Seq(Closed), <<>>, StripStep)
  BY <1>2, PartsSolve
<1> HIDE DEF g
<1>4. g = [R \in SUBSET DOMAIN w |-> IF R = {} THEN <<>> ELSE AddStripped(g[R \ {Max(R)}], w[Max(R)])]
  <2>1. \A R \in SUBSET DOMAIN w : R # {} => g[R \ {Max(R)}] \in Seq(Closed) /\ w[Max(R)] \in Closed
    BY <1>2, <1>3 DEF IsLeftFold
  <2>2. \A R \in SUBSET DOMAIN w : R # {} => g[R] = AddStripped(g[R \ {Max(R)}], w[Max(R)])
    BY <1>2, <1>3, <2>1 DEF IsLeftFold
  <2> QED BY <1>3, <2>2 DEF IsLeftFold
<1>5. c = [R \in SUBSET DOMAIN w |-> IF R = {} THEN <<>> ELSE AddStripped(c[R \ {Max(R)}], w[Max(R)])]
  BY <1>4, Zenon
<1> HIDE DEF c
<1>6. SolvesLeft(c, w, Seq(Closed), <<>>, StripStep)
  <2>1. \A R \in SUBSET DOMAIN w : R # {} => Max(R) \in DOMAIN w
    BY <1>3 DEF IsLeftFold
  <2>2. c[{}] = <<>>
    BY <1>5
  <2>3. ASSUME NEW R \in SUBSET DOMAIN w, R # {}, c[R \ {Max(R)}] \in Seq(Closed)
        PROVE  c[R] = StripStep[<<c[R \ {Max(R)}], w[Max(R)]>>]
    <3>1. w[Max(R)] \in Closed
      BY <1>2, <2>1, <2>3
    <3>2. c[R] = AddStripped(c[R \ {Max(R)}], w[Max(R)])
      BY <1>5, <2>3
    <3> QED BY <1>2, <2>3, <3>1, <3>2
  <2> QED BY <2>2, <2>3 DEF SolvesLeft
<1> QED BY <1>1, <1>2, <1>6, LeftFoldIs

\* Whole frames are stripped one by one.
LEMMA StripGrows ==
    ASSUME NEW w \in Seq(Closed)
    PROVE  /\ Stripped[w] \in Seq(Closed) /\ (w = <<>> => Stripped[w] = <<>>)
           /\ \A e \in Closed : Stripped[Append(w, e)] = AddStripped(Stripped[w], e)
<1> DEFINE F(v) == LeftFold(v, Seq(Closed), <<>>, StripStep)
<1>1. Stripped[w] = F(w) /\ Foldable(w, Closed, Seq(Closed), <<>>, StripStep)
  BY StripFolded, StripStepIs
<1>2. F(w) \in Seq(Closed) /\ (w = <<>> => F(w) = <<>>)
  BY <1>1, LeftFoldType
<1>3. ASSUME NEW e \in Closed PROVE Stripped[Append(w, e)] = AddStripped(Stripped[w], e)
  <2>1. Append(w, e) \in Seq(Closed)
    BY AppendProperties
  <2>2. Stripped[Append(w, e)] = F(Append(w, e))
    BY <2>1, StripFolded
  <2>3. F(Append(w, e)) = StripStep[<<F(w), e>>]
    BY <1>1, LeftFoldAppend
  <2>4. StripStep[<<F(w), e>>] = AddStripped(F(w), e)
    BY <1>2, StripStepIs
  <2> QED BY <1>1, <2>2, <2>3, <2>4
<1> QED BY <1>1, <1>2, <1>3

\* Translated folds the frames.
LEMMA TranslatedFolded ==
    ASSUME NEW w \in Seq(Closed)
    PROVE  Translated(w) = LeftFold(w, Seq(ClosedItems), <<>>, TranslateStep)
<1> DEFINE g == PartsFold(w, Seq(ClosedItems), <<>>, TranslateStep)
           c == CHOOSE h : h = [R \in SUBSET DOMAIN w |->
                    IF R = {} THEN <<>> ELSE AddTranslated(h[R \ {Max(R)}], w[Max(R)])]
<1>1. Translated(w) = c[DOMAIN w]
  BY Zenon DEF Translated, FoldLeft, MapThenFoldSet
<1>2. /\ Foldable(w, Closed, Seq(ClosedItems), <<>>, TranslateStep) /\ \A i \in DOMAIN w : w[i] \in Closed
      /\ \A s \in Seq(ClosedItems), e \in Closed : TranslateStep[<<s, e>>] = AddTranslated(s, e)
  BY TranslateStepIs, LenProperties, ElementOfSeq
<1>3. IsLeftFold(g, w, Seq(ClosedItems), <<>>, TranslateStep)
  BY <1>2, PartsSolve
<1> HIDE DEF g
<1>4. g = [R \in SUBSET DOMAIN w |-> IF R = {} THEN <<>> ELSE AddTranslated(g[R \ {Max(R)}], w[Max(R)])]
  <2>1. \A R \in SUBSET DOMAIN w : R # {} => g[R \ {Max(R)}] \in Seq(ClosedItems) /\ w[Max(R)] \in Closed
    BY <1>2, <1>3 DEF IsLeftFold
  <2>2. \A R \in SUBSET DOMAIN w : R # {} => g[R] = AddTranslated(g[R \ {Max(R)}], w[Max(R)])
    BY <1>2, <1>3, <2>1 DEF IsLeftFold
  <2> QED BY <1>3, <2>2 DEF IsLeftFold
<1>5. c = [R \in SUBSET DOMAIN w |-> IF R = {} THEN <<>> ELSE AddTranslated(c[R \ {Max(R)}], w[Max(R)])]
  BY <1>4, Zenon
<1> HIDE DEF c
<1>6. SolvesLeft(c, w, Seq(ClosedItems), <<>>, TranslateStep)
  <2>1. \A R \in SUBSET DOMAIN w : R # {} => Max(R) \in DOMAIN w
    BY <1>3 DEF IsLeftFold
  <2>2. c[{}] = <<>>
    BY <1>5
  <2>3. ASSUME NEW R \in SUBSET DOMAIN w, R # {}, c[R \ {Max(R)}] \in Seq(ClosedItems)
        PROVE  c[R] = TranslateStep[<<c[R \ {Max(R)}], w[Max(R)]>>]
    <3>1. w[Max(R)] \in Closed
      BY <1>2, <2>1, <2>3
    <3>2. c[R] = AddTranslated(c[R \ {Max(R)}], w[Max(R)])
      BY <1>5, <2>3
    <3> QED BY <1>2, <2>3, <3>1, <3>2
  <2> QED BY <2>2, <2>3 DEF SolvesLeft
<1> QED BY <1>1, <1>2, <1>6, LeftFoldIs

\* The translator writes whole items, one frame after the other.
LEMMA TranslatedGrow ==
    ASSUME NEW w \in Seq(Closed)
    PROVE  /\ Translated(w) \in Seq(ClosedItems) /\ (w = <<>> => Translated(w) = <<>>)
           /\ \A e \in Closed : Translated(Append(w, e)) = AddTranslated(Translated(w), e)
<1> DEFINE F(v) == LeftFold(v, Seq(ClosedItems), <<>>, TranslateStep)
<1>1. Translated(w) = F(w) /\ Foldable(w, Closed, Seq(ClosedItems), <<>>, TranslateStep)
  BY TranslatedFolded, TranslateStepIs
<1>2. F(w) \in Seq(ClosedItems) /\ (w = <<>> => F(w) = <<>>)
  BY <1>1, LeftFoldType
<1>3. ASSUME NEW e \in Closed PROVE Translated(Append(w, e)) = AddTranslated(Translated(w), e)
  <2>1. Append(w, e) \in Seq(Closed)
    BY AppendProperties
  <2>2. Translated(Append(w, e)) = F(Append(w, e))
    BY <2>1, TranslatedFolded
  <2>3. F(Append(w, e)) = TranslateStep[<<F(w), e>>]
    BY <1>1, LeftFoldAppend
  <2>4. TranslateStep[<<F(w), e>>] = AddTranslated(F(w), e)
    BY <1>2, TranslateStepIs
  <2> QED BY <1>1, <2>2, <2>3, <2>4
<1> QED BY <1>1, <1>2, <1>3

\* rewriteModelInResponse and pendingModelHold: pieces are forwarded or held back.
LEMMA ModelWritten ==
    ASSUME carry \in Seq(Piece), NEW cells \in Seq(Piece)
    PROVE  ModelWrite(cells).out \in Seq(Piece) /\ ModelWrite(cells).carry \in Seq(Piece)
<1> DEFINE b == carry \o cells
           buf == rewriteModel(b)
           hold == pendingModelHold(buf)
<1>1. b \in Seq(Piece)
  BY ConcatProperties
<1>2. Len(b) \in Nat /\ DOMAIN b = 1 .. Len(b) /\ \A i \in 1 .. Len(b) : b[i] \in Piece
  BY <1>1, LenProperties, ElementOfSeq
<1> HIDE DEF b
<1>3. \A i \in DOMAIN b : [b[i] EXCEPT !.raw = b[i].raw /\ ~(i < Len(b) /\ b[i + 1].n = b[i].n)] \in Piece
  BY <1>2 DEF Piece
<1>4. buf \in [1 .. Len(b) -> Piece]
  BY <1>2, <1>3 DEF rewriteModel
<1> HIDE DEF buf
<1>5. buf \in Seq(Piece) /\ Len(buf) = Len(b)
  BY <1>2, <1>4
<1>6. hold \in 0 .. Len(buf)
  <2>1. hold = 0 \/ (hold = 1 /\ buf # <<>>)
    BY DEF pendingModelHold
  <2>2. buf # <<>> => Len(buf) >= 1
    BY <1>5, EmptySeq
  <2> HIDE DEF hold
  <2> QED BY <1>2, <1>5, <2>1, <2>2
<1> HIDE DEF hold
<1>7. \A i \in 1 .. Len(buf) : buf[i] \in Piece
  BY <1>5, ElementOfSeq
<1>8. FirstN(buf, Len(buf) - hold) \in Seq(Piece)
  <2> DEFINE m == Len(buf) - hold
  <2>1. m \in Int /\ 1 \in Int /\ \A i \in 1 .. m : i \in 1 .. Len(buf)
    BY <1>2, <1>5, <1>6
  <2> HIDE DEF m
  <2>2. SubSeq(buf, 1, m) \in Seq(Piece)
    BY <1>7, <2>1, SubSeqProperties
  <2> QED BY <2>2 DEF FirstN, m
<1>9. LastN(buf, hold) \in Seq(Piece)
  <2> DEFINE m == Len(buf) - hold + 1
  <2>1. m \in Int /\ Len(buf) \in Int /\ \A i \in m .. Len(buf) : i \in 1 .. Len(buf)
    BY <1>2, <1>5, <1>6
  <2> HIDE DEF m
  <2>2. SubSeq(buf, m, Len(buf)) \in Seq(Piece)
    BY <1>7, <2>1, SubSeqProperties
  <2> QED BY <2>2 DEF LastN, m
<1>10. ModelWrite(cells) = [out |-> FirstN(buf, Len(buf) - hold), carry |-> LastN(buf, hold)]
  BY DEF ModelWrite, hold, buf, b
<1> QED BY <1>8, <1>9, <1>10

\* sseRelay.Write on a stream: whole frames go on, the rest is held back.
LEMMA Relayed ==
    ASSUME mode.stream, NEW held \in Seq(Piece), NEW cells \in Seq(Piece)
    PROVE  RelayWrite(held, cells).frames \in Seq(Closed) /\ RelayWrite(held, cells).pending \in Seq(Piece)
<1> DEFINE buf == held \o cells
<1>1. buf \in Seq(Piece)
  BY ConcatProperties
<1>2. RelayWrite(held, cells) =
          [frames |-> IF mode.strip THEN Stripped[CompleteFrames(buf)] ELSE CompleteFrames(buf),
           pending |-> Incomplete(buf)]
  BY DEF RelayWrite
<1> HIDE DEF buf
<1>3. CompleteFrames(buf) \in Seq(Closed) /\ Incomplete(buf) \in Seq(Piece)
  BY <1>1, FramesCut
<1>4. Stripped[CompleteFrames(buf)] \in Seq(Closed)
  BY <1>3, StripGrows
<1> QED BY <1>2, <1>3, <1>4

\* translateWriter.Write on a stream: whole frames are passed on, or translated to
\* whole items.
LEMMA TranslateWritten ==
    ASSUME mode.stream, NEW frames \in Seq(Closed), NEW buffered, NEW passing
    PROVE  /\ TranslateWrite(frames, buffered, passing).items \in Seq(ClosedItems)
           /\ TranslateWrite(frames, buffered, passing).jsonBuf = buffered
<1> DEFINE native == [i \in DOMAIN frames |-> Item(frames[i], FALSE)]
<1>1. native \in Seq(ClosedItems)
  <2>1. Len(frames) \in Nat /\ DOMAIN frames = 1 .. Len(frames) /\ \A i \in 1 .. Len(frames) : frames[i] \in Closed
    BY LenProperties, ElementOfSeq
  <2>2. \A f \in Closed : Item(f, FALSE) \in ClosedItems
    BY FrameTranslated DEF Closed
  <2>3. native \in [1 .. Len(frames) -> ClosedItems]
    BY <2>1, <2>2
  <2> HIDE DEF native
  <2> QED BY <2>1, <2>3
<1>2. Translated(frames) \in Seq(ClosedItems)
  BY TranslatedGrow
<1>3. TranslateWrite(frames, buffered, passing) =
          [items |-> IF ~mode.translate \/ passing THEN native ELSE Translated(frames),
           jsonBuf |-> buffered, pass |-> passing]
  BY DEF TranslateWrite
<1> HIDE DEF native
<1> QED BY <1>1, <1>2, <1>3

\* Through the whole chain, a piece of a stream leaves whole items to write.
LEMMA Pushed ==
    ASSUME mode.stream, carry \in Seq(Piece), pending \in Seq(Piece), jsonBuf = <<>>,
           NEW cells \in Seq(Piece), NEW passing, Push(cells, pending, <<>>, passing)
    PROVE  carry' \in Seq(Piece) /\ pending' \in Seq(Piece) /\ jsonBuf' = <<>> /\ queue' \in Seq(ClosedItems)
<1> DEFINE mw == ModelWrite(cells)
           rl == RelayWrite(pending, mw.out)
           tw == TranslateWrite(rl.frames, <<>>, passing)
<1>1. mw.out \in Seq(Piece) /\ mw.carry \in Seq(Piece)
  BY ModelWritten
<1>2. /\ carry' = mw.carry /\ pending' = rl.pending /\ jsonBuf' = tw.jsonBuf
      /\ queue' = (IF passing /\ jsonBuf # <<>> THEN <<Item(jsonBuf, FALSE)>> ELSE <<>>) \o tw.items
  BY DEF Push
<1> HIDE DEF mw
<1>3. rl.frames \in Seq(Closed) /\ rl.pending \in Seq(Piece)
  BY <1>1, Relayed
<1> HIDE DEF rl
<1>4. tw.items \in Seq(ClosedItems) /\ tw.jsonBuf = <<>>
  BY <1>3, TranslateWritten
<1> HIDE DEF tw
<1>5. queue' = tw.items
  BY <1>2, <1>4, ConcatEmptySeq
<1> QED BY <1>1, <1>2, <1>3, <1>4, <1>5

\* At the end of a stream, what is left goes out as items, whole or not.
LEMMA Finished ==
    ASSUME mode.stream, carry \in Seq(Piece), pending \in Seq(Piece), NEW ok \in BOOLEAN
    PROVE  FinishStream(ok) \in Seq(Items)
<1> DEFINE rl == RelayWrite(pending, carry)
           tail == rl.pending
           body == TranslateWrite(rl.frames, jsonBuf, pass)
           started == client # <<>> \/ body.items # <<>>
           ends == IF ~mode.stream \/ tail = <<>> THEN <<>>
                   ELSE IF ~mode.translate \/ pass THEN <<Item(tail, FALSE)>>
                   ELSE IF ok THEN TranslateFrame(tail) ELSE <<ErrorItem>>
           closes == IF ~mode.translate \/ body.pass THEN <<>>
                     ELSE IF ~mode.stream
                     THEN IF body.jsonBuf = <<>> THEN <<>> ELSE <<Item(body.jsonBuf, ok)>>
                     ELSE IF ~(started \/ ends # <<>>) \/ (tail # <<>> /\ ~ok) THEN <<>>
                     ELSE <<Item(<<ClosingCell>>, TRUE)>>
<1>1. rl.frames \in Seq(Closed) /\ tail \in Seq(Piece)
  BY Relayed
<1>2. FinishStream(ok) = body.items \o ends \o closes
  BY DEF FinishStream, FinishFrames
<1>3. body.items \in Seq(ClosedItems)
  <2> HIDE DEF rl
  <2> QED BY <1>1, TranslateWritten
<1>4. body.items \in Seq(Items)
  BY <1>3, SeqMonotonic DEF ClosedItems
<1>5. \A x \in Items : <<x>> \in Seq(Items)
  OBVIOUS
<1>6. <<>> \in Seq(Items) /\ ErrorItem \in Items /\ Item(<<ClosingCell>>, TRUE) \in Items
  BY OwnItems, EmptySeq DEF ClosedItems
<1>7. tail # <<>> => tail \in Frame /\ Item(tail, FALSE) \in Items /\ TranslateFrame(tail) \in Seq(Items)
  <2> HIDE DEF rl, tail
  <2>1. tail # <<>> => tail \in Frame
    BY <1>1 DEF Frame
  <2> QED BY <2>1, FrameTranslated
<1> HIDE DEF tail, started, body
<1>8. ends \in Seq(Items)
  BY <1>5, <1>6, <1>7
<1> HIDE DEF ends
<1>9. closes \in Seq(Items)
  <2>1. closes \in {<<>>, <<Item(<<ClosingCell>>, TRUE)>>}
    OBVIOUS
  <2> HIDE DEF closes
  <2> QED BY <1>5, <1>6, <2>1
<1> HIDE DEF closes
<1> QED BY <1>2, <1>4, <1>8, <1>9, ConcatProperties

\* A read delivers pieces.
LEMMA ChunkTyped ==
    ASSUME read \in Seq(Piece), NEW chunk \in Chunks
    PROVE  chunk \in Seq(Piece)
<1>1. ASSUME NEW prev \in Seq(Piece), NEW c \in NextCells(prev) PROVE c \in Piece
  <2>1. Len(prev) \in Nat
    BY LenProperties
  <2>2. CASE prev # <<>> /\ ~Ends(Last(prev))
    <3>1. Last(prev) \in Piece
      BY <2>2, Ending
    <3>2. c = [n |-> Len(prev) + 1 - 1, part |-> "tail", text |-> Last(prev).text, raw |-> FALSE]
      BY <1>1, <2>2 DEF NextCells
    <3>3. Last(prev).text \in Texts
      BY <3>1 DEF Piece
    <3>4. Len(prev) + 1 - 1 \in Nat
      BY <2>1
    <3> QED BY <3>2, <3>3, <3>4 DEF Piece
  <2>3. CASE ~(prev # <<>> /\ ~Ends(Last(prev)))
    <3>1. \/ \E t \in Contents \cup {"usage"} : c = [n |-> Len(prev) + 1, part |-> "whole", text |-> t, raw |-> FALSE]
          \/ \E p \in {"head", "mhead"}, t \in CutTexts :
                 c = [n |-> Len(prev) + 1, part |-> p, text |-> t, raw |-> p = "mhead"]
      BY <1>1, <2>3 DEF NextCells
    <3>2. Len(prev) + 1 \in Nat
      BY <2>1
    <3>3. ASSUME NEW t \in Contents \cup {"usage"}
          PROVE  [n |-> Len(prev) + 1, part |-> "whole", text |-> t, raw |-> FALSE] \in Piece
      BY <3>2 DEF Piece, Texts
    <3>4. ASSUME NEW p \in {"head", "mhead"}, NEW t \in CutTexts
          PROVE  [n |-> Len(prev) + 1, part |-> p, text |-> t, raw |-> p = "mhead"] \in Piece
      <4>1. t \in Texts /\ (p = "mhead") \in BOOLEAN
        BY DEF Texts
      <4> QED BY <3>2, <4>1 DEF Piece
    <3> QED BY <3>1, <3>3, <3>4
  <2> QED BY <2>2, <2>3
<1>2. ASSUME NEW c \in NextCells(read) PROVE <<c>> \in Seq(Piece)
  <2>1. c \in Piece
    BY <1>1
  <2> QED BY <2>1
<1>3. \/ \E c \in NextCells(read) : chunk = <<c>>
      \/ \E c \in NextCells(read) : \E d \in NextCells(read \o <<c>>) : chunk = Append(<<c>>, d)
  BY DEF Chunks
<1>4. ASSUME NEW c \in NextCells(read), NEW d \in NextCells(read \o <<c>>) PROVE Append(<<c>>, d) \in Seq(Piece)
  <2>1. <<c>> \in Seq(Piece) /\ read \o <<c>> \in Seq(Piece)
    BY <1>2, ConcatProperties
  <2>2. d \in Piece
    BY <1>1, <2>1
  <2> QED BY <2>1, <2>2, AppendProperties
<1> QED BY <1>2, <1>3, <1>4

-----------------------------------------------------------------------------

\* A timer that has just been reset sends nothing yet.
Reset(t) == t.on => t.since = 0

\* What is held back and what is on its way are pieces and items.
FlowTyped ==
    /\ read \in Seq(Piece) /\ carry \in Seq(Piece) /\ pending \in Seq(Piece) /\ jsonBuf = <<>>
    /\ queue \in Seq(Items) /\ client \in Seq(Items)

\* Until the end of the stream all items are whole; one that is not is the last
\* the client receives, and leaves no time for a heartbeat.
Between ==
    /\ glued = FALSE
    /\ ka.on \/ ws.on => mode.stream
    /\ gone => client = <<>>
    /\ after = "eof" => pc \in {"deliver", "done"}
    /\ mode.stream =>
           /\ FlowTyped
           /\ after # "eof" => queue \in Seq(ClosedItems)
           /\ client # <<>> /\ ~Terminated(Last(client).cells) => after = "eof" /\ Reset(ka) /\ Reset(ws)

\* A step of StreamProxy that leaves the client and the timers alone.
LEMMA FlowSteps ==
    ASSUME Between, ClocksOK,
           UNCHANGED <<glued, mode, client, gone>>,
           ka'.on => ka.on, ws'.on => ws.on,
           Reset(ka) => Reset(ka)', Reset(ws) => Reset(ws)',
           after' = "eof" => pc' \in {"deliver", "done"},
           after = "eof" => after' = "eof",
           mode.stream => FlowTyped' /\ (after' # "eof" => queue' \in Seq(ClosedItems))
    PROVE  Between'
<1>1. mode \in [strip : BOOLEAN, translate : BOOLEAN, ka : BOOLEAN, stream : BOOLEAN]
  BY DEF ClocksOK
<1>2. CASE mode.stream
  <2>1. client' # <<>> /\ ~Terminated(Last(client').cells) => after' = "eof" /\ Reset(ka)' /\ Reset(ws)'
    BY <1>2 DEF Between
  <2> QED BY <1>2, <2>1 DEF Between
<1>3. CASE ~mode.stream
  BY <1>3 DEF Between
<1> QED BY <1>2, <1>3

\* The operations of a timer that do not turn it on leave a reset one reset.
LEMMA ResetKept ==
    ASSUME NEW idle \in Nat \ {0}, NEW t \in Timer(idle)
    PROVE  /\ ~SilenceStop(t).on
           /\ SilenceFlush(t, idle).on = t.on /\ (Reset(t) => Reset(SilenceFlush(t, idle)))
           /\ SilenceWrite(t, idle).on = t.on /\ Reset(SilenceWrite(t, idle))
           /\ SilenceFlush(SilenceWrite(t, idle), idle).on = t.on
           /\ Reset(SilenceFlush(SilenceWrite(t, idle), idle))
           /\ Elapse(t, idle).on = t.on
           /\ LET u == [t EXCEPT !.fired = FALSE] IN
              /\ u.on = t.on /\ u.since = t.since /\ (Reset(t) => Reset(u))
              /\ armLocked(u, idle).on = t.on /\ (Reset(t) => Reset(armLocked(u, idle)))
              /\ ~[u EXCEPT !.on = FALSE].on
BY DEF Timer, NoTimer, armLocked, SilenceStop, SilenceWrite, SilenceFlush, Elapse, Reset

\* While the stream has not ended, the client's last item is whole.
LEMMA NotEnded ==
    ASSUME Between, pc \notin {"deliver", "done"}
    PROVE  after # "eof" /\ (mode.stream => client = <<>> \/ Terminated(Last(client).cells))
BY DEF Between

\* A heartbeat comes from a timer that was not reset, and follows a whole frame.
LEMMA HeartbeatFits ==
    ASSUME Between, (ka.on /\ ~Reset(ka)) \/ (ws.on /\ ~Reset(ws)), Heartbeat
    PROVE  glued' = FALSE /\ client' = client
<1>1. mode.stream /\ ~(client # <<>> /\ ~Terminated(Last(client).cells)) /\ glued = FALSE
  BY DEF Between
<1>2. glued' = (glued \/ ~mode.stream \/ (client # <<>> /\ ~Terminated(Last(client).cells))) /\ client' = client
  BY DEF Heartbeat
<1> QED BY <1>1, <1>2

\* A timer callback leaves the frames whole.
LEMMA TicksBetween ==
    ASSUME Between, ClocksOK, KaTick \/ WsTick
    PROVE  Between'
<1>0. KeepAliveIdle \in Nat \ {0} /\ WaitSignalIdle \in Nat \ {0}
      /\ ka \in Timer(KeepAliveIdle) /\ ws \in Timer(WaitSignalIdle)
  BY StreamAssumption DEF ClocksOK
<1>1. UNCHANGED <<mode, pc, after, read, carry, pending, jsonBuf, queue, gone>>
  BY DEF KaTick, WsTick, relayVars, goneVars
<1>2. mode.stream => FlowTyped /\ (after # "eof" => queue \in Seq(ClosedItems)) /\ client \in Seq(Items)
  BY DEF Between, FlowTyped
<1>3. ASSUME glued' = FALSE, client' = client,
             ka'.on => ka.on, ws'.on => ws.on, Reset(ka) => Reset(ka)', Reset(ws) => Reset(ws)'
      PROVE  Between'
  <2>1. mode.stream => FlowTyped' /\ (after' # "eof" => queue' \in Seq(ClosedItems))
    BY <1>1, <1>2, <1>3 DEF FlowTyped
  <2>2. UNCHANGED <<glued, mode, client, gone>> /\ (after = "eof" => pc' \in {"deliver", "done"})
    BY <1>1, <1>3 DEF Between
  <2> QED BY <1>1, <1>3, <2>1, <2>2, FlowSteps
<1>4. (KaFlush(KaWrite(ka)).on = ka.on /\ Reset(KaFlush(KaWrite(ka)))) \/ KaFlush(KaWrite(ka)) = ka
  BY <1>0, ResetKept DEF KaFlush, KaWrite
<1>5. (KaWrite(ka).on = ka.on /\ Reset(KaWrite(ka))) \/ KaWrite(ka) = ka
  BY <1>0, ResetKept DEF KaWrite
<1>6. CASE KaTick
  <2> DEFINE t == [ka EXCEPT !.fired = FALSE]
  <2>1. /\ t.on = ka.on /\ t.since = ka.since /\ (Reset(ka) => Reset(t))
        /\ armLocked(t, KeepAliveIdle).on = ka.on /\ (Reset(ka) => Reset(armLocked(t, KeepAliveIdle)))
        /\ ~[t EXCEPT !.on = FALSE].on
    BY <1>0, ResetKept
  <2>2. /\ UNCHANGED ws /\ ka' \in {t, armLocked(t, KeepAliveIdle), [t EXCEPT !.on = FALSE]}
        /\ UNCHANGED clientVars \/ (Heartbeat /\ t.on /\ ~SkipsTick(t, KeepAliveIdle))
    BY <1>6 DEF KaTick
  <2>3. (ka'.on => ka.on) /\ (Reset(ka) => Reset(ka)') /\ (ws'.on => ws.on) /\ (Reset(ws) => Reset(ws)')
    <3>1. Reset(ka)' <=> Reset(ka')
      BY DEF Reset
    <3>2. Reset([t EXCEPT !.on = FALSE])
      BY <2>1 DEF Reset
    <3> HIDE DEF t
    <3> QED BY <2>1, <2>2, <3>1, <3>2 DEF Reset
  <2>4. glued' = FALSE /\ client' = client
    <3>1. CASE UNCHANGED clientVars
      BY <3>1 DEF clientVars, Between
    <3>2. CASE Heartbeat /\ t.on /\ ~SkipsTick(t, KeepAliveIdle)
      <4>1. ka.on /\ ~(ka.since < KeepAliveIdle)
        BY <2>1, <3>2 DEF SkipsTick
      <4>2. ka.on /\ ~Reset(ka)
        BY <1>0, <4>1 DEF Reset
      <4> QED BY <3>2, <4>2, HeartbeatFits
    <3> QED BY <2>2, <3>1, <3>2
  <2> QED BY <1>3, <2>3, <2>4
<1>7. CASE WsTick
  <2> DEFINE t == [ws EXCEPT !.fired = FALSE]
  <2>1. /\ t.on = ws.on /\ t.since = ws.since /\ (Reset(ws) => Reset(t))
        /\ armLocked(t, WaitSignalIdle).on = ws.on /\ (Reset(ws) => Reset(armLocked(t, WaitSignalIdle)))
        /\ ~[t EXCEPT !.on = FALSE].on
    BY <1>0, ResetKept
  <2>2. /\ ws' \in {t, armLocked(t, WaitSignalIdle), [t EXCEPT !.on = FALSE]}
        /\ ka' \in {ka, KaFlush(KaWrite(ka)), KaWrite(ka)}
        /\ UNCHANGED clientVars \/ (Heartbeat /\ t.on /\ ~SkipsTick(t, WaitSignalIdle))
    BY <1>7 DEF WsTick
  <2>3. (ws'.on => ws.on) /\ (Reset(ws) => Reset(ws)')
    <3>1. Reset(ws)' <=> Reset(ws')
      BY DEF Reset
    <3>2. Reset([t EXCEPT !.on = FALSE])
      BY <2>1 DEF Reset
    <3> HIDE DEF t
    <3> QED BY <2>1, <2>2, <3>1, <3>2
  <2>5. (ka'.on => ka.on) /\ (Reset(ka) => Reset(ka)')
    <3>1. Reset(ka)' <=> Reset(ka')
      BY DEF Reset
    <3> QED BY <1>4, <1>5, <2>2, <3>1
  <2>4. glued' = FALSE /\ client' = client
    <3>1. CASE UNCHANGED clientVars
      BY <3>1 DEF clientVars, Between
    <3>2. CASE Heartbeat /\ t.on /\ ~SkipsTick(t, WaitSignalIdle)
      <4>1. ws.on /\ ~(ws.since < WaitSignalIdle)
        BY <2>1, <3>2 DEF SkipsTick
      <4>2. ws.on /\ ~Reset(ws)
        BY <1>0, <4>1 DEF Reset
      <4> QED BY <3>2, <4>2, HeartbeatFits
    <3> QED BY <2>2, <3>1, <3>2
  <2> QED BY <1>3, <2>3, <2>4, <2>5
<1> QED BY <1>6, <1>7

\* Before the end, a step may also turn the timers of a stream on, let them run,
\* and put whole items on their way.
LEMMA OpenSteps ==
    ASSUME Between, ClocksOK, pc \notin {"deliver", "done"},
           UNCHANGED <<glued, mode, client, gone>>,
           ka'.on \/ ws'.on => mode.stream,
           after' # "eof",
           mode.stream => FlowTyped' /\ queue' \in Seq(ClosedItems)
    PROVE  Between'
<1>1. after # "eof" /\ (mode.stream => client = <<>> \/ Terminated(Last(client).cells))
  BY NotEnded
<1> QED BY <1>1 DEF Between

\* A read, an error or the bytes peeked at go down the chain.
LEMMA FlowPushed ==
    ASSUME mode.stream, Between, UNCHANGED client, NEW cells \in Seq(Piece), NEW passing,
           Push(cells, pending, <<>>, passing), read' \in Seq(Piece)
    PROVE  FlowTyped' /\ queue' \in Seq(ClosedItems)
<1>1. /\ carry \in Seq(Piece) /\ pending \in Seq(Piece) /\ jsonBuf = <<>> /\ client \in Seq(Items)
  BY DEF Between, FlowTyped
<1>2. carry' \in Seq(Piece) /\ pending' \in Seq(Piece) /\ jsonBuf' = <<>> /\ queue' \in Seq(ClosedItems)
  BY <1>1, Pushed
<1>3. queue' \in Seq(Items)
  BY <1>2, SeqMonotonic DEF ClosedItems
<1> QED BY <1>1, <1>2, <1>3 DEF FlowTyped

\* What the loop detector lets through, or its error frame instead.
LEMMA FlowDetected ==
    ASSUME Between, UNCHANGED client, NEW chunk \in Chunks, DetectAndWrite(chunk)
    PROVE  /\ pc' = "deliver" /\ after' # "eof"
           /\ mode.stream => FlowTyped' /\ queue' \in Seq(ClosedItems)
<1>1. pc' = "deliver" /\ after' # "eof"
  BY DEF DetectAndWrite
<1>2. ASSUME mode.stream PROVE FlowTyped' /\ queue' \in Seq(ClosedItems)
  <2>1. read \in Seq(Piece) /\ jsonBuf = <<>>
    BY <1>2 DEF Between, FlowTyped
  <2>2. chunk \in Seq(Piece) /\ <<ErrorCell>> \in Seq(Piece)
    <3>1. ErrorCell \in Piece
      BY OwnItems
    <3> QED BY <2>1, <3>1, ChunkTyped
  <2>3. read' \in Seq(Piece)
    BY <2>1, <2>2, ConcatProperties DEF DetectAndWrite
  <2>4. \E cells \in {<<ErrorCell>>, chunk} : Push(cells, pending, jsonBuf, pass)
    BY DEF DetectAndWrite
  <2>5. PICK cells \in Seq(Piece) : Push(cells, pending, <<>>, pass)
    BY <2>1, <2>2, <2>4
  <2> QED BY <1>2, <2>3, <2>5, FlowPushed
<1> QED BY <1>1, <1>2

\* A return throws away what is held back and stops the timers.
LEMMA ReturnBetween ==
    ASSUME Between, ClocksOK, Returns
    PROVE  Between'
<1>1. /\ pc' = "done" /\ carry' = <<>> /\ pending' = <<>> /\ jsonBuf' = <<>> /\ queue' = <<>>
      /\ ka' = SilenceStop(ka) /\ ws' = SilenceStop(ws)
      /\ UNCHANGED <<mode, after, read, client, glued, gone>>
  BY DEF Returns, Return, clientVars, goneVars
<1>2. ~ka'.on /\ ~ws'.on
  BY <1>1, ResetKept, StreamAssumption DEF ClocksOK
<1>3. Reset(ka)' /\ Reset(ws)'
  BY <1>2 DEF Reset
<1>4. mode.stream => FlowTyped' /\ queue' \in Seq(ClosedItems)
  BY <1>1, EmptySeq DEF Between, FlowTyped
<1> QED BY <1>1, <1>2, <1>3, <1>4, FlowSteps

\* A step of the backend's side that returns nothing.
LEMMA BackendBetween ==
    ASSUME Between, ClocksOK,
           Answered \/ AnsweredRetryable \/ PeekOversized \/ ReadData \/ ReadEOF \/ ReadFails
    PROVE  Between'
<1>0. CASE Returns
  BY <1>0, ReturnBetween
<1>1. CASE Answered
  <2>1. /\ pc = "dial" /\ Begin
        /\ UNCHANGED <<after, read, carry, pending, jsonBuf, queue>>
    BY <1>1 DEF Answered
  <2>2. UNCHANGED <<glued, mode, client, gone>> /\ (ka' = ka \/ mode.stream) /\ (ws' = ws \/ mode.stream)
    BY <2>1 DEF Begin, goneVars
  <2>3. after # "eof"
    BY <2>1, NotEnded
  <2>4. mode.stream => FlowTyped' /\ queue' \in Seq(ClosedItems)
    BY <2>1, <2>2, <2>3 DEF Between, FlowTyped
  <2>5. ka'.on \/ ws'.on => mode.stream
    BY <2>2 DEF Between
  <2> QED BY <2>1, <2>2, <2>3, <2>4, <2>5, OpenSteps
<1>2. CASE PeekOversized
  <2>1. PICK chunk \in Chunks : pc = "peek" /\ Begin /\ DetectAndWrite(chunk)
    BY <1>2 DEF PeekOversized
  <2>2. UNCHANGED <<glued, mode, client, gone>> /\ (ka' = ka \/ mode.stream) /\ (ws' = ws \/ mode.stream)
    BY <2>1 DEF Begin, goneVars
  <2>3. after' # "eof" /\ (mode.stream => FlowTyped' /\ queue' \in Seq(ClosedItems))
    BY <2>1, <2>2, FlowDetected
  <2>4. ka'.on \/ ws'.on => mode.stream
    BY <2>2 DEF Between
  <2> QED BY <2>1, <2>2, <2>3, <2>4, OpenSteps
<1>3. CASE AnsweredRetryable
  <2>1. /\ pc = "dial"
        /\ UNCHANGED <<mode, after, read, carry, pending, jsonBuf, queue, client, glued, ka, ws, gone>>
    BY <1>3 DEF AnsweredRetryable, relayVars, clientVars, goneVars
  <2>2. after # "eof"
    BY <2>1, NotEnded
  <2>3. mode.stream => FlowTyped' /\ queue' \in Seq(ClosedItems)
    BY <2>1, <2>2 DEF Between, FlowTyped
  <2>4. ka'.on \/ ws'.on => mode.stream
    BY <2>1 DEF Between
  <2> QED BY <2>1, <2>2, <2>3, <2>4, OpenSteps
<1>4. CASE ReadData
  <2>1. PICK chunk \in Chunks : pc = "read" /\ DetectAndWrite(chunk)
    BY <1>4 DEF ReadData
  <2>2. UNCHANGED <<glued, mode, client, gone, ka, ws>>
    BY <1>4 DEF ReadData, clientVars, goneVars
  <2>3. after' # "eof" /\ (mode.stream => FlowTyped' /\ queue' \in Seq(ClosedItems))
    BY <2>1, <2>2, FlowDetected
  <2>4. ka'.on \/ ws'.on => mode.stream
    BY <2>2 DEF Between
  <2> QED BY <2>1, <2>2, <2>3, <2>4, OpenSteps
<1>5. CASE ReadEOF
  <2>1. /\ pc = "read" /\ pc' = "deliver" /\ after' = "eof"
        /\ carry' = <<>> /\ pending' = <<>> /\ jsonBuf' = <<>>
        /\ UNCHANGED <<mode, read, client, glued, ka, ws, gone>>
    BY <1>5 DEF ReadEOF, clientVars, goneVars
  <2>2. PICK ok \in BOOLEAN : queue' = FinishStream(ok)
    BY <1>5 DEF ReadEOF
  <2>3. ASSUME mode.stream PROVE FlowTyped'
    <3>1. /\ read \in Seq(Piece) /\ carry \in Seq(Piece) /\ pending \in Seq(Piece) /\ client \in Seq(Items)
      BY <2>3 DEF Between, FlowTyped
    <3>2. FinishStream(ok) \in Seq(Items)
      BY <2>3, <3>1, Finished
    <3> QED BY <2>1, <2>2, <3>1, <3>2, EmptySeq DEF FlowTyped
  <2>4. (Reset(ka) => Reset(ka)') /\ (Reset(ws) => Reset(ws)')
    BY <2>1 DEF Reset
  <2> QED BY <2>1, <2>3, <2>4, FlowSteps
<1>6. CASE ReadFails /\ ~Returns
  <2>0. ~Return("ctx")
    BY <1>6 DEF ReadFails, Returns
  <2>1. /\ pc = "read" /\ after' = "error"
        /\ Push(<<ErrorCell>>, pending, <<>>, mode.translate \/ pass)
        /\ UNCHANGED <<mode, read, client, glued, ka, ws, gone>>
    BY <1>6, <2>0 DEF ReadFails, clientVars, goneVars
  <2>2. ASSUME mode.stream PROVE FlowTyped' /\ queue' \in Seq(ClosedItems)
    <3>1. <<ErrorCell>> \in Seq(Piece) /\ read' \in Seq(Piece)
      <4>1. ErrorCell \in Piece
        BY OwnItems
      <4>2. read \in Seq(Piece)
        BY <2>2 DEF Between, FlowTyped
      <4> QED BY <2>1, <4>1, <4>2
    <3> QED BY <2>1, <2>2, <3>1, FlowPushed
  <2>3. ka'.on \/ ws'.on => mode.stream
    BY <2>1 DEF Between
  <2> QED BY <2>1, <2>2, <2>3, OpenSteps
<1> QED BY <1>0, <1>1, <1>2, <1>3, <1>4, <1>5, <1>6

\* A write to the client resets both timers.
LEMMA DeliverBetween ==
    ASSUME Between, ClocksOK, Deliver
    PROVE  Between'
<1>1. /\ pc = "deliver" /\ queue # <<>> /\ queue' = Tail(queue)
      /\ client' = IF gone THEN client ELSE Append(client, Head(queue))
      /\ ka' = KaFlush(KaWrite(ka))
      /\ ws' = SilenceFlush(SilenceWrite(ws, WaitSignalIdle), WaitSignalIdle)
      /\ UNCHANGED <<mode, pc, after, read, carry, pending, jsonBuf, glued, gone>>
  BY DEF Deliver, relayVars, goneVars
<1>2. ws'.on = ws.on /\ Reset(ws')
  BY <1>1, ResetKept, StreamAssumption DEF ClocksOK
<1>3. ka'.on = ka.on /\ Reset(ka')
  <2>1. CASE mode.ka
    <3>1. ka' = SilenceFlush(SilenceWrite(ka, KeepAliveIdle), KeepAliveIdle)
      BY <1>1, <2>1 DEF KaFlush, KaWrite
    <3>2. KeepAliveIdle \in Nat \ {0} /\ ka \in Timer(KeepAliveIdle)
      BY StreamAssumption DEF ClocksOK
    <3> QED BY <3>1, <3>2, ResetKept
  <2>2. CASE ~mode.ka
    <3>1. ka' = ka /\ ~ka.on
      BY <1>1, <2>2 DEF ClocksOK, KaFlush, KaWrite
    <3> QED BY <3>1 DEF Reset
  <2> QED BY <2>1, <2>2
<1>4. Reset(ka)' /\ Reset(ws)'
  BY <1>2, <1>3 DEF Reset
<1>5. ASSUME mode.stream
      PROVE  /\ FlowTyped'
             /\ after' # "eof" => queue' \in Seq(ClosedItems)
             /\ client' # <<>> /\ ~Terminated(Last(client').cells) => after' = "eof"
  <2>1. /\ queue \in Seq(Items) /\ client \in Seq(Items)
        /\ after # "eof" => queue \in Seq(ClosedItems)
        /\ client # <<>> /\ ~Terminated(Last(client).cells) => after = "eof"
    BY <1>5 DEF Between, FlowTyped
  <2>2. Head(queue) \in Items /\ Tail(queue) \in Seq(Items)
    BY <1>1, <2>1, HeadTailProperties
  <2>3. after # "eof" => Head(queue) \in ClosedItems /\ Tail(queue) \in Seq(ClosedItems)
    BY <1>1, <2>1, HeadTailProperties
  <2>4. client' \in Seq(Items)
    BY <1>1, <2>1, <2>2, AppendProperties
  <2>5. FlowTyped'
    BY <1>1, <1>5, <2>2, <2>4 DEF Between, FlowTyped
  <2>6. client' # <<>> /\ ~Terminated(Last(client').cells) => after' = "eof"
    <3>1. CASE gone
      BY <1>1, <2>1, <3>1
    <3>2. CASE ~gone
      <4>1. Last(client') = Head(queue)
        BY <1>1, <2>1, <2>2, <3>2, Ending
      <4>2. after # "eof" => Terminated(Head(queue).cells)
        BY <2>3 DEF ClosedItems
      <4> QED BY <1>1, <4>1, <4>2
    <3> QED BY <3>1, <3>2
  <2> QED BY <1>1, <2>3, <2>5, <2>6
<1>6. gone' => client' = <<>>
  BY <1>1 DEF Between
<1>7. ka'.on \/ ws'.on => mode.stream
  BY <1>2, <1>3 DEF Between
<1> QED BY <1>1, <1>4, <1>5, <1>6, <1>7 DEF Between

\* A step of the relay that writes nothing, and one of the watchdog or of net/http.
LEMMA RelayBetween ==
    ASSUME Between, ClocksOK,
           WriteFails \/ Delivered \/ Watchdog \/ ContextDone \/ UNCHANGED vars
    PROVE  Between'
<1>0. CASE Returns
  BY <1>0, ReturnBetween
<1>a. mode.stream => queue \in Seq(Items) /\ (after # "eof" => queue \in Seq(ClosedItems)) /\ FlowTyped
  BY DEF Between, FlowTyped
<1>b. ASSUME UNCHANGED <<mode, after, read, carry, pending, jsonBuf, client, glued, ka, ws, gone>>,
             after = "eof" => pc' \in {"deliver", "done"},
             queue' \in {queue, <<>>} \/ (queue # <<>> /\ queue' = Tail(queue))
      PROVE  Between'
  <2>1. mode.stream => FlowTyped' /\ (after' # "eof" => queue' \in Seq(ClosedItems))
    <3>1. ASSUME mode.stream
          PROVE  queue' \in Seq(Items) /\ (after # "eof" => queue' \in Seq(ClosedItems))
      BY <1>a, <1>b, <3>1, EmptySeq, HeadTailProperties
    <3> QED BY <1>a, <1>b, <3>1 DEF FlowTyped
  <2>2. (Reset(ka) => Reset(ka)') /\ (Reset(ws) => Reset(ws)')
    BY <1>b DEF Reset
  <2> QED BY <1>b, <2>1, <2>2, FlowSteps
<1>1. CASE WriteFails /\ ~Returns
  <2>0. pc = "deliver" /\ gone /\ ~Return("midstream") /\ ~Return("write")
    BY <1>1 DEF WriteFails, MayFail, Returns
  <2>1. /\ queue # <<>> /\ queue' \in {<<>>, Tail(queue)}
        /\ after = "read" \/ pc' = pc
        /\ UNCHANGED <<mode, relayVars, clientVars, ka, ws, goneVars>>
    BY <1>1, <2>0 DEF WriteFails
  <2>2. UNCHANGED <<mode, after, read, carry, pending, jsonBuf, client, glued, ka, ws, gone>>
    BY <2>1 DEF relayVars, clientVars, goneVars
  <2> QED BY <1>b, <2>0, <2>1, <2>2
<1>2. CASE Delivered /\ ~Returns
  <2>0. pc = "deliver" /\ ~Return("ok") /\ ~Return("midstream")
    BY <1>2 DEF Delivered, Returns
  <2>1. /\ after = "read" /\ ka' = KaFlush(ka) /\ ws' = SilenceFlush(ws, WaitSignalIdle)
        /\ UNCHANGED <<mode, relayVars, queue, clientVars, goneVars>>
    BY <1>2, <2>0 DEF Delivered
  <2>2. UNCHANGED <<mode, after, read, carry, pending, jsonBuf, queue, client, glued, gone>>
    BY <2>1 DEF relayVars, clientVars, goneVars
  <2>3. (ka'.on => ka.on) /\ (Reset(ka) => Reset(ka')) /\ (ws'.on => ws.on) /\ (Reset(ws) => Reset(ws'))
    <3>1. /\ KeepAliveIdle \in Nat \ {0} /\ ka \in Timer(KeepAliveIdle)
          /\ WaitSignalIdle \in Nat \ {0} /\ ws \in Timer(WaitSignalIdle)
      BY StreamAssumption DEF ClocksOK
    <3>2. ka' \in {ka, SilenceFlush(ka, KeepAliveIdle)}
      BY <2>1 DEF KaFlush
    <3>3. /\ SilenceFlush(ka, KeepAliveIdle).on = ka.on
          /\ Reset(ka) => Reset(SilenceFlush(ka, KeepAliveIdle))
      BY <3>1, ResetKept
    <3>4. /\ SilenceFlush(ws, WaitSignalIdle).on = ws.on
          /\ Reset(ws) => Reset(SilenceFlush(ws, WaitSignalIdle))
      BY <3>1, ResetKept
    <3>5. (ka'.on => ka.on) /\ (Reset(ka) => Reset(ka'))
      BY <3>2, <3>3
    <3>6. (ws'.on => ws.on) /\ (Reset(ws) => Reset(ws'))
      BY <2>1, <3>4
    <3> QED BY <3>5, <3>6
  <2>4. (Reset(ka) => Reset(ka)') /\ (Reset(ws) => Reset(ws)')
    BY <2>3 DEF Reset
  <2>5. mode.stream => FlowTyped' /\ (after' # "eof" => queue' \in Seq(ClosedItems))
    BY <1>a, <2>2 DEF FlowTyped
  <2> QED BY <2>1, <2>2, <2>3, <2>4, <2>5, FlowSteps
<1>3. CASE Watchdog \/ ContextDone \/ UNCHANGED vars
  <2>1. UNCHANGED <<mode, pc, relayVars, queue, clientVars, ka, ws, gone>>
    BY <1>3 DEF Watchdog, ContextDone, goneVars, vars
  <2>2. UNCHANGED <<mode, pc, after, read, carry, pending, jsonBuf, queue, client, glued, ka, ws, gone>>
    BY <2>1 DEF relayVars, clientVars
  <2>3. after = "eof" => pc' \in {"deliver", "done"}
    BY <2>2 DEF Between
  <2> QED BY <1>b, <2>2, <2>3
<1> QED BY <1>0, <1>1, <1>2, <1>3

\* The client leaves: nothing it received or is sent matters any more.
LEMMA LeaveBetween ==
    ASSUME Between, ClientLeaves
    PROVE  Between'
<1>1. /\ client' = <<>> /\ queue' = [i \in DOMAIN queue |-> ErrorItem]
      /\ UNCHANGED <<mode, pc, after, read, carry, pending, jsonBuf, glued, ka, ws>>
  BY DEF ClientLeaves, relayVars
<1>2. ASSUME mode.stream PROVE queue' \in Seq(ClosedItems) /\ queue' \in Seq(Items)
  <2>1. queue \in Seq(Items)
    BY <1>2 DEF Between, FlowTyped
  <2>2. DOMAIN queue = 1 .. Len(queue) /\ Len(queue) \in Nat
    BY <2>1, LenProperties
  <2>3. ErrorItem \in ClosedItems
    BY OwnItems
  <2>4. queue' \in Seq(ClosedItems)
    BY <1>1, <2>2, <2>3, SeqOfType
  <2> QED BY <2>4, SeqMonotonic DEF ClosedItems
<1>3. mode.stream => FlowTyped'
  BY <1>1, <1>2, EmptySeq DEF Between, FlowTyped
<1> QED BY <1>1, <1>2, <1>3 DEF Between

\* Every step leaves the frames whole until the stream ends.
LEMMA BetweenStep ==
    ASSUME Between, ClocksOK, [Next]_vars
    PROVE  Between'
<1>1. CASE DialFails \/ PeekFrames \/ PeekSmall \/ DrainEnds \/ DrainDeadline
  <2>1. Returns
    BY <1>1 DEF DialFails, PeekFrames, PeekSmall, DrainEnds, DrainDeadline, Returns
  <2> QED BY <2>1, ReturnBetween
<1>2. CASE Answered \/ AnsweredRetryable \/ PeekOversized \/ ReadData \/ ReadEOF \/ ReadFails
  BY <1>2, BackendBetween
<1>3. CASE Deliver
  BY <1>3, DeliverBetween
<1>4. CASE WriteFails \/ Delivered \/ Watchdog \/ ContextDone \/ UNCHANGED vars
  BY <1>4, RelayBetween
<1>5. CASE KaTick \/ WsTick
  BY <1>5, TicksBetween
<1>6. CASE ClientLeaves
  BY <1>6, LeaveBetween
<1>7. CASE Tick
  <2>1. /\ pc \in {"read", "drain"}
        /\ ka' \in {ka, Elapse(ka, KeepAliveIdle)} /\ ws' \in {ws, Elapse(ws, WaitSignalIdle)}
        /\ UNCHANGED <<mode, after, read, carry, pending, jsonBuf, queue, client, glued, gone>>
    BY <1>7 DEF Tick, relayVars, goneVars
  <2>2. ka'.on = ka.on /\ ws'.on = ws.on
    BY <2>1, Switches, StreamAssumption DEF ClocksOK
  <2>3. ka'.on \/ ws'.on => mode.stream
    BY <2>2 DEF Between
  <2>4. after # "eof"
    BY <2>1, NotEnded
  <2>5. mode.stream => FlowTyped' /\ queue' \in Seq(ClosedItems)
    BY <2>1, <2>4 DEF Between, FlowTyped
  <2> QED BY <2>1, <2>3, <2>4, <2>5, OpenSteps
<1> QED BY <1>1, <1>2, <1>3, <1>4, <1>5, <1>6, <1>7 DEF Next, Backend, Relay

\* Heartbeats do their work and no harm (silenceWriter, keepAliveWriter,
\* waitSignalWriter): a client hears of a silent backend in time, and no timer
\* callback, however late it gets the mutex, writes into the middle of a frame or
\* into an answer that is not an event stream.
THEOREM HeartbeatsSafe == Spec => []HeartbeatsSound
<1>1. Init => Between
  <2> SUFFICES ASSUME Init PROVE Between
    OBVIOUS
  <2>2. /\ glued = FALSE /\ after = "read" /\ client = <<>> /\ ka = NoTimer /\ ws = NoTimer
        /\ read = <<>> /\ carry = <<>> /\ pending = <<>> /\ jsonBuf = <<>> /\ queue = <<>>
    BY DEF Init
  <2>3. ~NoTimer.on
    BY DEF NoTimer
  <2>4. ~ka.on /\ ~ws.on
    BY <2>2, <2>3
  <2>5. FlowTyped /\ queue \in Seq(ClosedItems)
    BY <2>2, EmptySeq DEF FlowTyped
  <2> QED BY <2>2, <2>4, <2>5 DEF Between
<1>2. Between /\ ClocksOK /\ [Next]_vars => Between'
  BY BetweenStep
<1>3. Between => HeartbeatsBetweenFrames
  BY DEF Between, HeartbeatsBetweenFrames
<1>4. Spec => []NeverSilent
  BY HeardInTime
<1> QED BY <1>1, <1>2, <1>3, <1>4, AlwaysPhased, PTL DEF Spec, HeartbeatsSound

-----------------------------------------------------------------------------
(* The places of the answer that pieces, frames and items come from, and   *)
(* the texts that the loop detector sees in them.                          *)

Place == Nat \X {"whole", "head", "mhead", "tail"}
PlaceStep == [c \in Piece |-> PlaceIn(c)]
SeenStep == [c \in Piece |-> SeenIn(c)]
ItemStep == [x \in Items |-> Places(x.cells)]
FrameStep == [f \in Frame |-> Places(f)]

\* The places of a sequence of frames.
FramePlaces(fs) == Joined(fs, Frame, Place, FrameStep)

\* A piece is at one place of the answer, or at none, and shows one text or none.
LEMMA PlacesTyped ==
    PlaceStep \in [Piece -> Seq(Place)] /\ \A e \in Piece : PlaceStep[e] = PlaceIn(e)
<1>1. ASSUME NEW c \in Piece PROVE PlaceIn(c) \in Seq(Place)
  <2>1. <<c.n, c.part>> \in Place
    BY DEF Piece, Place
  <2> DEFINE p == <<c.n, c.part>>
  <2> HIDE DEF p
  <2>2. <<p>> \in Seq(Place) /\ <<>> \in Seq(Place)
    BY <2>1 DEF p
  <2> QED BY <2>2 DEF PlaceIn, p
<1> QED BY <1>1 DEF PlaceStep

\* The same for the texts it shows.
LEMMA SeenTyped ==
    SeenStep \in [Piece -> Seq(Contents)] /\ \A e \in Piece : SeenStep[e] = SeenIn(e)
<1>1. ASSUME NEW c \in Piece PROVE SeenIn(c) \in Seq(Contents)
  <2> DEFINE t == c.text
  <2>1. t \in Contents => <<t>> \in Seq(Contents)
    OBVIOUS
  <2>2. <<>> \in Seq(Contents)
    OBVIOUS
  <2> QED BY <2>1, <2>2 DEF SeenIn
<1> QED BY <1>1 DEF SeenStep

\* Places joins the places of the pieces.
LEMMA PlacesSteps ==
    ASSUME NEW w \in Seq(Piece)
    PROVE  /\ Foldable(w, Piece, Seq(Place), <<>>, JoinStep(Piece, Place, PlaceStep))
           /\ \A s \in Seq(Place), e \in Piece : JoinStep(Piece, Place, PlaceStep)[<<s, e>>] = AddPlace(s, e)
<1>1. PlaceStep \in [Piece -> Seq(Place)] /\ \A e \in Piece : PlaceStep[e] = PlaceIn(e)
  BY PlacesTyped
<1>2. Foldable(w, Piece, Seq(Place), <<>>, JoinStep(Piece, Place, PlaceStep))
  BY <1>1, JoinSteps
<1>3. ASSUME NEW s \in Seq(Place), NEW e \in Piece
      PROVE  JoinStep(Piece, Place, PlaceStep)[<<s, e>>] = AddPlace(s, e)
  <2>1. JoinStep(Piece, Place, PlaceStep)[<<s, e>>] = s \o PlaceStep[e]
    BY DEF JoinStep
  <2> QED BY <1>1, <2>1 DEF AddPlace
<1> QED BY <1>2, <1>3

\* Places folds the pieces.
LEMMA PlacesFolded ==
    ASSUME NEW w \in Seq(Piece)
    PROVE  Places(w) = LeftFold(w, Seq(Place), <<>>, JoinStep(Piece, Place, PlaceStep))
<1> DEFINE g == PartsFold(w, Seq(Place), <<>>, JoinStep(Piece, Place, PlaceStep))
           c == CHOOSE h : h = [R \in SUBSET DOMAIN w |->
                    IF R = {} THEN <<>> ELSE AddPlace(h[R \ {Max(R)}], w[Max(R)])]
<1>1. Places(w) = c[DOMAIN w]
  BY Zenon DEF Places, FoldLeft, MapThenFoldSet
<1>2. /\ Foldable(w, Piece, Seq(Place), <<>>, JoinStep(Piece, Place, PlaceStep)) /\ \A i \in DOMAIN w : w[i] \in Piece
      /\ \A s \in Seq(Place), e \in Piece : JoinStep(Piece, Place, PlaceStep)[<<s, e>>] = AddPlace(s, e)
  BY PlacesSteps, LenProperties, ElementOfSeq
<1>3. IsLeftFold(g, w, Seq(Place), <<>>, JoinStep(Piece, Place, PlaceStep))
  BY <1>2, PartsSolve
<1> HIDE DEF g
<1>4. g = [R \in SUBSET DOMAIN w |-> IF R = {} THEN <<>> ELSE AddPlace(g[R \ {Max(R)}], w[Max(R)])]
  <2>1. \A R \in SUBSET DOMAIN w : R # {} => g[R \ {Max(R)}] \in Seq(Place) /\ w[Max(R)] \in Piece
    BY <1>2, <1>3 DEF IsLeftFold
  <2>2. \A R \in SUBSET DOMAIN w : R # {} => g[R] = AddPlace(g[R \ {Max(R)}], w[Max(R)])
    BY <1>2, <1>3, <2>1 DEF IsLeftFold
  <2> QED BY <1>3, <2>2 DEF IsLeftFold
<1>5. c = [R \in SUBSET DOMAIN w |-> IF R = {} THEN <<>> ELSE AddPlace(c[R \ {Max(R)}], w[Max(R)])]
  BY <1>4, Zenon
<1> HIDE DEF c
<1>6. SolvesLeft(c, w, Seq(Place), <<>>, JoinStep(Piece, Place, PlaceStep))
  <2>1. \A R \in SUBSET DOMAIN w : R # {} => Max(R) \in DOMAIN w
    BY <1>3 DEF IsLeftFold
  <2>2. c[{}] = <<>>
    BY <1>5
  <2>3. ASSUME NEW R \in SUBSET DOMAIN w, R # {}, c[R \ {Max(R)}] \in Seq(Place)
        PROVE  c[R] = JoinStep(Piece, Place, PlaceStep)[<<c[R \ {Max(R)}], w[Max(R)]>>]
    <3>1. w[Max(R)] \in Piece
      BY <1>2, <2>1, <2>3
    <3>2. c[R] = AddPlace(c[R \ {Max(R)}], w[Max(R)])
      BY <1>5, <2>3
    <3> QED BY <1>2, <2>3, <3>1, <3>2
  <2> QED BY <2>2, <2>3 DEF SolvesLeft
<1> QED BY <1>1, <1>2, <1>6, LeftFoldIs

\* extractSSEContents joins the texts of the pieces.
LEMMA SeenSteps ==
    ASSUME NEW w \in Seq(Piece)
    PROVE  /\ Foldable(w, Piece, Seq(Contents), <<>>, JoinStep(Piece, Contents, SeenStep))
           /\ \A s \in Seq(Contents), e \in Piece : JoinStep(Piece, Contents, SeenStep)[<<s, e>>] = AddSeen(s, e)
<1>1. SeenStep \in [Piece -> Seq(Contents)] /\ \A e \in Piece : SeenStep[e] = SeenIn(e)
  BY SeenTyped
<1>2. Foldable(w, Piece, Seq(Contents), <<>>, JoinStep(Piece, Contents, SeenStep))
  BY <1>1, JoinSteps
<1>3. ASSUME NEW s \in Seq(Contents), NEW e \in Piece
      PROVE  JoinStep(Piece, Contents, SeenStep)[<<s, e>>] = AddSeen(s, e)
  <2>1. JoinStep(Piece, Contents, SeenStep)[<<s, e>>] = s \o SeenStep[e]
    BY DEF JoinStep
  <2> QED BY <1>1, <2>1 DEF AddSeen
<1> QED BY <1>2, <1>3

\* extractSSEContents folds the pieces.
LEMMA SeenFolded ==
    ASSUME NEW w \in Seq(Piece)
    PROVE  extractSSEContents(w) = LeftFold(w, Seq(Contents), <<>>, JoinStep(Piece, Contents, SeenStep))
<1> DEFINE g == PartsFold(w, Seq(Contents), <<>>, JoinStep(Piece, Contents, SeenStep))
           c == CHOOSE h : h = [R \in SUBSET DOMAIN w |->
                    IF R = {} THEN <<>> ELSE AddSeen(h[R \ {Max(R)}], w[Max(R)])]
<1>1. extractSSEContents(w) = c[DOMAIN w]
  BY Zenon DEF extractSSEContents, FoldLeft, MapThenFoldSet
<1>2. /\ Foldable(w, Piece, Seq(Contents), <<>>, JoinStep(Piece, Contents, SeenStep)) /\ \A i \in DOMAIN w : w[i] \in Piece
      /\ \A s \in Seq(Contents), e \in Piece : JoinStep(Piece, Contents, SeenStep)[<<s, e>>] = AddSeen(s, e)
  BY SeenSteps, LenProperties, ElementOfSeq
<1>3. IsLeftFold(g, w, Seq(Contents), <<>>, JoinStep(Piece, Contents, SeenStep))
  BY <1>2, PartsSolve
<1> HIDE DEF g
<1>4. g = [R \in SUBSET DOMAIN w |-> IF R = {} THEN <<>> ELSE AddSeen(g[R \ {Max(R)}], w[Max(R)])]
  <2>1. \A R \in SUBSET DOMAIN w : R # {} => g[R \ {Max(R)}] \in Seq(Contents) /\ w[Max(R)] \in Piece
    BY <1>2, <1>3 DEF IsLeftFold
  <2>2. \A R \in SUBSET DOMAIN w : R # {} => g[R] = AddSeen(g[R \ {Max(R)}], w[Max(R)])
    BY <1>2, <1>3, <2>1 DEF IsLeftFold
  <2> QED BY <1>3, <2>2 DEF IsLeftFold
<1>5. c = [R \in SUBSET DOMAIN w |-> IF R = {} THEN <<>> ELSE AddSeen(c[R \ {Max(R)}], w[Max(R)])]
  BY <1>4, Zenon
<1> HIDE DEF c
<1>6. SolvesLeft(c, w, Seq(Contents), <<>>, JoinStep(Piece, Contents, SeenStep))
  <2>1. \A R \in SUBSET DOMAIN w : R # {} => Max(R) \in DOMAIN w
    BY <1>3 DEF IsLeftFold
  <2>2. c[{}] = <<>>
    BY <1>5
  <2>3. ASSUME NEW R \in SUBSET DOMAIN w, R # {}, c[R \ {Max(R)}] \in Seq(Contents)
        PROVE  c[R] = JoinStep(Piece, Contents, SeenStep)[<<c[R \ {Max(R)}], w[Max(R)]>>]
    <3>1. w[Max(R)] \in Piece
      BY <1>2, <2>1, <2>3
    <3>2. c[R] = AddSeen(c[R \ {Max(R)}], w[Max(R)])
      BY <1>5, <2>3
    <3> QED BY <1>2, <2>3, <3>1, <3>2
  <2> QED BY <2>2, <2>3 DEF SolvesLeft
<1> QED BY <1>1, <1>2, <1>6, LeftFoldIs

\* The places of two pieces of the answer, one after the other.
PlacesSplit(u, w) == Places(u \o w) = Places(u) \o Places(w)

\* So they are.
LEMMA PlacesConcat ==
    ASSUME NEW u \in Seq(Piece), NEW w \in Seq(Piece)
    PROVE  /\ Places(u) \in Seq(Place) /\ Places(w) \in Seq(Place) /\ Places(<<>>) = <<>>
           /\ PlacesSplit(u, w)
<1>1. <<>> \in Seq(Piece) /\ u \o w \in Seq(Piece)
  BY EmptySeq, ConcatProperties
<1>2. PlaceStep \in [Piece -> Seq(Place)]
  BY PlacesTyped
<1>3. \A s \in Seq(Piece) : Places(s) = Joined(s, Piece, Place, PlaceStep)
  BY PlacesFolded DEF Joined
<1>4. /\ Joined(u, Piece, Place, PlaceStep) \in Seq(Place) /\ Joined(w, Piece, Place, PlaceStep) \in Seq(Place)
      /\ Joined(<<>>, Piece, Place, PlaceStep) = <<>>
  BY <1>2, JoinSteps
<1>5. Joined(u \o w, Piece, Place, PlaceStep) = Joined(u, Piece, Place, PlaceStep) \o Joined(w, Piece, Place, PlaceStep)
  <2>1. JoinsBoth(u, w, Piece, Place, PlaceStep)
    BY <1>2, JoinConcat
  <2> QED BY <2>1 DEF JoinsBoth
<1>6. /\ Places(u) = Joined(u, Piece, Place, PlaceStep) /\ Places(w) = Joined(w, Piece, Place, PlaceStep)
      /\ Places(<<>>) = Joined(<<>>, Piece, Place, PlaceStep) /\ Places(u \o w) = Joined(u \o w, Piece, Place, PlaceStep)
  BY <1>1, <1>3
<1> QED BY <1>4, <1>5, <1>6 DEF PlacesSplit

\* One of them.
LEMMA PlacesConcatOne ==
    ASSUME NEW e \in Piece
    PROVE  Places(<<e>>) = PlaceIn(e)
<1>1. <<e>> \in Seq(Piece)
  OBVIOUS
<1>2. PlaceStep \in [Piece -> Seq(Place)] /\ PlaceStep[e] = PlaceIn(e)
  BY PlacesTyped
<1>3. Places(<<e>>) = Joined(<<e>>, Piece, Place, PlaceStep)
  BY <1>1, PlacesFolded DEF Joined
<1> QED BY <1>2, <1>3, JoinOne

\* The texts of two pieces of the answer, one after the other.
SeenSplit(u, w) == extractSSEContents(u \o w) = extractSSEContents(u) \o extractSSEContents(w)

\* So they are.
LEMMA SeenConcat ==
    ASSUME NEW u \in Seq(Piece), NEW w \in Seq(Piece)
    PROVE  /\ extractSSEContents(u) \in Seq(Contents) /\ extractSSEContents(w) \in Seq(Contents) /\ extractSSEContents(<<>>) = <<>>
           /\ SeenSplit(u, w)
<1>1. <<>> \in Seq(Piece) /\ u \o w \in Seq(Piece)
  BY EmptySeq, ConcatProperties
<1>2. SeenStep \in [Piece -> Seq(Contents)]
  BY SeenTyped
<1>3. \A s \in Seq(Piece) : extractSSEContents(s) = Joined(s, Piece, Contents, SeenStep)
  BY SeenFolded DEF Joined
<1>4. /\ Joined(u, Piece, Contents, SeenStep) \in Seq(Contents) /\ Joined(w, Piece, Contents, SeenStep) \in Seq(Contents)
      /\ Joined(<<>>, Piece, Contents, SeenStep) = <<>>
  BY <1>2, JoinSteps
<1>5. Joined(u \o w, Piece, Contents, SeenStep) = Joined(u, Piece, Contents, SeenStep) \o Joined(w, Piece, Contents, SeenStep)
  <2>1. JoinsBoth(u, w, Piece, Contents, SeenStep)
    BY <1>2, JoinConcat
  <2> QED BY <2>1 DEF JoinsBoth
<1>6. /\ extractSSEContents(u) = Joined(u, Piece, Contents, SeenStep) /\ extractSSEContents(w) = Joined(w, Piece, Contents, SeenStep)
      /\ extractSSEContents(<<>>) = Joined(<<>>, Piece, Contents, SeenStep) /\ extractSSEContents(u \o w) = Joined(u \o w, Piece, Contents, SeenStep)
  BY <1>1, <1>3
<1> QED BY <1>4, <1>5, <1>6 DEF SeenSplit

\* An item, and a frame, come from the places of their pieces.
LEMMA ItemPlacesTyped ==
    ItemStep \in [Items -> Seq(Place)] /\ \A e \in Items : ItemStep[e] = Places(e.cells)
<1>1. ASSUME NEW x \in Items PROVE Places(x.cells) \in Seq(Place)
  <2>1. x.cells \in Seq(Piece)
    BY DEF Items, Frame
  <2> QED BY <2>1, PlacesConcat
<1> QED BY <1>1 DEF ItemStep

\* The same for a frame.
LEMMA FramePlacesTyped ==
    FrameStep \in [Frame -> Seq(Place)] /\ \A f \in Frame : FrameStep[f] = Places(f) /\ Places(f) \in Seq(Place)
<1>1. ASSUME NEW f \in Frame PROVE Places(f) \in Seq(Place)
  <2>1. f \in Seq(Piece)
    BY DEF Frame
  <2> QED BY <2>1, PlacesConcat
<1> QED BY <1>1 DEF FrameStep

\* PlacesOf joins the places of the items.
LEMMA ItemPlacesSteps ==
    ASSUME NEW w \in Seq(Items)
    PROVE  /\ Foldable(w, Items, Seq(Place), <<>>, JoinStep(Items, Place, ItemStep))
           /\ \A s \in Seq(Place), e \in Items : JoinStep(Items, Place, ItemStep)[<<s, e>>] = AddPlaces(s, e)
<1>1. ItemStep \in [Items -> Seq(Place)] /\ \A e \in Items : ItemStep[e] = Places(e.cells)
  BY ItemPlacesTyped
<1>2. Foldable(w, Items, Seq(Place), <<>>, JoinStep(Items, Place, ItemStep))
  BY <1>1, JoinSteps
<1>3. ASSUME NEW s \in Seq(Place), NEW e \in Items
      PROVE  JoinStep(Items, Place, ItemStep)[<<s, e>>] = AddPlaces(s, e)
  <2>1. JoinStep(Items, Place, ItemStep)[<<s, e>>] = s \o ItemStep[e]
    BY DEF JoinStep
  <2> QED BY <1>1, <2>1 DEF AddPlaces
<1> QED BY <1>2, <1>3

\* PlacesOf folds the items.
LEMMA ItemPlacesFolded ==
    ASSUME NEW w \in Seq(Items)
    PROVE  PlacesOf(w) = LeftFold(w, Seq(Place), <<>>, JoinStep(Items, Place, ItemStep))
<1> DEFINE g == PartsFold(w, Seq(Place), <<>>, JoinStep(Items, Place, ItemStep))
           c == CHOOSE h : h = [R \in SUBSET DOMAIN w |->
                    IF R = {} THEN <<>> ELSE AddPlaces(h[R \ {Max(R)}], w[Max(R)])]
<1>1. PlacesOf(w) = c[DOMAIN w]
  BY Zenon DEF PlacesOf, FoldLeft, MapThenFoldSet
<1>2. /\ Foldable(w, Items, Seq(Place), <<>>, JoinStep(Items, Place, ItemStep)) /\ \A i \in DOMAIN w : w[i] \in Items
      /\ \A s \in Seq(Place), e \in Items : JoinStep(Items, Place, ItemStep)[<<s, e>>] = AddPlaces(s, e)
  BY ItemPlacesSteps, LenProperties, ElementOfSeq
<1>3. IsLeftFold(g, w, Seq(Place), <<>>, JoinStep(Items, Place, ItemStep))
  BY <1>2, PartsSolve
<1> HIDE DEF g
<1>4. g = [R \in SUBSET DOMAIN w |-> IF R = {} THEN <<>> ELSE AddPlaces(g[R \ {Max(R)}], w[Max(R)])]
  <2>1. \A R \in SUBSET DOMAIN w : R # {} => g[R \ {Max(R)}] \in Seq(Place) /\ w[Max(R)] \in Items
    BY <1>2, <1>3 DEF IsLeftFold
  <2>2. \A R \in SUBSET DOMAIN w : R # {} => g[R] = AddPlaces(g[R \ {Max(R)}], w[Max(R)])
    BY <1>2, <1>3, <2>1 DEF IsLeftFold
  <2> QED BY <1>3, <2>2 DEF IsLeftFold
<1>5. c = [R \in SUBSET DOMAIN w |-> IF R = {} THEN <<>> ELSE AddPlaces(c[R \ {Max(R)}], w[Max(R)])]
  BY <1>4, Zenon
<1> HIDE DEF c
<1>6. SolvesLeft(c, w, Seq(Place), <<>>, JoinStep(Items, Place, ItemStep))
  <2>1. \A R \in SUBSET DOMAIN w : R # {} => Max(R) \in DOMAIN w
    BY <1>3 DEF IsLeftFold
  <2>2. c[{}] = <<>>
    BY <1>5
  <2>3. ASSUME NEW R \in SUBSET DOMAIN w, R # {}, c[R \ {Max(R)}] \in Seq(Place)
        PROVE  c[R] = JoinStep(Items, Place, ItemStep)[<<c[R \ {Max(R)}], w[Max(R)]>>]
    <3>1. w[Max(R)] \in Items
      BY <1>2, <2>1, <2>3
    <3>2. c[R] = AddPlaces(c[R \ {Max(R)}], w[Max(R)])
      BY <1>5, <2>3
    <3> QED BY <1>2, <2>3, <3>1, <3>2
  <2> QED BY <2>2, <2>3 DEF SolvesLeft
<1> QED BY <1>1, <1>2, <1>6, LeftFoldIs

\* The places of items, one after the other.
ItemsSplit(u, w) == PlacesOf(u \o w) = PlacesOf(u) \o PlacesOf(w)

\* So they are.
LEMMA ItemsConcat ==
    ASSUME NEW u \in Seq(Items), NEW w \in Seq(Items)
    PROVE  /\ PlacesOf(u) \in Seq(Place) /\ PlacesOf(w) \in Seq(Place) /\ PlacesOf(<<>>) = <<>>
           /\ ItemsSplit(u, w)
<1>1. <<>> \in Seq(Items) /\ u \o w \in Seq(Items)
  BY EmptySeq, ConcatProperties
<1>2. ItemStep \in [Items -> Seq(Place)]
  BY ItemPlacesTyped
<1>3. \A s \in Seq(Items) : PlacesOf(s) = Joined(s, Items, Place, ItemStep)
  BY ItemPlacesFolded DEF Joined
<1>4. /\ Joined(u, Items, Place, ItemStep) \in Seq(Place) /\ Joined(w, Items, Place, ItemStep) \in Seq(Place)
      /\ Joined(<<>>, Items, Place, ItemStep) = <<>>
  BY <1>2, JoinSteps
<1>5. Joined(u \o w, Items, Place, ItemStep) = Joined(u, Items, Place, ItemStep) \o Joined(w, Items, Place, ItemStep)
  <2>1. JoinsBoth(u, w, Items, Place, ItemStep)
    BY <1>2, JoinConcat
  <2> QED BY <2>1 DEF JoinsBoth
<1>6. /\ PlacesOf(u) = Joined(u, Items, Place, ItemStep) /\ PlacesOf(w) = Joined(w, Items, Place, ItemStep)
      /\ PlacesOf(<<>>) = Joined(<<>>, Items, Place, ItemStep) /\ PlacesOf(u \o w) = Joined(u \o w, Items, Place, ItemStep)
  BY <1>1, <1>3
<1> QED BY <1>4, <1>5, <1>6 DEF ItemsSplit

\* One of them.
LEMMA ItemsConcatOne ==
    ASSUME NEW e \in Items
    PROVE  PlacesOf(<<e>>) = Places(e.cells)
<1>1. <<e>> \in Seq(Items)
  OBVIOUS
<1>2. ItemStep \in [Items -> Seq(Place)] /\ ItemStep[e] = Places(e.cells)
  BY ItemPlacesTyped
<1>3. PlacesOf(<<e>>) = Joined(<<e>>, Items, Place, ItemStep)
  BY <1>1, ItemPlacesFolded DEF Joined
<1> QED BY <1>2, <1>3, JoinOne

\* One piece more.
PlacesAdd(w, c) == Places(Append(w, c)) = Places(w) \o PlaceIn(c)

\* A piece adds its place.
LEMMA PlacesGrow ==
    ASSUME NEW w \in Seq(Piece), NEW c \in Piece
    PROVE  PlacesAdd(w, c)
<1>1. <<c>> \in Seq(Piece) /\ Append(w, c) = w \o <<c>>
  BY AppendIsConcat
<1>2. PlacesSplit(w, <<c>>) /\ Places(<<c>>) = PlaceIn(c)
  BY <1>1, PlacesConcat, PlacesConcatOne
<1> QED BY <1>1, <1>2 DEF PlacesSplit, PlacesAdd

\* One frame more, and frames after frames.
FramesAdd(fs, f) == FramePlaces(Append(fs, f)) = FramePlaces(fs) \o Places(f)

\* A frame adds its places.
LEMMA FramePlacesGrow ==
    ASSUME NEW fs \in Seq(Frame)
    PROVE  /\ FramePlaces(fs) \in Seq(Place) /\ FramePlaces(<<>>) = <<>>
           /\ \A f \in Frame : FramesAdd(fs, f) /\ FramePlaces(<<f>>) = Places(f)
<1>1. FrameStep \in [Frame -> Seq(Place)] /\ \A f \in Frame : FrameStep[f] = Places(f)
  BY FramePlacesTyped
<1>2. FramePlaces(fs) \in Seq(Place) /\ FramePlaces(<<>>) = <<>>
  BY <1>1, JoinSteps DEF FramePlaces
<1>3. ASSUME NEW f \in Frame PROVE FramesAdd(fs, f) /\ FramePlaces(<<f>>) = Places(f)
  <2>1. JoinsOn(fs, Frame, Place, FrameStep, f)
    BY <1>1, JoinSteps
  <2>2. FrameStep[f] = Places(f)
    BY <1>1
  <2>3. FramesAdd(fs, f)
    BY <2>1, <2>2 DEF JoinsOn, FramesAdd, FramePlaces
  <2>4. FramePlaces(<<f>>) = FrameStep[f]
    BY <1>1, JoinOne DEF FramePlaces
  <2> QED BY <2>2, <2>3, <2>4
<1> QED BY <1>2, <1>3

\* A sequence that is not empty is its last element after the others.
LEMMA FrontLast ==
    ASSUME NEW E, NEW s \in Seq(E), s # <<>>
    PROVE  s = Append(Front(s), Last(s))
<1>1. /\ Last(s) \in E /\ Front(s) \in Seq(E) /\ Len(Front(s)) = Len(s) - 1
      /\ \A i \in 1 .. Len(s) - 1 : Front(s)[i] = s[i]
  BY Ending
<1>2. Len(s) \in Nat /\ Len(s) >= 1 /\ Last(s) = s[Len(s)]
  BY LenProperties, EmptySeq DEF Last
<1> DEFINE t == Front(s)
           e == Last(s)
<1>3. t \in Seq(E) /\ e \in E /\ Len(t) = Len(s) - 1 /\ e = s[Len(s)] /\ \A i \in 1 .. Len(s) - 1 : t[i] = s[i]
  BY <1>1, <1>2
<1> HIDE DEF t, e
<1>4. /\ Append(t, e) \in Seq(E) /\ Len(Append(t, e)) = Len(t) + 1 /\ Append(t, e)[Len(t) + 1] = e
      /\ \A i \in 1 .. Len(t) : Append(t, e)[i] = t[i]
  BY <1>3, AppendProperties
<1>5. \A i \in 1 .. Len(s) : Append(t, e)[i] = s[i]
  <2> TAKE i \in 1 .. Len(s)
  <2>1. i = Len(s) \/ i \in 1 .. Len(s) - 1
    BY <1>2
  <2>2. Len(t) + 1 = Len(s)
    BY <1>2, <1>3
  <2> QED BY <1>3, <1>4, <2>1, <2>2
<1>6. Len(Append(t, e)) = Len(s)
  BY <1>2, <1>3, <1>4
<1>7. s = Append(t, e)
  BY <1>4, <1>5, <1>6, SeqEqual
<1> QED BY <1>7 DEF t, e

\* findSSEFrameEnd: a piece added to the frames adds its place.
LEMMA PieceAddsPlace ==
    ASSUME NEW fs \in OpenFrames, NEW c \in Piece
    PROVE  FramePlaces(AddPiece(fs, c)) = FramePlaces(fs) \o PlaceIn(c)
<1>1. fs \in Seq(Frame)
  BY DEF OpenFrames
<1>2. CASE fs # <<>> /\ ~Terminated(Last(fs))
  <2> DEFINE t == Front(fs)
             f == Last(fs)
             g == Append(f, c)
  <2>1. t \in Seq(Frame) /\ f \in Frame /\ fs = Append(t, f) /\ AddPiece(fs, c) = Append(t, g)
    BY <1>1, <1>2, Ending, FrontLast DEF AddPiece
  <2> HIDE DEF t, f
  <2>2. g \in Frame /\ f \in Seq(Piece)
    BY <2>1, FrameGrows DEF Frame
  <2>3. PlacesAdd(f, c)
    BY <2>2, PlacesGrow
  <2>4. Places(g) = Places(f) \o PlaceIn(c)
    BY <2>3 DEF PlacesAdd
  <2> HIDE DEF g
  <2>5. FramesAdd(t, f) /\ FramesAdd(t, g)
    BY <2>1, <2>2, FramePlacesGrow
  <2>6. FramePlaces(fs) = FramePlaces(t) \o Places(f)
    BY <2>1, <2>5 DEF FramesAdd
  <2>7. FramePlaces(AddPiece(fs, c)) = FramePlaces(t) \o (Places(f) \o PlaceIn(c))
    BY <2>1, <2>4, <2>5 DEF FramesAdd
  <2>8. FramePlaces(t) \in Seq(Place) /\ Places(f) \in Seq(Place) /\ PlaceIn(c) \in Seq(Place)
    BY <2>1, FramePlacesGrow, FramePlacesTyped, PlacesTyped
  <2>9. (FramePlaces(t) \o Places(f)) \o PlaceIn(c) = FramePlaces(t) \o (Places(f) \o PlaceIn(c))
    BY <2>8, ConcatAssociative
  <2> QED BY <2>6, <2>7, <2>9
<1>3. CASE ~(fs # <<>> /\ ~Terminated(Last(fs)))
  <2> DEFINE g == <<c>>
  <2>1. AddPiece(fs, c) = Append(fs, g)
    BY <1>3 DEF AddPiece
  <2>2. g \in Frame /\ Places(g) = PlaceIn(c)
    BY FrameGrows, PlacesConcatOne
  <2> HIDE DEF g
  <2>3. FramesAdd(fs, g)
    BY <1>1, <2>2, FramePlacesGrow
  <2> QED BY <2>1, <2>2, <2>3 DEF FramesAdd
<1> QED BY <1>2, <1>3

\* Cutting an answer into frames loses and moves nothing.
LEMMA FramesKeepPlaces ==
    ASSUME NEW w \in Seq(Piece)
    PROVE  FramePlaces(Frames(w)) = Places(w)
<1> DEFINE Q == {s \in Seq(Piece) : FramePlaces(Frames(s)) = Places(s)}
<1>1. <<>> \in Q
  <2> DEFINE z == <<>>
  <2>1. z \in Seq(Piece) /\ z \in Seq(Frame)
    BY EmptySeq
  <2>2. FramePlaces(z) = <<>> /\ Places(z) = <<>>
    BY <2>1, FramePlacesGrow, PlacesConcat
  <2>3. Frames(z) = z
    BY <2>1, FramesGrow
  <2> QED BY <2>1, <2>2, <2>3
<1>2. ASSUME NEW s \in Seq(Piece), NEW c \in Piece, s \in Q PROVE Append(s, c) \in Q
  <2>1. Append(s, c) \in Seq(Piece) /\ FramePlaces(Frames(s)) = Places(s)
    BY <1>2, AppendProperties
  <2>2. Frames(s) \in OpenFrames /\ Frames(Append(s, c)) = AddPiece(Frames(s), c)
    BY FramesGrow
  <2>3. FramePlaces(AddPiece(Frames(s), c)) = FramePlaces(Frames(s)) \o PlaceIn(c)
    BY <2>2, PieceAddsPlace
  <2>4. PlacesAdd(s, c)
    BY PlacesGrow
  <2>5. FramePlaces(Frames(Append(s, c))) = Places(Append(s, c))
    BY <2>1, <2>2, <2>3, <2>4 DEF PlacesAdd
  <2> QED BY <2>1, <2>5
<1> HIDE DEF Q
<1>3. Seq(Piece) \subseteq Q
  BY <1>1, <1>2, SeqInd
<1> QED BY <1>3 DEF Q

\* Frames are made of the pieces they are cut from.
LEMMA FramesMadeOf ==
    ASSUME NEW S \in SUBSET Piece, NEW w \in Seq(S)
    PROVE  Frames(w) \in Seq(Seq(S))
<1> DEFINE Q == {s \in Seq(S) : Frames(s) \in Seq(Seq(S))}
<1>1. <<>> \in Q
  <2> DEFINE z == <<>>
  <2>1. z \in Seq(S) /\ z \in Seq(Piece) /\ z \in Seq(Seq(S))
    BY EmptySeq
  <2>3. Frames(z) = z
    BY <2>1, FramesGrow
  <2> QED BY <2>1, <2>3
<1>2. ASSUME NEW s \in Seq(S), NEW c \in S, s \in Q PROVE Append(s, c) \in Q
  <2>1. Append(s, c) \in Seq(S) /\ Frames(s) \in Seq(Seq(S)) /\ s \in Seq(Piece) /\ c \in Piece
    BY <1>2, AppendProperties, SeqMonotonic
  <2> DEFINE fs == Frames(s)
  <2>2. Frames(Append(s, c)) = AddPiece(fs, c)
    BY <2>1, FramesGrow
  <2>3. fs \in Seq(Seq(S))
    BY <2>1
  <2> HIDE DEF fs
  <2>4. AddPiece(fs, c) \in Seq(Seq(S))
    <3>1. <<c>> \in Seq(S)
      OBVIOUS
    <3>2. fs # <<>> => Last(fs) \in Seq(S) /\ Front(fs) \in Seq(Seq(S))
      BY <2>3, Ending
    <3>3. fs # <<>> => Append(Last(fs), c) \in Seq(S)
      BY <3>2, AppendProperties
    <3>4. Append(fs, <<c>>) \in Seq(Seq(S))
      BY <2>3, <3>1, AppendProperties
    <3>5. fs # <<>> => Append(Front(fs), Append(Last(fs), c)) \in Seq(Seq(S))
      BY <3>2, <3>3, AppendProperties
    <3> QED BY <3>4, <3>5 DEF AddPiece
  <2> QED BY <2>1, <2>2, <2>4
<1> HIDE DEF Q
<1>3. Seq(S) \subseteq Q
  BY <1>1, <1>2, SeqInd
<1> QED BY <1>3 DEF Q

\* A usage frame comes from nowhere in the answer.
LEMMA UsageNowhere ==
    ASSUME NEW f \in Seq(Piece), isUsageArtifact(f)
    PROVE  Places(f) = <<>>
<1> DEFINE U == {c \in Piece : c.text = "usage"}
           Q == {s \in Seq(U) : Places(s) = <<>>}
<1>1. f \in Seq(U)
  <2>1. Len(f) \in Nat /\ DOMAIN f = 1 .. Len(f) /\ \A i \in 1 .. Len(f) : f[i] \in Piece
    BY LenProperties, ElementOfSeq
  <2>2. \A i \in 1 .. Len(f) : f[i] \in U
    BY <2>1 DEF isUsageArtifact
  <2> HIDE DEF U
  <2> QED BY <2>2, SeqOfType
<1>2. <<>> \in Q
  <2>1. <<>> \in Seq(Piece) /\ <<>> \in Seq(U)
    BY EmptySeq
  <2> QED BY <2>1, PlacesConcat
<1>3. ASSUME NEW s \in Seq(U), NEW c \in U, s \in Q PROVE Append(s, c) \in Q
  <2>1. Append(s, c) \in Seq(U)
    BY AppendProperties
  <2>2. s \in Seq(Piece) /\ c \in Piece
    BY SeqMonotonic
  <2>3. PlacesAdd(s, c) /\ PlaceIn(c) = <<>> /\ Places(s) = <<>>
    BY <1>3, <2>2, PlacesGrow DEF PlaceIn
  <2>4. <<>> \o <<>> = <<>>
    OBVIOUS
  <2> QED BY <2>1, <2>3, <2>4 DEF PlacesAdd
<1> HIDE DEF Q
<1>4. Seq(U) \subseteq Q
  BY <1>2, <1>3, SeqInd
<1> QED BY <1>1, <1>4 DEF Q

\* s is a, then b.
Consists(s, a, b) == s = a \o b

\* b is s from its k-th element on.
After(b, s, k) == Len(b) = Len(s) - k /\ \A i \in 1 .. Len(s) - k : b[i] = s[k + i]

\* The first k elements and the others.
LEMMA Halves ==
    ASSUME NEW S, NEW s \in Seq(S), NEW k \in 0 .. Len(s),
           NEW a, a = FirstN(s, k), NEW b, b = LastN(s, Len(s) - k)
    PROVE  /\ a \in Seq(S) /\ b \in Seq(S) /\ Consists(s, a, b) /\ After(b, s, k)
<1>1. Len(s) \in Nat /\ k \in Nat /\ k <= Len(s) /\ \A i \in 1 .. Len(s) : s[i] \in S
  BY LenProperties, ElementOfSeq
<1> DEFINE m == k + 1
           n == Len(s)
<1>2. /\ m \in Int /\ n \in Int /\ k \in Int /\ 1 \in Int
      /\ \A i \in m .. n : s[i] \in S
      /\ \A i \in 1 .. k : s[i] \in S
  BY <1>1
<1>3. a = SubSeq(s, 1, k) /\ b = SubSeq(s, m, n)
  <2>1. Len(s) - (Len(s) - k) + 1 = m
    BY <1>1
  <2> QED BY <2>1 DEF FirstN, LastN
<1>4. a \in Seq(S)
  BY <1>2, <1>3, SubSeqProperties
<1>5. a \o b = s
  <2>1. SubSeq(s, 1, k) \o SubSeq(s, k + 1, n) = SubSeq(s, 1, n)
    <3>1. 1 \in 1 .. Len(s) + 1 /\ k \in 1 - 1 .. Len(s) /\ n \in k .. Len(s)
      BY <1>1
    <3> HIDE DEF n
    <3> QED BY <3>1, ConcatAdjacentSubSeq
  <2>2. SubSeq(s, 1, n) = s
    BY SubSeqFull
  <2> QED BY <1>3, <2>1, <2>2
<1>6. /\ b \in Seq(S) /\ Len(b) = Len(s) - k /\ \A i \in 1 .. Len(s) - k : b[i] = s[k + i]
  <2> HIDE DEF m, n
  <2>1. /\ b \in Seq(S) /\ Len(b) = IF m <= n THEN n - m + 1 ELSE 0
        /\ \A i \in 1 .. n - m + 1 : b[i] = s[m + i - 1]
    <3>1. /\ SubSeq(s, m, n) \in Seq(S) /\ Len(SubSeq(s, m, n)) = IF m <= n THEN n - m + 1 ELSE 0
          /\ \A i \in 1 .. n - m + 1 : SubSeq(s, m, n)[i] = s[m + i - 1]
      BY <1>2, SubSeqProperties
    <3> QED BY <1>3, <3>1
  <2>2. n - m + 1 = Len(s) - k /\ (IF m <= n THEN n - m + 1 ELSE 0) = Len(s) - k
    BY <1>1 DEF m, n
  <2>3. \A i \in 1 .. Len(s) - k : m + i - 1 = k + i
    BY <1>1 DEF m
  <2> QED BY <2>1, <2>2, <2>3
<1> QED BY <1>4, <1>5, <1>6 DEF Consists, After

\* findSSEFrameEnd, repeated, finds the last end.
LEMMA LastEndIs ==
    ASSUME NEW buf \in Seq(Piece), NEW k, k = LastEnd(buf)
    PROVE  /\ k \in 0 .. Len(buf) /\ (k # 0 => Ends(buf[k]))
           /\ \A i \in 1 .. Len(buf) : Ends(buf[i]) => i <= k
<1> DEFINE I == {i \in 1 .. Len(buf) : Ends(buf[i])}
<1>1. Len(buf) \in Nat
  BY LenProperties
<1>2. k = IF I # {} THEN Max(I) ELSE 0
  BY DEF LastEnd, SelectLastInSeq
<1>3. I # {} => Max(I) \in I /\ \A y \in I : Max(I) >= y
  <2>1. I \in SUBSET (1 .. Len(buf))
    OBVIOUS
  <2> HIDE DEF I
  <2> QED BY <1>1, <2>1, MaxIn
<1>4. CASE I = {}
  BY <1>1, <1>2, <1>4
<1>5. CASE I # {}
  <2>1. k \in I /\ \A y \in I : k >= y
    BY <1>2, <1>3, <1>5
  <2> QED BY <1>1, <2>1
<1> QED BY <1>4, <1>5

\* sseRelay.Write cuts a stream at the last end: every place is in a frame or in
\* the rest, in its order; the rest ends no frame.
LEMMA CutKeepsPlaces ==
    ASSUME NEW S \in SUBSET Piece, NEW buf \in Seq(S),
           NEW fs, fs = CompleteFrames(buf), NEW rest, rest = Incomplete(buf)
    PROVE  /\ Consists(Places(buf), FramePlaces(fs), Places(rest))
           /\ fs \in Seq(Closed \cap Seq(S)) /\ rest \in Seq({c \in S : ~Ends(c)})
<1>0. buf \in Seq(Piece)
  BY SeqMonotonic
<1> DEFINE k == LastEnd(buf)
           a == FirstN(buf, k)
<1>1. /\ k \in 0 .. Len(buf)
      /\ \A i \in 1 .. Len(buf) : Ends(buf[i]) => i <= k
  BY <1>0, LastEndIs
<1>2. rest = LastN(buf, Len(buf) - k) /\ fs = Frames(a)
  BY DEF Incomplete, CompleteFrames
<1> HIDE DEF k
<1>3. a \in Seq(S) /\ rest \in Seq(S) /\ Consists(buf, a, rest) /\ After(rest, buf, k)
  BY <1>1, <1>2, Halves
<1> HIDE DEF a
<1>4. a \in Seq(Piece) /\ rest \in Seq(Piece)
  BY <1>3, SeqMonotonic
<1>5. Consists(Places(buf), FramePlaces(fs), Places(rest))
  <2>1. PlacesSplit(a, rest) /\ FramePlaces(Frames(a)) = Places(a)
    BY <1>4, PlacesConcat, FramesKeepPlaces
  <2> QED BY <1>2, <1>3, <2>1 DEF Consists, PlacesSplit
<1>6. fs \in Seq(Closed \cap Seq(S))
  <2>1. fs \in Seq(Closed)
    BY <1>0, FramesCut
  <2>2. fs \in Seq(Seq(S))
    BY <1>2, <1>3, FramesMadeOf
  <2>3. \A i \in 1 .. Len(fs) : fs[i] \in Closed \cap Seq(S)
    BY <2>1, <2>2, ElementOfSeq
  <2> QED BY <2>1, <2>3, SeqOfType
<1>7. rest \in Seq({c \in S : ~Ends(c)})
  <2>1. \A i \in 1 .. Len(rest) : rest[i] \in S
    BY <1>3, ElementOfSeq
  <2>2. ASSUME NEW i \in 1 .. Len(rest) PROVE ~Ends(rest[i])
    <3>1. k + i \in 1 .. Len(buf) /\ ~(k + i <= k) /\ i \in 1 .. Len(buf) - k
      <4>1. Len(buf) \in Nat
        BY LenProperties
      <4> QED BY <1>1, <1>3, <2>2, <4>1 DEF After
    <3> QED BY <1>1, <1>3, <3>1 DEF After
  <2> QED BY <1>3, <2>1, <2>2, SeqOfType
<1> QED BY <1>5, <1>6, <1>7

\* The relay's filter drops usage frames and nothing else.
LEMMA StripKeepsPlaces ==
    ASSUME NEW C \in SUBSET Closed, NEW w \in Seq(C)
    PROVE  /\ FramePlaces(Stripped[w]) = FramePlaces(w)
           /\ Stripped[w] \in Seq({f \in C : ~isUsageArtifact(f)})
<1> DEFINE D == {f \in C : ~isUsageArtifact(f)}
           Q == {s \in Seq(C) : FramePlaces(Stripped[s]) = FramePlaces(s) /\ Stripped[s] \in Seq(D)}
<1>1. <<>> \in Q
  <2> DEFINE z == <<>>
  <2>1. z \in Seq(C) /\ z \in Seq(D) /\ z \in Seq(Closed)
    BY EmptySeq
  <2>2. Stripped[z] = z
    BY <2>1, StripGrows
  <2> QED BY <2>1, <2>2
<1>2. ASSUME NEW s \in Seq(C), NEW f \in C, s \in Q PROVE Append(s, f) \in Q
  <2> DEFINE t == Stripped[s]
  <2>1. Append(s, f) \in Seq(C) /\ FramePlaces(t) = FramePlaces(s) /\ t \in Seq(D)
    BY <1>2, AppendProperties
  <2>2. s \in Seq(Closed) /\ f \in Closed /\ f \in Frame /\ s \in Seq(Frame)
    BY SeqMonotonic DEF Closed
  <2>3. Stripped[Append(s, f)] = AddStripped(t, f)
    BY <2>2, StripGrows
  <2>4. t \in Seq(Frame)
    BY <2>1, SeqMonotonic DEF Closed
  <2> HIDE DEF t
  <2>5. FramesAdd(s, f) /\ FramesAdd(t, f) /\ FramePlaces(s) \in Seq(Place)
    BY <2>2, <2>4, FramePlacesGrow
  <2>6. CASE isUsageArtifact(f)
    <3>1. Places(f) = <<>>
      BY <2>2, <2>6, UsageNowhere DEF Frame
    <3>2. FramePlaces(Append(s, f)) = FramePlaces(s)
      BY <2>5, <3>1, ConcatEmptySeq DEF FramesAdd
    <3>3. Stripped[Append(s, f)] = t
      BY <2>3, <2>6 DEF AddStripped
    <3> QED BY <2>1, <3>2, <3>3
  <2>7. CASE ~isUsageArtifact(f)
    <3>1. Stripped[Append(s, f)] = Append(t, f)
      BY <2>3, <2>7 DEF AddStripped
    <3>2. Append(t, f) \in Seq(D)
      BY <2>1, <2>7, AppendProperties
    <3>3. FramePlaces(Append(t, f)) = FramePlaces(Append(s, f))
      BY <2>1, <2>5 DEF FramesAdd
    <3> QED BY <2>1, <3>1, <3>2, <3>3
  <2> QED BY <2>6, <2>7
<1> HIDE DEF Q
<1>3. Seq(C) \subseteq Q
  BY <1>1, <1>2, SeqInd
<1> QED BY <1>3 DEF Q

-----------------------------------------------------------------------------
(* What the writers make of a stream's pieces.                             *)

\* Pieces without a model name, and not the router's own error.
Plain == {c \in Piece : ~c.raw /\ c.text # "error"}

\* A whole frame of a stream shows the client no model name and no usage that it
\* did not ask for, unless the router's error was glued to it.
Clean(x) ==
    mode.stream /\ Terminated(x.cells) /\ Last(x.cells).text # "error" =>
        /\ \A j \in DOMAIN x.cells : ~x.cells[j].raw
        /\ ~(mode.strip /\ isUsageArtifact(x.cells))
CleanItems == {x \in Items : Clean(x)}

\* The frames the relay may pass on.
CleanFrames == {f \in Closed \cap Seq(Plain) : mode.strip => ~isUsageArtifact(f)}

Native(fs) == [i \in DOMAIN fs |-> Item(fs[i], FALSE)]

\* A frame of plain pieces makes a clean item, and comes from the same places.
LEMMA ItemOf ==
    ASSUME NEW f \in Frame, NEW b \in BOOLEAN
    PROVE  /\ Item(f, b) \in Items /\ Item(f, b).cells = f /\ PlacesOf(<<Item(f, b)>>) = Places(f)
           /\ f \in Seq(Plain) /\ (mode.strip => ~isUsageArtifact(f)) => Item(f, b) \in CleanItems
           /\ ~Terminated(f) \/ Last(f).text = "error" => Item(f, b) \in CleanItems
<1>1. Item(f, b) \in Items /\ Item(f, b).cells = f
  BY DEF Item, Items
<1>2. PlacesOf(<<Item(f, b)>>) = Places(f)
  BY <1>1, ItemsConcatOne
<1>3. ASSUME f \in Seq(Plain), mode.strip => ~isUsageArtifact(f) PROVE Item(f, b) \in CleanItems
  <2>1. \A j \in DOMAIN f : ~f[j].raw
    <3>1. \A j \in DOMAIN f : f[j] \in Plain
      BY <1>3, LenProperties, ElementOfSeq
    <3> QED BY <3>1 DEF Plain
  <2> QED BY <1>1, <1>3, <2>1 DEF CleanItems, Clean
<1>4. ASSUME ~Terminated(f) \/ Last(f).text = "error" PROVE Item(f, b) \in CleanItems
  BY <1>1, <1>4 DEF CleanItems, Clean
<1> QED BY <1>1, <1>2, <1>3, <1>4

\* A frame of plain pieces is translated in its place.
LEMMA FrameTranslatedClean ==
    ASSUME NEW f \in Frame, f \in Seq(Plain)
    PROVE  /\ TranslateFrame(f) \in Seq(CleanItems) /\ TranslateFrame(f) \in Seq(Items)
           /\ PlacesOf(TranslateFrame(f)) = Places(f)
<1>1. Last(f).text # "error"
  <2>1. Last(f) \in Plain
    BY Ending DEF Frame
  <2> QED BY <2>1 DEF Plain
<1>2. CASE isUsageArtifact(f)
  <2> DEFINE z == <<>>
  <2>1. TranslateFrame(f) = z
    BY <1>1, <1>2 DEF TranslateFrame
  <2>2. z \in Seq(Items) /\ z \in Seq(CleanItems)
    BY EmptySeq
  <2>3. PlacesOf(z) = <<>>
    BY <2>2, ItemsConcat
  <2>4. Places(f) = <<>>
    BY <1>2, UsageNowhere DEF Frame
  <2> QED BY <2>1, <2>2, <2>3, <2>4
<1>3. CASE ~isUsageArtifact(f)
  <2> DEFINE x == Item(f, TRUE)
  <2>1. TranslateFrame(f) = <<x>>
    BY <1>1, <1>3 DEF TranslateFrame
  <2>2. x \in CleanItems /\ x \in Items /\ PlacesOf(<<x>>) = Places(f)
    BY <1>3, ItemOf
  <2> HIDE DEF x
  <2>3. <<x>> \in Seq(CleanItems) /\ <<x>> \in Seq(Items)
    BY <2>2
  <2> QED BY <2>1, <2>2, <2>3
<1> QED BY <1>2, <1>3

\* The stream translator keeps the places of the frames.
LEMMA TranslationKeepsPlaces ==
    ASSUME NEW w \in Seq(Closed \cap Seq(Plain))
    PROVE  Translated(w) \in Seq(CleanItems) /\ PlacesOf(Translated(w)) = FramePlaces(w)
<1> DEFINE C == Closed \cap Seq(Plain)
           Q == {s \in Seq(C) : Translated(s) \in Seq(CleanItems) /\ PlacesOf(Translated(s)) = FramePlaces(s)}
<1>1. <<>> \in Q
  <2> DEFINE z == <<>>
  <2>1. z \in Seq(C) /\ z \in Seq(CleanItems) /\ z \in Seq(Closed) /\ z \in Seq(Items) /\ z \in Seq(Frame)
    BY EmptySeq
  <2>2. Translated(z) = z
    BY <2>1, TranslatedGrow
  <2>3. PlacesOf(z) = <<>> /\ FramePlaces(z) = <<>>
    BY <2>1, ItemsConcat, FramePlacesGrow
  <2> QED BY <2>1, <2>2, <2>3
<1>2. ASSUME NEW s \in Seq(C), NEW f \in C, s \in Q PROVE Append(s, f) \in Q
  <2> DEFINE t == Translated(s)
             tf == TranslateFrame(f)
  <2>1. Append(s, f) \in Seq(C) /\ t \in Seq(CleanItems) /\ PlacesOf(t) = FramePlaces(s)
    BY <1>2, AppendProperties
  <2>2. s \in Seq(Closed) /\ f \in Closed /\ f \in Frame /\ s \in Seq(Frame) /\ f \in Seq(Plain)
    BY SeqMonotonic DEF Closed
  <2>3. Translated(Append(s, f)) = t \o tf
    BY <2>2, TranslatedGrow DEF AddTranslated
  <2>4. t \in Seq(Items)
    BY <2>1, SeqMonotonic DEF CleanItems
  <2>5. tf \in Seq(CleanItems) /\ tf \in Seq(Items) /\ PlacesOf(tf) = Places(f)
    BY <2>2, FrameTranslatedClean
  <2> HIDE DEF t, tf
  <2>6. t \o tf \in Seq(CleanItems)
    BY <2>1, <2>5, ConcatProperties
  <2>7. ItemsSplit(t, tf) /\ FramesAdd(s, f)
    BY <2>2, <2>4, <2>5, ItemsConcat, FramePlacesGrow
  <2>8. PlacesOf(t \o tf) = FramePlaces(Append(s, f))
    BY <2>1, <2>5, <2>7 DEF ItemsSplit, FramesAdd
  <2> QED BY <2>1, <2>3, <2>6, <2>8
<1> HIDE DEF Q
<1>3. Seq(C) \subseteq Q
  BY <1>1, <1>2, SeqInd
<1> QED BY <1>3 DEF Q

\* Frames passed on as they are.
LEMMA NativeKeepsPlaces ==
    ASSUME NEW w \in Seq(Frame)
    PROVE  Native(w) \in Seq(Items) /\ PlacesOf(Native(w)) = FramePlaces(w)
<1> DEFINE Q == {s \in Seq(Frame) : Native(s) \in Seq(Items) /\ PlacesOf(Native(s)) = FramePlaces(s)}
<1>1. <<>> \in Q
  <2> DEFINE z == <<>>
  <2>1. z \in Seq(Items) /\ z \in Seq(Frame)
    BY EmptySeq
  <2>2. Native(z) = z
    BY DEF Native
  <2>3. PlacesOf(z) = <<>> /\ FramePlaces(z) = <<>>
    BY <2>1, ItemsConcat, FramePlacesGrow
  <2> QED BY <2>1, <2>2, <2>3
<1>2. ASSUME NEW s \in Seq(Frame), NEW f \in Frame, s \in Q PROVE Append(s, f) \in Q
  <2> DEFINE t == Native(s)
             x == Item(f, FALSE)
             u == Append(s, f)
  <2>1. u \in Seq(Frame) /\ t \in Seq(Items) /\ PlacesOf(t) = FramePlaces(s)
    BY <1>2, AppendProperties
  <2>2. x \in Items /\ PlacesOf(<<x>>) = Places(f)
    BY ItemOf
  <2>3. Native(u) = Append(t, x)
    <3>1. /\ Len(u) = Len(s) + 1 /\ u[Len(s) + 1] = f /\ \A i \in 1 .. Len(s) : u[i] = s[i]
          /\ Len(s) \in Nat /\ DOMAIN s = 1 .. Len(s) /\ DOMAIN u = 1 .. Len(u)
      BY <2>1, AppendProperties, LenProperties
    <3>2. DOMAIN t = 1 .. Len(s) /\ \A i \in 1 .. Len(s) : t[i] = Item(s[i], FALSE)
      BY <3>1 DEF Native
    <3>3. Len(t) = Len(s)
      BY <2>1, <3>1, <3>2, LenProperties
    <3>4. DOMAIN Native(u) = 1 .. Len(s) + 1 /\ \A i \in 1 .. Len(s) + 1 : Native(u)[i] = Item(u[i], FALSE)
      BY <3>1 DEF Native
    <3> HIDE DEF t, x, u
    <3>5. /\ Append(t, x) \in Seq(Items) /\ Len(Append(t, x)) = Len(t) + 1 /\ Append(t, x)[Len(t) + 1] = x
          /\ \A i \in 1 .. Len(t) : Append(t, x)[i] = t[i]
      BY <2>1, <2>2, AppendProperties
    <3>6. \A i \in 1 .. Len(s) + 1 : Native(u)[i] = Append(t, x)[i]
      <4> TAKE i \in 1 .. Len(s) + 1
      <4>1. i = Len(s) + 1 \/ i \in 1 .. Len(s)
        BY <3>1
      <4> QED BY <3>1, <3>2, <3>3, <3>4, <3>5, <4>1 DEF x
    <3>7. \A i \in 1 .. Len(s) + 1 : Append(t, x)[i] \in Items
      BY <3>3, <3>5, ElementOfSeq
    <3>8. Native(u) \in Seq(Items) /\ Len(Native(u)) = Len(s) + 1
      <4>1. Native(u) \in [1 .. Len(s) + 1 -> Items]
        BY <3>4, <3>6, <3>7 DEF Native
      <4>2. Len(s) + 1 \in Nat
        BY <3>1
      <4> HIDE DEF Native
      <4> QED BY <4>1, <4>2
    <3> QED BY <3>3, <3>5, <3>6, <3>8, SeqEqual
  <2> HIDE DEF t, x
  <2>4. Append(t, x) \in Seq(Items) /\ <<x>> \in Seq(Items) /\ Append(t, x) = t \o <<x>>
    BY <2>1, <2>2, AppendProperties, AppendIsConcat
  <2>5. ItemsSplit(t, <<x>>) /\ FramesAdd(s, f)
    BY <2>1, <2>4, ItemsConcat, FramePlacesGrow
  <2>6. PlacesOf(Append(t, x)) = FramePlaces(u)
    BY <2>1, <2>2, <2>4, <2>5 DEF ItemsSplit, FramesAdd
  <2> QED BY <2>1, <2>3, <2>4, <2>6
<1> HIDE DEF Q
<1>3. Seq(Frame) \subseteq Q
  BY <1>1, <1>2, SeqInd
<1> QED BY <1>3 DEF Q

\* One frame passed on.
LEMMA NativeOne ==
    ASSUME NEW f
    PROVE  Native(<<f>>) = <<Item(f, FALSE)>>
<1> DEFINE x == Item(f, FALSE)
<1>1. DOMAIN <<f>> = 1 .. 1 /\ \A i \in 1 .. 1 : <<f>>[i] = f
  OBVIOUS
<1>2. Native(<<f>>) = [i \in 1 .. 1 |-> x]
  BY <1>1 DEF Native
<1>3. [i \in 1 .. 1 |-> x] = <<x>>
  <2> HIDE DEF x
  <2> QED OBVIOUS
<1> QED BY <1>2, <1>3

\* What the relay holds back of a stream: plain pieces that end no frame.
OpenPlain == {c \in Plain : ~Ends(c)}
Unended == {c \in Piece : ~Ends(c)}

\* The translator of a stream has no buffer and does not switch.
Streams(tw, passing) == tw.jsonBuf = <<>> /\ tw.pass = passing

\* The relay and the translator of a stream: what they pass on is clean, and with
\* what they hold back it is the places they were given, in order.
LEMMA StreamWritten ==
    ASSUME mode.stream, NEW held \in Seq(OpenPlain), NEW cells \in Seq(Plain), NEW passing,
           NEW buf, buf = held \o cells,
           NEW rl, rl = RelayWrite(held, cells), NEW tw, tw = TranslateWrite(rl.frames, <<>>, passing)
    PROVE  /\ rl.pending \in Seq(OpenPlain) /\ tw.items \in Seq(CleanItems)
           /\ Streams(tw, passing)
           /\ Consists(Places(buf), PlacesOf(tw.items), Places(rl.pending))
<1> DEFINE fs == CompleteFrames(buf)
           rest == Incomplete(buf)
           out == IF mode.strip THEN Stripped[fs] ELSE fs
           C == Closed \cap Seq(Plain)
<1>1. buf \in Seq(Plain)
  <2>1. held \in Seq(Plain)
    BY SeqMonotonic DEF OpenPlain
  <2> QED BY <2>1, ConcatProperties
<1>2. rl.frames = out /\ rl.pending = rest
  BY DEF RelayWrite
<1>3. /\ Consists(Places(buf), FramePlaces(fs), Places(rest))
      /\ fs \in Seq(C) /\ rest \in Seq(OpenPlain)
  <2>1. Plain \in SUBSET Piece
    BY DEF Plain
  <2> HIDE DEF fs, rest
  <2> QED BY <1>1, <2>1, CutKeepsPlaces DEF fs, rest, OpenPlain
<1> HIDE DEF fs, rest
<1>4. out \in Seq(C) /\ FramePlaces(out) = FramePlaces(fs) /\ out \in Seq(CleanFrames)
  <2>1. CASE mode.strip
    <3>1. FramePlaces(Stripped[fs]) = FramePlaces(fs) /\ Stripped[fs] \in Seq({f \in C : ~isUsageArtifact(f)})
      <4>1. C \in SUBSET Closed
        OBVIOUS
      <4> HIDE DEF C
      <4> QED BY <1>3, <4>1, StripKeepsPlaces
    <3>2. out = Stripped[fs]
      BY <2>1
    <3> HIDE DEF out
    <3>3. out \in Seq(C)
      BY <3>1, <3>2, SeqMonotonic
    <3>4. out \in Seq(CleanFrames)
      BY <3>1, <3>2, SeqMonotonic DEF CleanFrames
    <3> QED BY <3>1, <3>2, <3>3, <3>4
  <2>2. CASE ~mode.strip
    <3>1. out = fs
      BY <2>2
    <3> HIDE DEF out
    <3>2. out \in Seq(CleanFrames)
      BY <1>3, <2>2, <3>1, SeqMonotonic DEF CleanFrames
    <3> QED BY <1>3, <3>1, <3>2
  <2> QED BY <2>1, <2>2
<1> HIDE DEF out
<1>5. TranslateWrite(out, <<>>, passing) =
          [items |-> IF ~mode.translate \/ passing THEN Native(out) ELSE Translated(out),
           jsonBuf |-> <<>>, pass |-> passing]
  BY DEF TranslateWrite, Native
<1>6. Translated(out) \in Seq(CleanItems) /\ PlacesOf(Translated(out)) = FramePlaces(out)
  BY <1>4, TranslationKeepsPlaces
<1>7. Native(out) \in Seq(CleanItems) /\ PlacesOf(Native(out)) = FramePlaces(out)
  <2>1. out \in Seq(Frame)
    BY <1>4, SeqMonotonic DEF Closed
  <2>2. Native(out) \in Seq(Items) /\ PlacesOf(Native(out)) = FramePlaces(out)
    BY <2>1, NativeKeepsPlaces
  <2>3. Len(out) \in Nat /\ DOMAIN out = 1 .. Len(out) /\ \A i \in 1 .. Len(out) : out[i] \in CleanFrames
    BY <1>4, LenProperties, ElementOfSeq
  <2>4. \A f \in CleanFrames : Item(f, FALSE) \in CleanItems
    BY ItemOf DEF CleanFrames, Closed
  <2>5. Native(out) \in [1 .. Len(out) -> CleanItems]
    BY <2>3, <2>4 DEF Native
  <2>6. Native(out) \in Seq(CleanItems)
    <3> HIDE DEF Native
    <3> QED BY <2>3, <2>5
  <2> QED BY <2>2, <2>6
<1>8. /\ tw.items \in Seq(CleanItems) /\ PlacesOf(tw.items) = FramePlaces(out)
      /\ tw.jsonBuf = <<>> /\ tw.pass = passing
  BY <1>2, <1>5, <1>6, <1>7
<1> QED BY <1>2, <1>3, <1>4, <1>8 DEF Consists, Streams

\* Pieces that end no frame are one frame with the next one.
LEMMA OneFrame ==
    ASSUME NEW s \in Seq(Unended), NEW c \in Piece
    PROVE  Frames(Append(s, c)) = <<Append(s, c)>>
<1> DEFINE Q == {t \in Seq(Unended) : \A d \in Piece : Frames(Append(t, d)) = <<Append(t, d)>>}
<1>1. <<>> \in Q
  <2> DEFINE z == <<>>
  <2>1. z \in Seq(Unended) /\ z \in Seq(Piece)
    BY EmptySeq
  <2>2. ASSUME NEW d \in Piece PROVE Frames(Append(z, d)) = <<Append(z, d)>>
    <3>1. Frames(z) = z /\ Frames(Append(z, d)) = AddPiece(Frames(z), d)
      BY <2>1, FramesGrow
    <3>2. AddPiece(z, d) = Append(z, <<d>>)
      BY DEF AddPiece
    <3>3. Append(z, <<d>>) = <<<<d>>>> /\ Append(z, d) = <<d>>
      OBVIOUS
    <3> HIDE DEF z
    <3> QED BY <3>1, <3>2, <3>3
  <2> QED BY <2>1, <2>2
<1>2. ASSUME NEW t \in Seq(Unended), NEW e \in Unended, t \in Q PROVE Append(t, e) \in Q
  <2> DEFINE f == Append(t, e)
  <2>1. f \in Seq(Unended) /\ e \in Piece /\ ~Ends(e) /\ Last(f) = e
    <3>1. f \in Seq(Unended) /\ Last(f) = e
      BY AppendProperties, Ending
    <3> QED BY <3>1 DEF Unended
  <2>2. f \in Seq(Piece)
    BY <2>1, SeqMonotonic DEF Unended
  <2>3. Frames(f) = <<f>>
    BY <1>2, <2>1
  <2> HIDE DEF f
  <2>4. ASSUME NEW d \in Piece PROVE Frames(Append(f, d)) = <<Append(f, d)>>
    <3>1. Frames(Append(f, d)) = AddPiece(<<f>>, d)
      BY <2>2, <2>3, FramesGrow
    <3>2. <<f>> # <<>> /\ Last(<<f>>) = f /\ ~Terminated(f)
      BY <2>1 DEF Last, Terminated
    <3>3. Front(<<f>>) = <<>>
      <4>1. Len(<<f>>) - 1 = 0
        OBVIOUS
      <4>2. SubSeq(<<f>>, 1, 0) = <<>>
        BY SubSeqEmpty
      <4> QED BY <4>1, <4>2 DEF Front
    <3>4. AddPiece(<<f>>, d) = Append(<<>>, Append(f, d))
      BY <3>2, <3>3 DEF AddPiece
    <3>5. \A x : Append(<<>>, x) = <<x>>
      OBVIOUS
    <3> QED BY <3>1, <3>4, <3>5
  <2> QED BY <2>1, <2>4 DEF f
<1> HIDE DEF Q
<1>3. Seq(Unended) \subseteq Q
  BY <1>1, <1>2, SeqInd
<1> QED BY <1>3 DEF Q

\* The router's error frame, or any end, glued to what a stream holds back.
LEMMA ErrorWritten ==
    ASSUME mode.stream, NEW open \in Seq(Unended), NEW held, NEW cells, held \o cells = Append(open, ErrorCell),
           NEW passing,
           NEW rl, rl = RelayWrite(held, cells), NEW tw, tw = TranslateWrite(rl.frames, <<>>, passing)
    PROVE  /\ rl.pending = <<>> /\ tw.items \in Seq(CleanItems)
           /\ Streams(tw, passing)
           /\ PlacesOf(tw.items) \in {Places(open), <<>>}
<1> DEFINE buf == Append(open, ErrorCell)
<1>1. ErrorCell \in Piece /\ Ends(ErrorCell) /\ ErrorCell.text = "error" /\ PlaceIn(ErrorCell) = <<>>
  BY OwnItems DEF ErrorCell, Ends, PlaceIn
<1>2. open \in Seq(Piece)
  BY SeqMonotonic DEF Unended
<1>3. buf \in Seq(Piece) /\ buf # <<>> /\ Last(buf) = ErrorCell /\ Frames(buf) = <<buf>>
  BY <1>1, <1>2, Ending, OneFrame
<1>4. buf \in Frame /\ Last(buf).text = "error" /\ Terminated(buf)
  BY <1>1, <1>3 DEF Frame, Terminated
<1>5. Places(buf) = Places(open)
  <2>1. PlacesAdd(open, ErrorCell) /\ Places(open) \in Seq(Place)
    BY <1>1, <1>2, PlacesGrow, PlacesConcat
  <2> QED BY <1>1, <2>1, ConcatEmptySeq DEF PlacesAdd
<1>6. held \o cells = buf
  OBVIOUS
<1> HIDE DEF buf
<1>7. LastEnd(buf) = Len(buf)
  <2> DEFINE k == LastEnd(buf)
  <2>1. k \in 0 .. Len(buf) /\ \A i \in 1 .. Len(buf) : Ends(buf[i]) => i <= k
    BY <1>3, LastEndIs
  <2>2. Len(buf) \in Nat /\ Len(buf) >= 1 /\ Ends(buf[Len(buf)])
    BY <1>1, <1>3, LenProperties, EmptySeq DEF Last
  <2> HIDE DEF k
  <2>3. k = Len(buf)
    BY <2>1, <2>2
  <2> QED BY <2>3 DEF k
<1>8. CompleteFrames(buf) = <<buf>> /\ Incomplete(buf) = <<>>
  <2>1. FirstN(buf, Len(buf)) = buf
    BY <1>3, SubSeqFull DEF FirstN
  <2>2. LastN(buf, Len(buf) - Len(buf)) = <<>>
    <3> DEFINE n == Len(buf)
    <3>1. n \in Nat
      BY <1>3, LenProperties
    <3> HIDE DEF n
    <3>2. n - (n - n) + 1 \in Int /\ n \in Int /\ n < n - (n - n) + 1
      BY <3>1
    <3>3. SubSeq(buf, n - (n - n) + 1, n) = <<>>
      BY <3>2, SubSeqEmpty
    <3> QED BY <3>3 DEF LastN, n
  <2> QED BY <1>3, <1>7, <2>1, <2>2 DEF CompleteFrames, Incomplete
<1>9. ~isUsageArtifact(buf)
  <2>1. Len(buf) \in DOMAIN buf /\ buf[Len(buf)].text = "error"
    <3>1. Len(buf) \in Nat /\ Len(buf) >= 1 /\ DOMAIN buf = 1 .. Len(buf)
      BY <1>3, LenProperties, EmptySeq
    <3> QED BY <1>4, <3>1 DEF Last
  <2> QED BY <2>1 DEF isUsageArtifact
<1>10. Stripped[<<buf>>] = <<buf>>
  <2> DEFINE z == <<>>
  <2>1. z \in Seq(Closed) /\ buf \in Closed /\ <<buf>> = Append(z, buf)
    BY <1>4 DEF Closed
  <2>2. Stripped[z] = z /\ Stripped[Append(z, buf)] = AddStripped(Stripped[z], buf)
    BY <2>1, StripGrows
  <2> HIDE DEF z
  <2> QED BY <1>9, <2>1, <2>2 DEF AddStripped
<1>11. Translated(<<buf>>) = <<ErrorItem>>
  <2> DEFINE z == <<>>
  <2>1. z \in Seq(Closed) /\ buf \in Closed /\ <<buf>> = Append(z, buf)
    BY <1>4 DEF Closed
  <2>2. Translated(z) = z /\ Translated(Append(z, buf)) = AddTranslated(Translated(z), buf)
    BY <2>1, TranslatedGrow
  <2>3. z \o <<ErrorItem>> = <<ErrorItem>>
    OBVIOUS
  <2> HIDE DEF z
  <2> QED BY <1>4, <2>1, <2>2, <2>3 DEF AddTranslated, TranslateFrame
<1>12. rl.frames = <<buf>> /\ rl.pending = <<>>
  BY <1>6, <1>8, <1>10 DEF RelayWrite
<1>13. Native(<<buf>>) = <<Item(buf, FALSE)>>
  BY NativeOne
<1> DEFINE a == <<Item(buf, FALSE)>>
           b == <<ErrorItem>>
<1>14. tw = [items |-> IF ~mode.translate \/ passing THEN a ELSE b,
             jsonBuf |-> <<>>, pass |-> passing]
  <2>1. TranslateWrite(<<buf>>, <<>>, passing) =
          [items |-> IF ~mode.translate \/ passing THEN Native(<<buf>>) ELSE Translated(<<buf>>),
           jsonBuf |-> <<>>, pass |-> passing]
    BY DEF TranslateWrite, Native
  <2> QED BY <1>11, <1>12, <1>13, <2>1
<1>15. /\ Item(buf, FALSE) \in CleanItems /\ PlacesOf(<<Item(buf, FALSE)>>) = Places(open)
       /\ ErrorItem \in CleanItems /\ PlacesOf(<<ErrorItem>>) = <<>>
  <2>1. Item(buf, FALSE) \in CleanItems /\ PlacesOf(<<Item(buf, FALSE)>>) = Places(buf)
    BY <1>4, ItemOf
  <2>2. <<ErrorCell>> \in Frame /\ Last(<<ErrorCell>>) = ErrorCell
    BY <1>1, FrameGrows
  <2>3. ErrorItem \in CleanItems /\ PlacesOf(<<ErrorItem>>) = Places(<<ErrorCell>>)
    BY <1>1, <2>2, ItemOf DEF ErrorItem
  <2>4. Places(<<ErrorCell>>) = <<>>
    BY <1>1, PlacesConcatOne
  <2> QED BY <1>5, <2>1, <2>3, <2>4
<1>16. \A x : x \in CleanItems => <<x>> \in Seq(CleanItems)
  OBVIOUS
<1>17. a \in Seq(CleanItems) /\ b \in Seq(CleanItems) /\ PlacesOf(a) = Places(open) /\ PlacesOf(b) = <<>>
  BY <1>15, <1>16
<1> HIDE DEF a, b
<1>18. tw.jsonBuf = <<>> /\ tw.pass = passing /\ (tw.items = a \/ tw.items = b)
  BY <1>14
<1>19. tw.items \in Seq(CleanItems) /\ PlacesOf(tw.items) \in {Places(open), <<>>}
  BY <1>17, <1>18
<1>20. Streams(tw, passing)
  BY <1>18 DEF Streams
<1> QED BY <1>12, <1>19, <1>20

-----------------------------------------------------------------------------
(* The model rewriter.                                                     *)

\* Pieces that differ in the model name they show only.
Alike(u, w) ==
    Len(u) = Len(w) /\ \A i \in 1 .. Len(w) : u[i].n = w[i].n /\ u[i].part = w[i].part /\ u[i].text = w[i].text

\* They come from the same places.
LEMMA AlikePlaces ==
    ASSUME NEW u \in Seq(Piece), NEW w \in Seq(Piece), Alike(u, w)
    PROVE  Places(u) = Places(w)
<1> DEFINE Q == {s \in Seq(Piece) : \A t \in Seq(Piece) : Alike(t, s) => Places(t) = Places(s)}
<1>1. <<>> \in Q
  <2> DEFINE z == <<>>
  <2>1. z \in Seq(Piece) /\ Len(z) = 0
    BY EmptySeq
  <2>2. ASSUME NEW t \in Seq(Piece), Alike(t, z) PROVE Places(t) = Places(z)
    <3>1. Len(t) = 0
      BY <2>1, <2>2 DEF Alike
    <3>2. t = z
      BY <2>1, <3>1, EmptySeq
    <3> QED BY <3>2
  <2> QED BY <2>1, <2>2
<1>2. ASSUME NEW s \in Seq(Piece), NEW c \in Piece, s \in Q PROVE Append(s, c) \in Q
  <2> DEFINE v == Append(s, c)
  <2>1. /\ v \in Seq(Piece) /\ Len(v) = Len(s) + 1 /\ v[Len(s) + 1] = c /\ Len(s) \in Nat
        /\ \A i \in 1 .. Len(s) : v[i] = s[i]
    BY AppendProperties, LenProperties
  <2>2. PlacesAdd(s, c)
    BY PlacesGrow
  <2>3. Places(v) = Places(s) \o PlaceIn(c)
    BY <2>2 DEF PlacesAdd
  <2> HIDE DEF v
  <2>4. ASSUME NEW t \in Seq(Piece), Alike(t, v) PROVE Places(t) = Places(v)
    <3> DEFINE f == Front(t)
               d == Last(t)
    <3>1. Len(t) = Len(s) + 1 /\ t # <<>>
      <4>1. Len(t) = Len(s) + 1
        BY <2>1, <2>4 DEF Alike
      <4>2. Len(<<>>) = 0
        OBVIOUS
      <4> QED BY <2>1, <4>1, <4>2
    <3>2. /\ d \in Piece /\ f \in Seq(Piece) /\ Len(f) = Len(t) - 1 /\ t = Append(f, d)
          /\ \A i \in 1 .. Len(t) - 1 : f[i] = t[i]
      BY <3>1, Ending, FrontLast
    <3>3. d = t[Len(s) + 1]
      BY <3>1 DEF Last
    <3> HIDE DEF f, d
    <3>4. Alike(f, s)
      <4>1. Len(f) = Len(s) /\ Len(t) - 1 = Len(s)
        BY <2>1, <3>1, <3>2
      <4>2. \A i \in 1 .. Len(s) : f[i] = t[i] /\ v[i] = s[i] /\ i \in 1 .. Len(v)
        BY <2>1, <3>2, <4>1
      <4> QED BY <2>4, <4>1, <4>2 DEF Alike
    <3>5. Places(f) = Places(s)
      BY <1>2, <3>2, <3>4
    <3>6. PlaceIn(d) = PlaceIn(c)
      <4>1. Len(s) + 1 \in 1 .. Len(v)
        BY <2>1
      <4>2. d.n = c.n /\ d.part = c.part /\ d.text = c.text
        BY <2>1, <2>4, <3>3, <4>1 DEF Alike
      <4> QED BY <4>2 DEF PlaceIn
    <3>7. PlacesAdd(f, d)
      BY <3>2, PlacesGrow
    <3> QED BY <2>3, <3>2, <3>5, <3>6, <3>7 DEF PlacesAdd
  <2> QED BY <2>1, <2>4 DEF v
<1> HIDE DEF Q
<1>3. Seq(Piece) \subseteq Q
  BY <1>1, <1>2, SeqInd
<1> QED BY <1>3 DEF Q

\* A model name that is whole in the buffer is replaced.
NameSplit(b, i) == ~(i < Len(b) /\ b[i + 1].n = b[i].n)
Renamed(buf, b) == Alike(buf, b) /\ \A i \in 1 .. Len(b) : buf[i].raw = (b[i].raw /\ NameSplit(b, i))

\* rewriteModelInResponse changes nothing else.
LEMMA Rewritten ==
    ASSUME NEW b \in Seq(Piece), NEW buf, buf = rewriteModel(b)
    PROVE  buf \in Seq(Piece) /\ Renamed(buf, b)
<1>1. Len(b) \in Nat /\ DOMAIN b = 1 .. Len(b) /\ \A i \in 1 .. Len(b) : b[i] \in Piece
  BY LenProperties, ElementOfSeq
<1> DEFINE N(i) == [b[i] EXCEPT !.raw = b[i].raw /\ NameSplit(b, i)]
<1>2. buf = [i \in 1 .. Len(b) |-> N(i)]
  BY <1>1 DEF rewriteModel, NameSplit
<1>3. \A i \in 1 .. Len(b) : NameSplit(b, i) \in BOOLEAN
  BY DEF NameSplit
<1>4. ASSUME NEW i \in 1 .. Len(b)
      PROVE  /\ N(i) \in Piece /\ N(i).n = b[i].n /\ N(i).part = b[i].part /\ N(i).text = b[i].text
             /\ N(i).raw = (b[i].raw /\ NameSplit(b, i))
  <2>1. b[i] \in Piece /\ (b[i].raw /\ NameSplit(b, i)) \in BOOLEAN
    BY <1>1, <1>3
  <2> QED BY <2>1 DEF Piece
<1> HIDE DEF N
<1>5. buf \in [1 .. Len(b) -> Piece]
  BY <1>2, <1>4
<1>6. buf \in Seq(Piece) /\ Len(buf) = Len(b)
  BY <1>1, <1>2, <1>5
<1> QED BY <1>2, <1>4, <1>6 DEF Renamed, Alike

\* What of the buffer goes on, and what is held back.
PassedOn(mw, buf) ==
    IF buf # <<>> /\ Last(buf).part = "mhead"
    THEN mw.out = Front(buf) /\ mw.carry = <<Last(buf)>>
    ELSE mw.out = buf /\ mw.carry = <<>>

\* modelRewriteWriter.Write: a name that may still be cut is held back, the rest is
\* passed on, and every piece keeps its place.
LEMMA ModelSplit ==
    ASSUME carry \in Seq(Piece), NEW cells \in Seq(Piece), NEW b, b = carry \o cells,
           NEW buf, buf = rewriteModel(b), NEW mw, mw = ModelWrite(cells)
    PROVE  /\ b \in Seq(Piece) /\ buf \in Seq(Piece) /\ Renamed(buf, b)
           /\ mw.out \in Seq(Piece) /\ mw.carry \in Seq(Piece)
           /\ Consists(Places(b), Places(mw.out), Places(mw.carry))
           /\ PassedOn(mw, buf)
<1>1. b \in Seq(Piece)
  BY ConcatProperties
<1>2. buf \in Seq(Piece) /\ Renamed(buf, b)
  BY <1>1, Rewritten
<1>3. Places(buf) = Places(b)
  BY <1>1, <1>2, AlikePlaces DEF Renamed
<1> DEFINE hold == pendingModelHold(buf)
           n == Len(buf)
<1>4. mw.out = FirstN(buf, n - hold) /\ mw.carry = LastN(buf, hold)
  BY DEF ModelWrite
<1>5. n \in Nat /\ (buf # <<>> => n >= 1)
  BY <1>2, LenProperties, EmptySeq
<1>6. CASE buf # <<>> /\ Last(buf).part = "mhead"
  <2>1. hold = 1
    BY <1>6 DEF pendingModelHold
  <2>2. mw.out = Front(buf)
    BY <1>4, <2>1 DEF FirstN, Front
  <2>3. mw.carry = <<Last(buf)>>
    <3>1. n - 1 + 1 = n /\ n \in 1 .. n /\ n + 1 \in Int /\ n \in Int /\ n < n + 1
      BY <1>5, <1>6
    <3>2. mw.carry = SubSeq(buf, n, n)
      BY <1>4, <2>1, <3>1 DEF LastN
    <3>3. SubSeq(buf, n, n) = <<buf[n]>> \o SubSeq(buf, n + 1, n)
      <4>1. n \in 1 .. Len(buf) /\ n \in n .. Len(buf)
        BY <3>1
      <4> HIDE DEF n
      <4> QED BY <1>2, <4>1, SubSeqRecursiveFirst
    <3>4. SubSeq(buf, n + 1, n) = <<>>
      <4> HIDE DEF n
      <4> QED BY <3>1, SubSeqEmpty
    <3>5. <<buf[n]>> \o <<>> = <<buf[n]>>
      OBVIOUS
    <3> QED BY <3>2, <3>3, <3>4, <3>5 DEF Last
  <2> DEFINE f == Front(buf)
             e == Last(buf)
  <2>4. f \in Seq(Piece) /\ e \in Piece /\ buf = Append(f, e)
    BY <1>2, <1>6, Ending, FrontLast
  <2> HIDE DEF f, e
  <2>5. <<e>> \in Seq(Piece)
    BY <2>4
  <2>6. PlacesAdd(f, e) /\ Places(<<e>>) = PlaceIn(e)
    BY <2>4, PlacesGrow, PlacesConcatOne
  <2>7. Consists(Places(b), Places(f), Places(<<e>>))
    BY <1>3, <2>4, <2>6 DEF PlacesAdd, Consists
  <2> QED BY <1>1, <1>2, <1>6, <2>2, <2>3, <2>4, <2>5, <2>7 DEF f, e, PassedOn
<1>7. CASE ~(buf # <<>> /\ Last(buf).part = "mhead")
  <2>1. hold = 0
    BY <1>7 DEF pendingModelHold
  <2>2. mw.out = buf
    <3>1. n - 0 = n
      BY <1>5
    <3>2. mw.out = SubSeq(buf, 1, Len(buf))
      BY <1>4, <2>1, <3>1 DEF FirstN
    <3> QED BY <1>2, <3>2, SubSeqFull
  <2> DEFINE z == <<>>
  <2>3. mw.carry = z
    <3>1. n - 0 + 1 \in Int /\ n \in Int /\ n < n - 0 + 1
      BY <1>5
    <3>2. mw.carry = SubSeq(buf, n - 0 + 1, n)
      BY <1>4, <2>1 DEF LastN
    <3> HIDE DEF n
    <3> QED BY <3>1, <3>2, SubSeqEmpty
  <2>4. z \in Seq(Piece) /\ Places(z) = <<>> /\ Places(buf) \in Seq(Place)
    BY <1>2, EmptySeq, PlacesConcat
  <2>5. Consists(Places(b), Places(buf), Places(z))
    BY <1>3, <2>4, ConcatEmptySeq DEF Consists
  <2> QED BY <1>1, <1>2, <1>7, <2>2, <2>3, <2>4, <2>5 DEF PassedOn
<1> QED BY <1>6, <1>7

\* Pieces of the backend, and the name the rewriter may hold of what was read.
Backed == {c \in Piece : c.text \in Contents \cup {"usage"}}
HeldName(h, all) ==
    h # <<>> => \E c \in Backed : /\ h = <<c>> /\ c.part = "mhead" /\ c.n = Len(all)
                                  /\ all # <<>> /\ ~Ends(Last(all))

\* A name in the buffer is whole, or is cut at the end of the buffer.
NamesWhole(b) == \A i \in 1 .. Len(b) : b[i].raw /\ NameSplit(b, i) => i = Len(b) /\ b[i].part = "mhead"

\* What the backend may send next: only the head of a cut name shows one, and the
\* piece that follows it continues it.
LEMMA NextCell ==
    ASSUME NEW prev \in Seq(Backed), NEW c \in NextCells(prev)
    PROVE  /\ c \in Backed /\ (c.raw => c.part = "mhead")
           /\ IF prev # <<>> /\ ~Ends(Last(prev)) THEN c.part = "tail" /\ c.n = Len(prev)
              ELSE c.part # "tail" /\ c.n = Len(prev) + 1
<1>1. Len(prev) \in Nat
  BY LenProperties
<1>2. CASE prev # <<>> /\ ~Ends(Last(prev))
  <2>1. Last(prev).text \in Contents \cup {"usage"}
    <3>1. Last(prev) \in Backed
      BY <1>2, Ending
    <3> QED BY <3>1 DEF Backed
  <2>2. c = [n |-> Len(prev) + 1 - 1, part |-> "tail", text |-> Last(prev).text, raw |-> FALSE]
    BY <1>2 DEF NextCells
  <2>3. Len(prev) + 1 - 1 = Len(prev)
    BY <1>1
  <2>4. c.part = "tail" /\ c.n = Len(prev) /\ ~c.raw /\ c.text \in Contents \cup {"usage"}
    BY <2>1, <2>2, <2>3
  <2>5. c \in Piece
    BY <1>1, <2>1, <2>2, <2>3 DEF Piece, Texts
  <2> QED BY <1>2, <2>4, <2>5 DEF Backed
<1>3. CASE ~(prev # <<>> /\ ~Ends(Last(prev)))
  <2> DEFINE m == Len(prev) + 1
  <2>1. \/ \E t \in Contents \cup {"usage"} : c = [n |-> m, part |-> "whole", text |-> t, raw |-> FALSE]
        \/ \E p \in {"head", "mhead"}, t \in CutTexts : c = [n |-> m, part |-> p, text |-> t, raw |-> p = "mhead"]
    BY <1>3 DEF NextCells
  <2>2. m \in Nat
    BY <1>1
  <2>3. CutTexts \subseteq Contents \cup {"usage"}
    BY StreamAssumption DEF CutTexts
  <2> HIDE DEF m
  <2>4. ASSUME NEW t \in Contents \cup {"usage"}, c = [n |-> m, part |-> "whole", text |-> t, raw |-> FALSE]
        PROVE  c \in Backed /\ ~c.raw /\ c.part # "tail" /\ c.n = m
    BY <2>2, <2>4 DEF Backed, Piece, Texts
  <2>5. ASSUME NEW p \in {"head", "mhead"}, NEW t \in CutTexts,
               c = [n |-> m, part |-> p, text |-> t, raw |-> p = "mhead"]
        PROVE  c \in Backed /\ (c.raw => c.part = "mhead") /\ c.part # "tail" /\ c.n = m
    <3>1. (p = "mhead") \in BOOLEAN /\ t \in Contents \cup {"usage"} /\ t \in Texts
      BY <2>3 DEF Texts
    <3>2. c \in Piece
      BY <2>2, <2>5, <3>1 DEF Piece
    <3>3. c.raw = (p = "mhead") /\ c.part = p /\ c.n = m /\ c.text = t
      BY <2>5
    <3> QED BY <3>1, <3>2, <3>3 DEF Backed
  <2> QED BY <1>3, <2>1, <2>4, <2>5 DEF m
<1> QED BY <1>2, <1>3

\* What a read hands to the rewriter, behind the name it holds.
Readable(b, all) ==
    /\ b \in Seq(Backed) /\ b # <<>> /\ all \in Seq(Backed) /\ NamesWhole(b)
    /\ Last(b).part = "mhead" => HeldName(<<Last(b)>>, all)

\* The last element of a sequence that grew.
LEMMA Grown ==
    ASSUME NEW E, NEW s \in Seq(E), NEW e \in E
    PROVE  Append(s, e) # <<>> /\ Last(Append(s, e)) = e
BY Ending

\* One piece more to read.
LEMMA ReadsPiece ==
    ASSUME NEW all \in Seq(Backed), NEW h \in Seq(Backed), NEW c \in NextCells(all),
           \A i \in 1 .. Len(h) : h[i].raw /\ NameSplit(h, i) =>
               i = Len(h) /\ all # <<>> /\ ~Ends(Last(all)) /\ h[i].n = Len(all)
    PROVE  Readable(Append(h, c), Append(all, c))
<1> DEFINE b == Append(h, c)
           a == Append(all, c)
<1>1. /\ c \in Backed /\ (c.raw => c.part = "mhead")
      /\ IF all # <<>> /\ ~Ends(Last(all)) THEN c.part = "tail" /\ c.n = Len(all)
         ELSE c.part # "tail" /\ c.n = Len(all) + 1
  BY NextCell
<1>2. /\ b \in Seq(Backed) /\ Len(b) = Len(h) + 1 /\ b[Len(h) + 1] = c /\ Len(h) \in Nat
      /\ \A i \in 1 .. Len(h) : b[i] = h[i]
  BY <1>1, AppendProperties, LenProperties
<1>3. b # <<>> /\ Last(b) = c /\ a # <<>> /\ Last(a) = c /\ a \in Seq(Backed) /\ Len(a) = Len(all) + 1
  <2>0. c \in Backed
    BY <1>1
  <2>1. b # <<>> /\ Last(b) = c
    BY <2>0, Grown
  <2>2. a # <<>> /\ Last(a) = c
    BY <2>0, Grown
  <2>3. a \in Seq(Backed) /\ Len(a) = Len(all) + 1
    BY <2>0, AppendProperties
  <2> QED BY <2>1, <2>2, <2>3
<1> HIDE DEF b, a
<1>4. NamesWhole(b)
  <2> SUFFICES ASSUME NEW i \in 1 .. Len(b), b[i].raw, NameSplit(b, i)
               PROVE  i = Len(b) /\ b[i].part = "mhead"
    BY DEF NamesWhole
  <2>1. CASE i = Len(b)
    BY <1>1, <1>2, <2>1
  <2>2. CASE i # Len(b)
    <3>1. i \in 1 .. Len(h) /\ i < Len(b) /\ b[i] = h[i]
      BY <1>2, <2>2
    <3>2. CASE i = Len(h)
      <4>1. b[i + 1] = c /\ ~(i < Len(h))
        BY <1>2, <3>2
      <4>2. NameSplit(h, i)
        BY <4>1 DEF NameSplit
      <4>3. all # <<>> /\ ~Ends(Last(all)) /\ h[i].n = Len(all)
        BY <3>1, <4>2
      <4>4. c.n = h[i].n
        BY <1>1, <4>3
      <4> QED BY <3>1, <4>1, <4>4 DEF NameSplit
    <3>3. CASE i # Len(h)
      <4>1. i < Len(h) /\ i + 1 \in 1 .. Len(h) /\ b[i + 1] = h[i + 1]
        BY <1>2, <3>1, <3>3
      <4>2. NameSplit(h, i)
        BY <3>1, <4>1 DEF NameSplit
      <4> QED BY <3>1, <3>3, <4>2
    <3> QED BY <3>2, <3>3
  <2> QED BY <2>1, <2>2
<1>5. ASSUME c.part = "mhead" PROVE HeldName(<<c>>, a)
  <2>1. c.n = Len(a) /\ ~Ends(c)
    BY <1>1, <1>3, <1>5 DEF Ends
  <2> QED BY <1>1, <1>3, <1>5, <2>1 DEF HeldName
<1> QED BY <1>2, <1>3, <1>4, <1>5 DEF Readable, b, a

\* Every read hands over names that are whole, or cut at the end.
LEMMA ChunkReadable ==
    ASSUME read \in Seq(Backed), carry \in Seq(Backed), HeldName(carry, read), NEW chunk \in Chunks
    PROVE  Readable(carry \o chunk, read \o chunk)
<1>1. \A i \in 1 .. Len(carry) : carry[i].raw /\ NameSplit(carry, i) =>
          i = Len(carry) /\ read # <<>> /\ ~Ends(Last(read)) /\ carry[i].n = Len(read)
  <2>1. CASE carry = <<>>
    BY <2>1
  <2>2. CASE carry # <<>>
    <3>1. PICK d \in Backed : /\ carry = <<d>> /\ d.part = "mhead" /\ d.n = Len(read)
                              /\ read # <<>> /\ ~Ends(Last(read))
      BY <2>2 DEF HeldName
    <3>2. Len(carry) = 1 /\ carry[1] = d
      BY <3>1
    <3> QED BY <3>1, <3>2
  <2> QED BY <2>1, <2>2
<1>2. ASSUME NEW c \in NextCells(read) PROVE Readable(Append(carry, c), Append(read, c))
  BY <1>1, ReadsPiece
<1>3. ASSUME NEW c \in NextCells(read), NEW d \in NextCells(Append(read, c))
      PROVE  Readable(Append(Append(carry, c), d), Append(Append(read, c), d))
  <2> DEFINE h == Append(carry, c)
             a == Append(read, c)
  <2>1. Readable(h, a)
    BY <1>2
  <2>2. h \in Seq(Backed) /\ a \in Seq(Backed) /\ h # <<>> /\ NamesWhole(h)
        /\ (Last(h).part = "mhead" => HeldName(<<Last(h)>>, a))
    BY <2>1 DEF Readable
  <2>3. d \in NextCells(a)
    OBVIOUS
  <2> HIDE DEF h, a
  <2>4. ASSUME NEW i \in 1 .. Len(h), h[i].raw, NameSplit(h, i)
        PROVE  i = Len(h) /\ a # <<>> /\ ~Ends(Last(a)) /\ h[i].n = Len(a)
    <3>1. i = Len(h) /\ h[i].part = "mhead"
      BY <2>2, <2>4 DEF NamesWhole
    <3>2. Last(h) = h[i]
      BY <3>1 DEF Last
    <3>3. HeldName(<<Last(h)>>, a)
      BY <2>2, <3>1, <3>2
    <3>4. <<Last(h)>> # <<>>
      OBVIOUS
    <3>5. PICK e \in Backed : <<Last(h)>> = <<e>> /\ e.n = Len(a) /\ a # <<>> /\ ~Ends(Last(a))
      BY <3>3, <3>4 DEF HeldName
    <3>6. Last(h) = e
      BY <3>5
    <3> QED BY <3>1, <3>2, <3>5, <3>6
  <2>5. Readable(Append(h, d), Append(a, d))
    BY <2>2, <2>3, <2>4, ReadsPiece
  <2> QED BY <2>5 DEF h, a
<1>4. \/ \E c \in NextCells(read) : chunk = <<c>>
      \/ \E c \in NextCells(read) : \E d \in NextCells(read \o <<c>>) : chunk = Append(<<c>>, d)
  BY DEF Chunks
<1>5. ASSUME NEW E, NEW s \in Seq(E), NEW c, NEW d
      PROVE  s \o <<c>> = Append(s, c) /\ s \o Append(<<c>>, d) = Append(Append(s, c), d)
  <2> DEFINE F == E \cup {c, d}
  <2>1. s \in Seq(F) /\ c \in F /\ d \in F
    BY SeqMonotonic
  <2> HIDE DEF F
  <2>2. <<c>> \in Seq(F) /\ s \o <<c>> = Append(s, c)
    BY <2>1, AppendIsConcat
  <2>3. s \o Append(<<c>>, d) = Append(s \o <<c>>, d)
    BY <2>1, <2>2, ConcatAppend
  <2> QED BY <2>2, <2>3
<1>6. CASE \E c \in NextCells(read) : chunk = <<c>>
  <2>1. PICK c \in NextCells(read) : chunk = <<c>>
    BY <1>6
  <2>2. carry \o <<c>> = Append(carry, c) /\ read \o <<c>> = Append(read, c)
    BY <1>5
  <2> QED BY <1>2, <2>1, <2>2
<1>7. CASE \E c \in NextCells(read) : \E d \in NextCells(read \o <<c>>) : chunk = Append(<<c>>, d)
  <2>1. PICK c \in NextCells(read) : \E d \in NextCells(read \o <<c>>) : chunk = Append(<<c>>, d)
    BY <1>7
  <2>2. PICK d \in NextCells(read \o <<c>>) : chunk = Append(<<c>>, d)
    BY <2>1
  <2>3. /\ read \o <<c>> = Append(read, c)
        /\ carry \o chunk = Append(Append(carry, c), d) /\ read \o chunk = Append(Append(read, c), d)
    BY <1>5, <2>2
  <2>4. d \in NextCells(Append(read, c))
    BY <2>2, <2>3
  <2> QED BY <1>3, <2>3, <2>4
<1> QED BY <1>4, <1>6, <1>7

-----------------------------------------------------------------------------
(* The whole chain.                                                        *)

\* modelRewriteWriter.Write on a read: what goes on shows no model name.
LEMMA ChunkRenamed ==
    ASSUME carry \in Seq(Backed), NEW cells \in Seq(Piece), NEW all, Readable(carry \o cells, all),
           NEW mw, mw = ModelWrite(cells)
    PROVE  /\ mw.out \in Seq(Plain) /\ mw.carry \in Seq(Backed) /\ HeldName(mw.carry, all)
           /\ Consists(Places(carry \o cells), Places(mw.out), Places(mw.carry))
<1> DEFINE b == carry \o cells
           buf == rewriteModel(b)
<1>0. carry \in Seq(Piece)
  BY SeqMonotonic DEF Backed
<1>1. /\ b \in Seq(Piece) /\ buf \in Seq(Piece) /\ Renamed(buf, b)
      /\ Consists(Places(b), Places(mw.out), Places(mw.carry))
      /\ IF buf # <<>> /\ Last(buf).part = "mhead"
         THEN mw.out = Front(buf) /\ mw.carry = <<Last(buf)>>
         ELSE mw.out = buf /\ mw.carry = <<>>
  <2>1. b = carry \o cells /\ buf = rewriteModel(b)
    OBVIOUS
  <2> HIDE DEF b, buf
  <2>2. /\ b \in Seq(Piece) /\ buf \in Seq(Piece) /\ Renamed(buf, b)
        /\ Consists(Places(b), Places(mw.out), Places(mw.carry)) /\ PassedOn(mw, buf)
    BY <1>0, <2>1, ModelSplit
  <2> QED BY <2>2 DEF PassedOn
<1>2. b \in Seq(Backed) /\ b # <<>> /\ NamesWhole(b) /\ (Last(b).part = "mhead" => HeldName(<<Last(b)>>, all))
  BY DEF Readable
<1> HIDE DEF buf, b
<1>3. /\ Len(b) \in Nat /\ Len(b) >= 1 /\ Len(buf) = Len(b)
      /\ \A i \in 1 .. Len(b) : b[i] \in Backed
      /\ \A i \in 1 .. Len(b) : buf[i] \in Piece /\ buf[i].n = b[i].n /\ buf[i].part = b[i].part /\ buf[i].text = b[i].text
      /\ \A i \in 1 .. Len(b) : buf[i].raw = (b[i].raw /\ NameSplit(b, i))
  <2>1. Len(b) \in Nat /\ Len(b) >= 1 /\ \A i \in 1 .. Len(b) : b[i] \in Backed
    BY <1>2, LenProperties, EmptySeq, ElementOfSeq
  <2>2. Len(buf) = Len(b)
    BY <1>1 DEF Renamed, Alike
  <2>3. \A i \in 1 .. Len(b) : buf[i] \in Piece
    BY <1>1, <2>2, ElementOfSeq
  <2> QED BY <1>1, <2>1, <2>2, <2>3 DEF Renamed, Alike
<1>4. \A i \in 1 .. Len(b) : buf[i] \in Backed
  BY <1>3 DEF Backed
<1>5. \A i \in 1 .. Len(b) : (i # Len(b) \/ buf[i].part # "mhead") => buf[i] \in Plain
  <2> TAKE i \in 1 .. Len(b)
  <2> HAVE i # Len(b) \/ buf[i].part # "mhead"
  <2>1. ~(b[i].raw /\ NameSplit(b, i))
    BY <1>2, <1>3 DEF NamesWhole
  <2>2. ~buf[i].raw
    BY <1>3, <2>1
  <2>3. buf[i].text # "error" /\ buf[i] \in Piece
    BY <1>4, StreamAssumption DEF Backed
  <2> QED BY <2>2, <2>3 DEF Plain
<1>6. Last(buf) = buf[Len(b)] /\ Last(b) = b[Len(b)] /\ Len(b) \in 1 .. Len(b)
  BY <1>3 DEF Last
<1>7. CASE buf # <<>> /\ Last(buf).part = "mhead"
  <2> DEFINE e == Last(buf)
  <2>1. mw.out = Front(buf) /\ mw.carry = <<e>>
    BY <1>1, <1>7
  <2>2. Front(buf) \in Seq(Piece) /\ Len(Front(buf)) = Len(buf) - 1 /\ \A i \in 1 .. Len(buf) - 1 : Front(buf)[i] = buf[i]
    BY <1>1, <1>7, Ending
  <2>3. \A i \in 1 .. Len(Front(buf)) : Front(buf)[i] \in Plain
    <3>1. \A i \in 1 .. Len(Front(buf)) : i \in 1 .. Len(buf) - 1 /\ i \in 1 .. Len(b) /\ i # Len(b)
      BY <1>3, <2>2
    <3> QED BY <1>5, <2>2, <3>1
  <2>4. mw.out \in Seq(Plain)
    BY <2>1, <2>2, <2>3, SeqOfType
  <2>5. e \in Backed /\ e.part = "mhead"
    BY <1>4, <1>6, <1>7
  <2>6. PICK c \in Backed : <<Last(b)>> = <<c>> /\ c.n = Len(all) /\ all # <<>> /\ ~Ends(Last(all))
    <3>1. HeldName(<<Last(b)>>, all)
      BY <1>2, <1>3, <1>6, <1>7
    <3>2. <<Last(b)>> # <<>>
      OBVIOUS
    <3> QED BY <3>1, <3>2 DEF HeldName
  <2>7. e.n = Len(all)
    <3>1. Last(b) = c
      BY <2>6
    <3> QED BY <1>3, <1>6, <2>6, <3>1
  <2> HIDE DEF e
  <2>8. <<e>> \in Seq(Backed)
    BY <2>5
  <2>9. HeldName(<<e>>, all)
    BY <2>5, <2>6, <2>7 DEF HeldName
  <2> QED BY <1>1, <2>1, <2>4, <2>8, <2>9 DEF b
<1>8. CASE ~(buf # <<>> /\ Last(buf).part = "mhead")
  <2>1. mw.out = buf /\ mw.carry = <<>>
    BY <1>1, <1>8
  <2>2. buf # <<>>
    <3>1. Len(<<>>) = 0
      OBVIOUS
    <3> QED BY <1>3, <3>1
  <2>3. \A i \in 1 .. Len(buf) : buf[i] \in Plain
    <3>1. ASSUME NEW i \in 1 .. Len(b) PROVE buf[i] \in Plain
      <4>1. i # Len(b) \/ buf[i].part # "mhead"
        BY <1>6, <1>8, <2>2
      <4> QED BY <1>5, <4>1
    <3> QED BY <1>3, <3>1
  <2>4. buf \in Seq(Plain)
    BY <1>1, <2>3, SeqOfType
  <2>5. <<>> \in Seq(Backed) /\ HeldName(<<>>, all)
    BY EmptySeq DEF HeldName
  <2> QED BY <1>1, <2>1, <2>4, <2>5 DEF b
<1> QED BY <1>7, <1>8

\* The router's error frame finds the rewriter: what was held goes out before it.
LEMMA ErrorRenamed ==
    ASSUME carry \in Seq(Backed), NEW all, HeldName(carry, all), NEW mw, mw = ModelWrite(<<ErrorCell>>)
    PROVE  /\ mw.carry = <<>>
           /\ \E open \in Seq(Unended) : mw.out = Append(open, ErrorCell) /\ Places(open) = Places(carry)
<1> DEFINE cells == <<ErrorCell>>
           b == carry \o cells
           buf == rewriteModel(b)
<1>0. carry \in Seq(Piece) /\ ErrorCell \in Piece /\ cells \in Seq(Piece)
  <2>1. ErrorCell \in Piece
    BY OwnItems
  <2> QED BY <2>1, SeqMonotonic DEF Backed
<1>1. /\ b \in Seq(Piece) /\ buf \in Seq(Piece) /\ Renamed(buf, b)
      /\ IF buf # <<>> /\ Last(buf).part = "mhead"
         THEN mw.out = Front(buf) /\ mw.carry = <<Last(buf)>>
         ELSE mw.out = buf /\ mw.carry = <<>>
  <2>1. b = carry \o cells /\ buf = rewriteModel(b) /\ mw = ModelWrite(cells)
    OBVIOUS
  <2> HIDE DEF b, buf, cells
  <2>2. b \in Seq(Piece) /\ buf \in Seq(Piece) /\ Renamed(buf, b) /\ PassedOn(mw, buf)
    BY <1>0, <2>1, ModelSplit
  <2> QED BY <2>2 DEF PassedOn
<1>2. b = Append(carry, ErrorCell)
  BY <1>0, AppendIsConcat
<1>3. /\ Len(b) = Len(carry) + 1 /\ Len(carry) \in Nat /\ b[Len(carry) + 1] = ErrorCell
      /\ \A i \in 1 .. Len(carry) : b[i] = carry[i]
  <2> HIDE DEF b
  <2> QED BY <1>0, <1>2, AppendProperties, LenProperties
<1> HIDE DEF b, buf
<1>4. /\ Len(buf) = Len(b)
      /\ \A i \in 1 .. Len(b) : buf[i].n = b[i].n /\ buf[i].part = b[i].part /\ buf[i].text = b[i].text
      /\ \A i \in 1 .. Len(b) : buf[i].raw = (b[i].raw /\ NameSplit(b, i))
  BY <1>1 DEF Renamed, Alike
<1>5. buf # <<>> /\ Len(buf) >= 1
  <2>1. Len(<<>>) = 0
    OBVIOUS
  <2> QED BY <1>3, <1>4, <2>1
<1> DEFINE f == Front(buf)
           e == Last(buf)
<1>6. /\ f \in Seq(Piece) /\ e \in Piece /\ buf = Append(f, e) /\ Len(f) = Len(buf) - 1
      /\ \A i \in 1 .. Len(buf) - 1 : f[i] = buf[i]
  BY <1>1, <1>5, Ending, FrontLast
<1>7. e = ErrorCell
  <2>1. e = buf[Len(carry) + 1] /\ Len(carry) + 1 \in 1 .. Len(b)
    BY <1>3, <1>4 DEF Last
  <2>2. e.n = ErrorCell.n /\ e.part = ErrorCell.part /\ e.text = ErrorCell.text
    BY <1>3, <1>4, <2>1
  <2>3. ErrorCell.raw = FALSE
    BY DEF ErrorCell
  <2>4. e.raw = FALSE
    <3>1. e.raw = (ErrorCell.raw /\ NameSplit(b, Len(carry) + 1))
      BY <1>3, <1>4, <2>1
    <3> QED BY <2>3, <3>1
  <2> HIDE DEF e
  <2> QED BY <1>0, <1>6, <2>2, <2>3, <2>4 DEF Piece
<1> HIDE DEF f, e
<1>8. Alike(f, carry)
  <2>1. Len(f) = Len(carry)
    BY <1>3, <1>4, <1>6
  <2>2. \A i \in 1 .. Len(carry) : i \in 1 .. Len(b) /\ i \in 1 .. Len(buf) - 1 /\ f[i] = buf[i] /\ b[i] = carry[i]
    BY <1>3, <1>4, <1>6
  <2> QED BY <1>4, <2>1, <2>2 DEF Alike
<1>9. f \in Seq(Unended)
  <2>1. ASSUME NEW i \in 1 .. Len(f) PROVE f[i] \in Unended
    <3>1. f[i] \in Piece /\ f[i].part = carry[i].part /\ i \in 1 .. Len(carry)
      <4>1. f[i] \in Piece
        BY <1>6, ElementOfSeq
      <4>2. Len(f) = Len(carry)
        BY <1>8 DEF Alike
      <4> QED BY <1>8, <4>1, <4>2 DEF Alike
    <3>2. carry[i].part = "mhead"
      <4>1. carry # <<>>
        <5>1. Len(<<>>) = 0
          OBVIOUS
        <5> QED BY <1>3, <3>1, <5>1
      <4>2. PICK c \in Backed : carry = <<c>> /\ c.part = "mhead"
        BY <4>1 DEF HeldName
      <4>3. Len(carry) = 1 /\ carry[1] = c
        BY <4>2
      <4> QED BY <3>1, <4>2, <4>3
    <3> QED BY <3>1, <3>2 DEF Unended, Ends
  <2> QED BY <1>6, <2>1, SeqOfType
<1>10. Places(f) = Places(carry)
  BY <1>0, <1>6, <1>8, AlikePlaces
<1>11. Last(buf).part # "mhead"
  BY <1>7 DEF e, ErrorCell
<1>12. mw.out = buf /\ mw.carry = <<>>
  BY <1>1, <1>11
<1> QED BY <1>6, <1>7, <1>9, <1>10, <1>12

\* a then b is c then d.
Conveys(a, b, c, d) == a \o b = c \o d

\* It does not matter which two of three sequences are joined first.
Regrouped(s, t, u) == (s \o t) \o u = s \o (t \o u)

\* So it is.
LEMMA Regroup ==
    ASSUME NEW S, NEW s \in Seq(S), NEW t \in Seq(S), NEW u \in Seq(S)
    PROVE  Regrouped(s, t, u)
BY ConcatAssociative DEF Regrouped

\* Two steps of a chain, each of which keeps the places it is given and those it
\* holds, keep them together.
LEMMA Chained ==
    ASSUME NEW S, NEW q \in Seq(S), NEW h2 \in Seq(S), NEW h \in Seq(S), NEW o \in Seq(S),
           NEW c2 \in Seq(S), NEW c \in Seq(S), NEW k \in Seq(S),
           Conveys(q, h2, h, o), Conveys(c, k, o, c2)
    PROVE  Conveys(q, h2 \o c2, h \o c, k)
<1>1. Regrouped(q, h2, c2) /\ Regrouped(h, o, c2) /\ Regrouped(h, c, k)
  BY Regroup
<1>2. q \o h2 = h \o o /\ c \o k = o \o c2
  BY DEF Conveys
<1> QED BY <1>1, <1>2 DEF Conveys, Regrouped

\* The translator buffers while it translates, and while it does not pass on.
Buffers(buffered, passing) == buffered # <<>> => mode.translate /\ ~passing

\* An answer that is not a stream goes to the client as it is, or to the
\* translator's buffer, which overflows to the client.
LEMMA BodyWritten ==
    ASSUME ~mode.stream, NEW held, NEW cells \in Seq(Piece), NEW buffered \in Seq(Piece), NEW passing,
           Buffers(buffered, passing),
           NEW rl, rl = RelayWrite(held, cells), NEW tw, tw = TranslateWrite(rl.frames, buffered, passing)
    PROVE  /\ rl.pending = held /\ tw.items \in Seq(Items) /\ tw.jsonBuf \in Seq(Piece)
           /\ Buffers(tw.jsonBuf, tw.pass)
           /\ Conveys(PlacesOf(tw.items), Places(tw.jsonBuf), Places(buffered), Places(cells))
<1> DEFINE z == <<>>
<1>1. z \in Seq(Piece) /\ z \in Seq(Items)
  BY EmptySeq
<1>2. Places(z) = z /\ PlacesOf(z) = z /\ Places(cells) \in Seq(Place) /\ Places(buffered) \in Seq(Place)
  BY <1>1, PlacesConcat, ItemsConcat
<1>e. \A s \in Seq(Place) : s \o z = s /\ z \o s = s
  BY ConcatEmptySeq
<1>3. rl.pending = held /\ rl.frames = IF cells = z THEN z ELSE <<cells>>
  BY DEF RelayWrite
<1>4. CASE cells = z
  <2>1. tw.items = z /\ tw.jsonBuf = buffered /\ tw.pass = passing
    <3>1. rl.frames = z
      BY <1>3, <1>4
    <3>2. [i \in DOMAIN z |-> Item(z[i], FALSE)] = z
      OBVIOUS
    <3> QED BY <3>1, <3>2 DEF TranslateWrite
  <2>2. Conveys(z, Places(buffered), Places(buffered), z)
    BY <1>2, <1>e DEF Conveys
  <2>3. Buffers(tw.jsonBuf, tw.pass)
    BY <2>1
  <2> QED BY <1>1, <1>2, <1>3, <1>4, <2>1, <2>2, <2>3
<1>5. CASE cells # z
  <2> DEFINE fs == <<cells>>
             all == buffered \o cells
             x == Item(cells, FALSE)
             y == Item(all, FALSE)
  <2>1. rl.frames = fs /\ fs # z
    BY <1>3, <1>5
  <2>2. FlattenSeq(fs) = cells
    <3>1. Len(fs) = 1 /\ fs[1] = cells
      OBVIOUS
    <3> DEFINE g == CHOOSE h : h = [i \in 1 .. 1 |-> IF i = 1 THEN fs[i] ELSE h[i - 1] \o fs[i]]
    <3>2. FlattenSeq(fs) = g[1]
      <4> HIDE DEF fs
      <4> QED BY <3>1 DEF FlattenSeq
    <3>3. g = [i \in 1 .. 1 |-> IF i = 1 THEN fs[i] ELSE g[i - 1] \o fs[i]]
      <4> DEFINE w == [i \in 1 .. 1 |-> cells]
      <4>1. w = [i \in 1 .. 1 |-> IF i = 1 THEN fs[i] ELSE w[i - 1] \o fs[i]]
        BY <3>1
      <4> HIDE DEF w, fs
      <4> QED BY <4>1, Zenon
    <3> HIDE DEF g, fs
    <3>4. g[1] = fs[1]
      BY <3>3
    <3> QED BY <3>1, <3>2, <3>4
  <2>3. Native(fs) = <<x>>
    BY NativeOne
  <2>4. tw = IF ~mode.translate \/ passing THEN [items |-> Native(fs), jsonBuf |-> buffered, pass |-> passing]
             ELSE IF Len(all) > MaxTranslatedBody
             THEN [items |-> <<y>>, jsonBuf |-> <<>>, pass |-> TRUE]
             ELSE [items |-> <<>>, jsonBuf |-> all, pass |-> FALSE]
    <3> HIDE DEF fs
    <3> QED BY <2>1, <2>2 DEF TranslateWrite, Native
  <2>5. cells \in Frame /\ all \in Seq(Piece) /\ PlacesSplit(buffered, cells)
    BY <1>5, ConcatProperties, PlacesConcat DEF Frame
  <2>6. x \in Items /\ PlacesOf(<<x>>) = Places(cells)
    BY <2>5, ItemOf
  <2>7. all \in Frame
    <3>1. Len(all) = Len(buffered) + Len(cells) /\ Len(cells) \in Nat \ {0} /\ Len(buffered) \in Nat
      BY <1>5, ConcatProperties, EmptySeq, LenProperties
    <3>2. Len(<<>>) = 0
      OBVIOUS
    <3>3. all # <<>>
      BY <3>1, <3>2
    <3> QED BY <2>5, <3>3 DEF Frame
  <2>8. y \in Items /\ PlacesOf(<<y>>) = Places(buffered) \o Places(cells)
    <3> HIDE DEF all
    <3>1. y \in Items /\ PlacesOf(<<y>>) = Places(all)
      BY <2>7, ItemOf
    <3> QED BY <2>5, <3>1 DEF PlacesSplit, all
  <2>9. Places(all) = Places(buffered) \o Places(cells)
    BY <2>5 DEF PlacesSplit
  <2> HIDE DEF fs, all, x, y
  <2>10. <<x>> \in Seq(Items) /\ <<y>> \in Seq(Items)
    BY <2>6, <2>8
  <2>o. Places(buffered) \o Places(cells) \in Seq(Place)
    BY <1>2, ConcatProperties
  <2>11. CASE ~mode.translate \/ passing
    <3>1. tw.items = <<x>> /\ tw.jsonBuf = z /\ buffered = z
      BY <2>3, <2>4, <2>11 DEF Buffers
    <3>3. Buffers(tw.jsonBuf, tw.pass)
      BY <3>1 DEF Buffers
    <3>2. Conveys(Places(cells), z, z, Places(cells))
      BY <1>2, <1>e DEF Conveys
    <3> QED BY <1>1, <1>2, <1>3, <2>6, <2>10, <3>1, <3>2, <3>3
  <2>12. CASE ~(~mode.translate \/ passing) /\ Len(all) > MaxTranslatedBody
    <3>1. tw.items = <<y>> /\ tw.jsonBuf = z
      BY <2>4, <2>12
    <3>2. Conveys(PlacesOf(<<y>>), z, Places(buffered), Places(cells))
      BY <1>e, <2>8, <2>o DEF Conveys
    <3>3. Buffers(tw.jsonBuf, tw.pass)
      BY <3>1 DEF Buffers
    <3> QED BY <1>1, <1>2, <1>3, <2>10, <3>1, <3>2, <3>3
  <2>13. CASE ~(~mode.translate \/ passing) /\ ~(Len(all) > MaxTranslatedBody)
    <3>1. tw.items = z /\ tw.jsonBuf = all /\ tw.pass = FALSE
      BY <2>4, <2>13
    <3>2. Conveys(z, Places(all), Places(buffered), Places(cells))
      BY <1>e, <2>9, <2>o DEF Conveys
    <3>3. Buffers(tw.jsonBuf, tw.pass)
      BY <2>13, <3>1 DEF Buffers
    <3> QED BY <1>1, <1>2, <1>3, <2>5, <3>1, <3>2, <3>3
  <2> QED BY <2>11, <2>12, <2>13
<1> QED BY <1>4, <1>5

-----------------------------------------------------------------------------
(* What the chain holds back between reads, and what becomes of it.        *)

\* What the writers hold back between two reads: at most a model name that is cut,
\* pieces of a frame that has not ended, and a body that is to be translated.
Held ==
    /\ read \in Seq(Backed) /\ carry \in Seq(Backed) /\ HeldName(carry, read)
    /\ pending \in Seq(OpenPlain) /\ jsonBuf \in Seq(Piece)
    /\ Buffers(jsonBuf, pass) /\ (mode.stream => jsonBuf = <<>>)
    /\ ~mode.stream => pending = <<>>

\* Its places in the answer.
HeldPlaces == Places(jsonBuf) \o (Places(pending) \o Places(carry))

\* What is held back has places, those of a stream and those of another answer.
LEMMA HeldPlacesAre ==
    ASSUME Held
    PROVE  /\ Places(jsonBuf) \in Seq(Place) /\ Places(pending) \in Seq(Place) /\ Places(carry) \in Seq(Place)
           /\ Places(read) \in Seq(Place) /\ HeldPlaces \in Seq(Place)
           /\ carry \in Seq(Piece) /\ pending \in Seq(Piece) /\ read \in Seq(Piece)
           /\ mode.stream => jsonBuf = <<>> /\ Consists(HeldPlaces, Places(pending), Places(carry))
           /\ ~mode.stream => Consists(HeldPlaces, Places(jsonBuf), Places(carry))
<1> DEFINE z == <<>>
<1>1. carry \in Seq(Piece) /\ pending \in Seq(Piece) /\ read \in Seq(Piece) /\ jsonBuf \in Seq(Piece) /\ z \in Seq(Piece)
  BY SeqMonotonic, EmptySeq DEF Held, Backed, OpenPlain, Plain
<1>2. /\ Places(jsonBuf) \in Seq(Place) /\ Places(pending) \in Seq(Place) /\ Places(carry) \in Seq(Place)
      /\ Places(read) \in Seq(Place) /\ Places(z) = z
  BY <1>1, PlacesConcat
<1> DEFINE J == Places(jsonBuf)
           P == Places(pending)
           C == Places(carry)
<1>3. HeldPlaces = J \o (P \o C)
  BY DEF HeldPlaces
<1>4. mode.stream => jsonBuf = z /\ J = z
  BY <1>2 DEF Held
<1>5. ~mode.stream => P = z
  BY <1>2 DEF Held
<1> HIDE DEF J, P, C
<1>6. J \in Seq(Place) /\ P \in Seq(Place) /\ C \in Seq(Place)
  BY <1>2 DEF J, P, C
<1>7. P \o C \in Seq(Place)
  BY <1>6, ConcatProperties
<1>8. J \o (P \o C) \in Seq(Place)
  BY <1>6, <1>7, ConcatProperties
<1>9. mode.stream => J \o (P \o C) = P \o C
  BY <1>4, <1>7, ConcatEmptySeq
<1>10. ~mode.stream => J \o (P \o C) = J \o C
  BY <1>5, <1>6, ConcatEmptySeq
<1> QED BY <1>1, <1>2, <1>3, <1>4, <1>8, <1>9, <1>10 DEF Consists, J, P, C

\* Without a stream every item is clean.
LEMMA BodyClean ==
    ASSUME ~mode.stream
    PROVE  CleanItems = Items
BY DEF CleanItems, Clean

\* Nothing comes before the items of a write.
LEMMA NothingBefore ==
    ASSUME NEW s \in Seq(Items)
    PROVE  <<>> \o s = s
BY ConcatEmptySeq

\* A read's pieces go down the chain: what goes to the client and what is held
\* back afterwards is what was held back before and what was read.
LEMMA ChunkFlows ==
    ASSUME Held, NEW chunk \in Chunks, read' = read \o chunk, UNCHANGED mode,
           Push(chunk, pending, jsonBuf, pass)
    PROVE  /\ Held' /\ queue' \in Seq(CleanItems)
           /\ Conveys(PlacesOf(queue'), HeldPlaces', HeldPlaces, Places(chunk))
<1> DEFINE mw == ModelWrite(chunk)
           rl == RelayWrite(pending, mw.out)
           tw == TranslateWrite(rl.frames, jsonBuf, pass)
<1>1. /\ read \in Seq(Backed) /\ carry \in Seq(Backed) /\ HeldName(carry, read)
      /\ pending \in Seq(OpenPlain) /\ jsonBuf \in Seq(Piece)
      /\ Buffers(jsonBuf, pass) /\ (mode.stream => jsonBuf = <<>>)
      /\ ~mode.stream => pending = <<>>
  BY DEF Held
<1>2. carry \in Seq(Piece) /\ chunk \in Seq(Piece) /\ pending \in Seq(Piece)
  BY HeldPlacesAre, ChunkTyped
<1>3. Readable(carry \o chunk, read \o chunk)
  BY <1>1, ChunkReadable
<1>4. /\ mw.out \in Seq(Plain) /\ mw.carry \in Seq(Backed) /\ HeldName(mw.carry, read \o chunk)
      /\ Consists(Places(carry \o chunk), Places(mw.out), Places(mw.carry))
  <2> HIDE DEF mw
  <2> QED BY <1>1, <1>2, <1>3, ChunkRenamed DEF mw
<1>5. read \o chunk \in Seq(Backed)
  BY <1>3 DEF Readable
<1>6. /\ carry' = mw.carry /\ pending' = rl.pending /\ jsonBuf' = tw.jsonBuf /\ pass' = tw.pass
      /\ queue' = (IF pass /\ jsonBuf # <<>> THEN <<Item(jsonBuf, FALSE)>> ELSE <<>>) \o tw.items
  BY DEF Push
<1> HIDE DEF mw
<1>7. mw.out \in Seq(Piece) /\ mw.carry \in Seq(Piece)
  BY <1>4, SeqMonotonic DEF Plain, Backed
<1>8. Conveys(Places(carry), Places(chunk), Places(mw.out), Places(mw.carry))
  <2>1. PlacesSplit(carry, chunk)
    BY <1>2, PlacesConcat
  <2> QED BY <1>4, <2>1 DEF PlacesSplit, Consists, Conveys
<1>9. /\ Places(carry) \in Seq(Place) /\ Places(chunk) \in Seq(Place) /\ Places(mw.out) \in Seq(Place)
      /\ Places(mw.carry) \in Seq(Place) /\ Places(pending) \in Seq(Place) /\ Places(jsonBuf) \in Seq(Place)
  BY <1>1, <1>2, <1>7, PlacesConcat
<1>10. HeldPlaces' = Places(jsonBuf') \o (Places(pending') \o Places(carry'))
  BY DEF HeldPlaces
<1>11. CASE mode.stream
  <2> DEFINE buf == pending \o mw.out
  <2>1. jsonBuf = <<>>
    BY <1>1, <1>11
  <2>2. /\ rl.pending \in Seq(OpenPlain) /\ tw.items \in Seq(CleanItems)
        /\ tw.jsonBuf = <<>> /\ tw.pass = pass
        /\ Consists(Places(buf), PlacesOf(tw.items), Places(rl.pending))
    <3>1. /\ buf = pending \o mw.out /\ rl = RelayWrite(pending, mw.out)
          /\ tw = TranslateWrite(rl.frames, <<>>, pass)
      BY <2>1
    <3> HIDE DEF buf, rl, tw
    <3>2. /\ rl.pending \in Seq(OpenPlain) /\ tw.items \in Seq(CleanItems) /\ Streams(tw, pass)
          /\ Consists(Places(buf), PlacesOf(tw.items), Places(rl.pending))
      BY <1>1, <1>4, <1>11, <3>1, StreamWritten
    <3> QED BY <3>2 DEF Streams
  <2>3. PlacesSplit(pending, mw.out)
    BY <1>2, <1>7, PlacesConcat
  <2>4. Conveys(PlacesOf(tw.items), Places(rl.pending), Places(pending), Places(mw.out))
    BY <2>2, <2>3 DEF Conveys, Consists, PlacesSplit
  <2> HIDE DEF rl, tw
  <2>5. tw.items \in Seq(Items) /\ rl.pending \in Seq(Piece)
    BY <2>2, SeqMonotonic DEF CleanItems, OpenPlain, Plain
  <2>6. PlacesOf(tw.items) \in Seq(Place) /\ Places(rl.pending) \in Seq(Place)
    BY <2>5, ItemsConcat, PlacesConcat
  <2>7. Conveys(PlacesOf(tw.items), Places(rl.pending) \o Places(mw.carry),
                Places(pending) \o Places(carry), Places(chunk))
    BY <1>8, <1>9, <2>4, <2>6, Chained
  <2>8. queue' = tw.items
    BY <1>6, <2>1, <2>5, NothingBefore
  <2>9. Held'
    <3>1. Buffers(jsonBuf, pass)'
      BY <1>6, <2>2 DEF Buffers
    <3> QED BY <1>4, <1>5, <1>6, <1>11, <2>2, <3>1 DEF Held
  <2>10. Consists(HeldPlaces, Places(pending), Places(carry))
    BY <1>11, HeldPlacesAre
  <2>11. HeldPlaces' = Places(rl.pending) \o Places(mw.carry)
    <3> DEFINE s == Places(rl.pending) \o Places(mw.carry)
               z == <<>>
    <3>1. s \in Seq(Place) /\ Places(z) = z
      BY <1>1, <1>9, <2>6, ConcatProperties, PlacesConcat
    <3>2. HeldPlaces' = Places(z) \o s
      BY <1>6, <1>10, <2>2
    <3> HIDE DEF s
    <3>3. z \o s = s
      BY <3>1, ConcatEmptySeq
    <3> QED BY <3>1, <3>2, <3>3 DEF s
  <2> QED BY <2>2, <2>7, <2>8, <2>9, <2>10, <2>11 DEF Consists
<1>12. CASE ~mode.stream
  <2>1. pending = <<>>
    BY <1>1, <1>12
  <2>2. /\ rl.pending = pending /\ tw.items \in Seq(Items) /\ tw.jsonBuf \in Seq(Piece)
        /\ Buffers(tw.jsonBuf, tw.pass)
        /\ Conveys(PlacesOf(tw.items), Places(tw.jsonBuf), Places(jsonBuf), Places(mw.out))
    <3>1. rl = RelayWrite(pending, mw.out) /\ tw = TranslateWrite(rl.frames, jsonBuf, pass)
      OBVIOUS
    <3> HIDE DEF rl, tw
    <3> QED BY <1>1, <1>7, <1>12, <3>1, BodyWritten
  <2> HIDE DEF rl, tw
  <2>3. PlacesOf(tw.items) \in Seq(Place) /\ Places(tw.jsonBuf) \in Seq(Place)
    BY <2>2, ItemsConcat, PlacesConcat
  <2>4. Conveys(PlacesOf(tw.items), Places(tw.jsonBuf) \o Places(mw.carry),
                Places(jsonBuf) \o Places(carry), Places(chunk))
    BY <1>8, <1>9, <2>2, <2>3, Chained
  <2>5. queue' = tw.items
    <3>1. queue' = <<>> \o tw.items
      BY <1>1, <1>6 DEF Buffers
    <3> QED BY <2>2, <3>1, NothingBefore
  <2>6. Held'
    <3>1. Buffers(jsonBuf, pass)'
      BY <1>6, <2>2 DEF Buffers
    <3> QED BY <1>1, <1>4, <1>5, <1>6, <1>12, <2>1, <2>2, <3>1 DEF Held
  <2>7. Consists(HeldPlaces, Places(jsonBuf), Places(carry))
    BY <1>12, HeldPlacesAre
  <2>8. HeldPlaces' = Places(tw.jsonBuf) \o Places(mw.carry)
    <3> DEFINE s == Places(mw.carry)
               z == <<>>
    <3>1. s \in Seq(Place) /\ Places(z) = z
      BY <1>1, <1>9, PlacesConcat
    <3>2. HeldPlaces' = Places(tw.jsonBuf) \o (Places(z) \o s)
      BY <1>6, <1>10, <2>1, <2>2
    <3> HIDE DEF s
    <3>3. z \o s = s
      BY <3>1, ConcatEmptySeq
    <3> QED BY <3>1, <3>2, <3>3 DEF s
  <2> QED BY <1>12, <2>2, <2>4, <2>5, <2>6, <2>7, <2>8, BodyClean DEF Consists
<1> QED BY <1>11, <1>12

\* The translator has stopped translating.
Passes(passing) == passing <=> mode.translate \/ pass

\* The router's error frame goes down the chain: everything held back goes out
\* before it, or the translator puts its error in their place.
LEMMA ErrorFlows ==
    ASSUME Held, read' \in Seq(Backed), UNCHANGED mode, NEW buffered, NEW passing,
           Push(<<ErrorCell>>, pending, buffered, passing), buffered = <<>>,
           ~mode.stream => Passes(passing)
    PROVE  Held' /\ queue' \in Seq(CleanItems) /\ PlacesOf(queue') \in {HeldPlaces, <<>>}
<1> DEFINE mw == ModelWrite(<<ErrorCell>>)
           rl == RelayWrite(pending, mw.out)
           tw == TranslateWrite(rl.frames, <<>>, passing)
           before == IF passing /\ jsonBuf # <<>> THEN <<Item(jsonBuf, FALSE)>> ELSE <<>>
<1>1. /\ carry \in Seq(Backed) /\ HeldName(carry, read)
      /\ pending \in Seq(OpenPlain) /\ jsonBuf \in Seq(Piece)
      /\ Buffers(jsonBuf, pass) /\ (mode.stream => jsonBuf = <<>>)
      /\ ~mode.stream => pending = <<>>
  BY DEF Held
<1>2. carry \in Seq(Piece) /\ pending \in Seq(Piece) /\ ErrorCell \in Piece
  BY HeldPlacesAre, OwnItems
<1>3. /\ mw.carry = <<>>
      /\ \E open \in Seq(Unended) : mw.out = Append(open, ErrorCell) /\ Places(open) = Places(carry)
  <2> HIDE DEF mw
  <2> QED BY <1>1, ErrorRenamed DEF mw
<1>4. PICK open \in Seq(Unended) : mw.out = Append(open, ErrorCell) /\ Places(open) = Places(carry)
  BY <1>3
<1>5. /\ carry' = mw.carry /\ pending' = rl.pending /\ jsonBuf' = tw.jsonBuf /\ pass' = tw.pass
      /\ queue' = before \o tw.items
  BY DEF Push
<1> HIDE DEF mw
<1>6. open \in Seq(Piece)
  BY SeqMonotonic DEF Unended
<1>7. <<>> \in Seq(Backed) /\ <<>> \in Seq(OpenPlain) /\ <<>> \in Seq(Piece) /\ HeldName(<<>>, read')
  BY EmptySeq DEF HeldName
<1>8. CASE mode.stream
  <2> DEFINE open2 == pending \o open
  <2>1. pending \in Seq(Unended)
    BY <1>1, SeqMonotonic DEF OpenPlain, Plain, Unended
  <2>2. open2 \in Seq(Unended) /\ pending \o mw.out = Append(open2, ErrorCell)
    <3>1. open2 \in Seq(Unended)
      BY <2>1, ConcatProperties
    <3>2. pending \o Append(open, ErrorCell) = Append(pending \o open, ErrorCell)
      BY <1>2, <1>6, ConcatAppend
    <3> QED BY <1>4, <3>1, <3>2
  <2>3. Places(open2) = HeldPlaces
    <3>1. PlacesSplit(pending, open) /\ Consists(HeldPlaces, Places(pending), Places(carry))
      BY <1>2, <1>6, <1>8, PlacesConcat, HeldPlacesAre
    <3> QED BY <1>4, <3>1 DEF PlacesSplit, Consists
  <2>4. /\ rl.pending = <<>> /\ tw.items \in Seq(CleanItems)
        /\ tw.jsonBuf = <<>> /\ tw.pass = passing
        /\ PlacesOf(tw.items) \in {Places(open2), <<>>}
    <3>1. rl = RelayWrite(pending, mw.out) /\ tw = TranslateWrite(rl.frames, <<>>, passing)
      OBVIOUS
    <3> HIDE DEF open2, rl, tw
    <3>2. /\ rl.pending = <<>> /\ tw.items \in Seq(CleanItems) /\ Streams(tw, passing)
          /\ PlacesOf(tw.items) \in {Places(open2), <<>>}
      BY <1>8, <2>2, <3>1, ErrorWritten
    <3> QED BY <3>2 DEF Streams
  <2> HIDE DEF rl, tw, open2
  <2>5. tw.items \in Seq(Items)
    BY <2>4, SeqMonotonic DEF CleanItems
  <2>6. queue' = tw.items
    BY <1>1, <1>5, <1>8, <2>5, NothingBefore
  <2>7. Held'
    <3>1. Buffers(jsonBuf, pass)'
      BY <1>5, <2>4 DEF Buffers
    <3> QED BY <1>3, <1>5, <1>7, <1>8, <2>4, <3>1 DEF Held
  <2> QED BY <2>3, <2>4, <2>6, <2>7
<1>9. CASE ~mode.stream
  <2> DEFINE out == mw.out
             x == Item(out, FALSE)
             y == Item(jsonBuf, FALSE)
  <2>1. out \in Frame /\ Places(out) = Places(carry)
    <3>1. out \in Seq(Piece) /\ out # <<>>
      <4>1. Append(open, ErrorCell) \in Seq(Piece) /\ Append(open, ErrorCell) # <<>>
        BY <1>2, <1>6, AppendProperties
      <4> QED BY <1>4, <4>1
    <3>2. PlacesAdd(open, ErrorCell) /\ PlaceIn(ErrorCell) = <<>> /\ Places(open) \in Seq(Place)
      BY <1>2, <1>6, PlacesGrow, PlacesConcat DEF PlaceIn, ErrorCell
    <3>3. Places(out) = Places(open)
      BY <1>4, <3>2, ConcatEmptySeq DEF PlacesAdd
    <3> QED BY <1>4, <3>1, <3>3 DEF Frame
  <2>2. rl.frames = <<out>> /\ rl.pending = pending
    BY <1>9, <2>1 DEF RelayWrite, Frame
  <2> HIDE DEF out, rl
  <2>3. tw.items = <<x>> /\ tw.jsonBuf = <<>> /\ tw.pass = passing
    <3>1. ~mode.translate \/ passing
      BY <1>9 DEF Passes
    <3>2. TranslateWrite(<<out>>, <<>>, passing) = [items |-> Native(<<out>>), jsonBuf |-> <<>>, pass |-> passing]
      BY <3>1 DEF TranslateWrite, Native
    <3>3. Native(<<out>>) = <<x>>
      BY NativeOne
    <3>4. tw = TranslateWrite(<<out>>, <<>>, passing)
      BY <2>2
    <3> HIDE DEF x, tw
    <3>5. tw = [items |-> <<x>>, jsonBuf |-> <<>>, pass |-> passing]
      BY <3>2, <3>3, <3>4
    <3>6. tw.items = <<x>>
      BY <3>5
    <3>7. tw.jsonBuf = <<>>
      BY <3>5
    <3>8. tw.pass = passing
      BY <3>5
    <3> QED BY <3>6, <3>7, <3>8
  <2> HIDE DEF tw
  <2>4. x \in Items /\ PlacesOf(<<x>>) = Places(carry)
    BY <2>1, ItemOf
  <2>5. before = IF jsonBuf # <<>> THEN <<y>> ELSE <<>>
    BY <1>1, <1>9 DEF Buffers, Passes
  <2>6. jsonBuf # <<>> => y \in Items /\ PlacesOf(<<y>>) = Places(jsonBuf)
    BY <1>1, ItemOf DEF Frame
  <2> HIDE DEF x, y, before
  <2>7. before \in Seq(Items) /\ <<x>> \in Seq(Items) /\ PlacesOf(before) = Places(jsonBuf)
    <3> DEFINE z == <<>>
    <3>1. z \in Seq(Items) /\ z \in Seq(Piece)
      BY EmptySeq
    <3>2. PlacesOf(z) = z /\ Places(z) = z
      BY <3>1, ItemsConcat, PlacesConcat
    <3>3. CASE jsonBuf = z
      BY <2>4, <2>5, <3>1, <3>2, <3>3
    <3>4. CASE jsonBuf # z
      BY <2>4, <2>5, <2>6, <3>4
    <3> QED BY <3>3, <3>4
  <2>8. queue' = before \o <<x>> /\ queue' \in Seq(Items) /\ ItemsSplit(before, <<x>>)
    BY <1>5, <2>3, <2>7, ConcatProperties, ItemsConcat
  <2>9. PlacesOf(queue') = HeldPlaces
    <3>1. Consists(HeldPlaces, Places(jsonBuf), Places(carry))
      BY <1>9, HeldPlacesAre
    <3> QED BY <2>4, <2>7, <2>8, <3>1 DEF ItemsSplit, Consists
  <2>10. Held'
    <3>1. Buffers(jsonBuf, pass)'
      BY <1>5, <2>3 DEF Buffers
    <3> QED BY <1>1, <1>3, <1>5, <1>7, <1>9, <2>2, <2>3, <3>1 DEF Held
  <2> QED BY <1>9, <2>8, <2>9, <2>10, BodyClean
<1> QED BY <1>8, <1>9

\* Somebody who reads these items is told that the answer failed.
ToldBy(items) == \E i \in DOMAIN items : Last(items[i].cells).text = "error"

\* The router's own items are clean and come from nowhere in the answer.
LEMMA OwnClean ==
    ASSUME NEW x \in {ErrorItem, Item(<<ClosingCell>>, TRUE)}
    PROVE  x \in CleanItems /\ x \in Items /\ <<x>> \in Seq(CleanItems) /\ PlacesOf(<<x>>) = <<>>
<1>1. /\ ErrorCell \in Piece /\ ErrorCell.text = "error" /\ PlaceIn(ErrorCell) = <<>>
      /\ ClosingCell \in Piece /\ ClosingCell.text = "closing" /\ ~ClosingCell.raw /\ PlaceIn(ClosingCell) = <<>>
  BY OwnItems DEF ErrorCell, ClosingCell, PlaceIn
<1>2. Places(<<ErrorCell>>) = <<>> /\ Places(<<ClosingCell>>) = <<>>
  BY <1>1, PlacesConcatOne
<1>3. /\ <<ErrorCell>> \in Frame /\ Last(<<ErrorCell>>) = ErrorCell
      /\ <<ClosingCell>> \in Frame
  BY <1>1, FrameGrows
<1>4. ErrorItem \in CleanItems /\ PlacesOf(<<ErrorItem>>) = <<>>
  BY <1>1, <1>2, <1>3, ItemOf DEF ErrorItem
<1>5. Item(<<ClosingCell>>, TRUE) \in CleanItems /\ PlacesOf(<<Item(<<ClosingCell>>, TRUE)>>) = <<>>
  <2> DEFINE f == <<ClosingCell>>
  <2>1. f \in Seq(Plain)
    <3>1. ClosingCell \in Plain
      BY <1>1 DEF Plain
    <3> QED BY <3>1
  <2>2. ~isUsageArtifact(f)
    <3>1. 1 \in DOMAIN f /\ f[1] = ClosingCell
      OBVIOUS
    <3> HIDE DEF f
    <3> QED BY <1>1, <3>1 DEF isUsageArtifact
  <2> HIDE DEF f
  <2>3. f \in Frame /\ Places(f) = <<>>
    BY <1>2, <1>3 DEF f
  <2>4. Item(f, TRUE) \in CleanItems /\ PlacesOf(<<Item(f, TRUE)>>) = <<>>
    BY <2>1, <2>2, <2>3, ItemOf
  <2> QED BY <2>4 DEF f
<1>6. x \in CleanItems /\ PlacesOf(<<x>>) = <<>>
  BY <1>4, <1>5
<1>7. x \in Items /\ <<x>> \in Seq(CleanItems)
  BY <1>6 DEF CleanItems
<1> QED BY <1>6, <1>7

\* The pieces that the backend may leave without an end.
Left == {c \in Unended : c.text # "error"}

\* What becomes of the pieces that end no frame when the answer ends.
LEMMA TailClean ==
    ASSUME NEW tail \in Seq(Left), tail # <<>>
    PROVE  /\ <<Item(tail, FALSE)>> \in Seq(CleanItems) /\ PlacesOf(<<Item(tail, FALSE)>>) = Places(tail)
           /\ TranslateFrame(tail) \in Seq(CleanItems) /\ PlacesOf(TranslateFrame(tail)) = Places(tail)
<1>1. tail \in Frame /\ ~Terminated(tail) /\ Last(tail).text # "error"
  <2>1. tail \in Seq(Piece)
    BY SeqMonotonic DEF Left, Unended
  <2>2. Last(tail) \in Left
    BY Ending
  <2> QED BY <2>1, <2>2 DEF Left, Unended, Frame, Terminated
<1>2. ASSUME NEW b \in BOOLEAN
      PROVE  <<Item(tail, b)>> \in Seq(CleanItems) /\ PlacesOf(<<Item(tail, b)>>) = Places(tail)
  <2> DEFINE x == Item(tail, b)
  <2>1. x \in CleanItems /\ PlacesOf(<<x>>) = Places(tail)
    BY <1>1, ItemOf
  <2> HIDE DEF x
  <2>2. <<x>> \in Seq(CleanItems)
    BY <2>1
  <2> QED BY <2>1, <2>2 DEF x
<1>3. TranslateFrame(tail) \in Seq(CleanItems) /\ PlacesOf(TranslateFrame(tail)) = Places(tail)
  <2>1. CASE isUsageArtifact(tail)
    <3> DEFINE z == <<>>
    <3>1. TranslateFrame(tail) = z
      BY <1>1, <2>1 DEF TranslateFrame
    <3>2. z \in Seq(Items) /\ z \in Seq(CleanItems)
      BY EmptySeq
    <3>3. PlacesOf(z) = <<>> /\ Places(tail) = <<>>
      BY <1>1, <2>1, <3>2, ItemsConcat, UsageNowhere DEF Frame
    <3> QED BY <3>1, <3>2, <3>3
  <2>2. CASE ~isUsageArtifact(tail)
    <3>1. TranslateFrame(tail) = <<Item(tail, TRUE)>>
      BY <1>1, <2>2 DEF TranslateFrame
    <3>2. <<Item(tail, TRUE)>> \in Seq(CleanItems) /\ PlacesOf(<<Item(tail, TRUE)>>) = Places(tail)
      BY <1>2
    <3> QED BY <3>1, <3>2
  <2> QED BY <2>1, <2>2
<1> QED BY <1>2, <1>3

\* The relay holds everything back.
Waits(rl, buf) == rl.frames = <<>> /\ rl.pending = buf

\* Pieces that end no frame make none.
LEMMA NoFrameYet ==
    ASSUME mode.stream, NEW buf \in Seq(Unended), NEW held, NEW cells, buf = held \o cells,
           NEW rl, rl = RelayWrite(held, cells)
    PROVE  Waits(rl, buf)
<1> DEFINE z == <<>>
<1>1. buf \in Seq(Piece) /\ z \in Seq(Piece) /\ z \in Seq(Closed)
  BY SeqMonotonic, EmptySeq DEF Unended
<1>2. LastEnd(buf) = 0
  <2> DEFINE k == LastEnd(buf)
  <2>1. k \in 0 .. Len(buf) /\ (k # 0 => Ends(buf[k]))
    BY <1>1, LastEndIs
  <2> HIDE DEF k
  <2>2. k # 0 => k \in 1 .. Len(buf)
    BY <1>1, <2>1, LenProperties
  <2>3. k # 0 => ~Ends(buf[k])
    BY <2>2, ElementOfSeq DEF Unended
  <2>4. k = 0
    BY <2>1, <2>3
  <2> QED BY <2>4 DEF k
<1>3. FirstN(buf, 0) = z
  <2>1. SubSeq(buf, 1, 0) = z
    BY SubSeqEmpty
  <2> QED BY <2>1 DEF FirstN
<1>4. LastN(buf, Len(buf) - 0) = buf
  <2> DEFINE n == Len(buf)
  <2>1. n \in Nat
    BY <1>1, LenProperties
  <2> HIDE DEF n
  <2>2. n - (n - 0) + 1 = 1
    BY <2>1
  <2>3. SubSeq(buf, 1, Len(buf)) = buf
    BY <1>1, SubSeqFull
  <2> QED BY <2>2, <2>3 DEF LastN, n
<1>5. Frames(z) = z /\ Stripped[z] = z
  BY <1>1, FramesGrow, StripGrows
<1>6. CompleteFrames(buf) = z /\ Incomplete(buf) = buf
  BY <1>2, <1>3, <1>4, <1>5 DEF CompleteFrames, Incomplete
<1> HIDE DEF z
<1>7. rl.frames = z /\ rl.pending = buf
  BY <1>5, <1>6 DEF RelayWrite
<1> QED BY <1>7 DEF z, Waits

\* finish: what was held back goes out, or the client is told of the failure.
LEMMA FinishFlows ==
    ASSUME Held, NEW ok \in BOOLEAN, NEW q, q = FinishStream(ok)
    PROVE  q \in Seq(CleanItems) /\ PlacesOf(q) \in {HeldPlaces, <<>>} /\ (PlacesOf(q) = HeldPlaces \/ ToldBy(q))
<1> DEFINE rl == RelayWrite(pending, carry)
           tail == rl.pending
           body == TranslateWrite(rl.frames, jsonBuf, pass)
           started == client # <<>> \/ body.items # <<>>
           z == <<>>
           error == <<ErrorItem>>
           closing == <<Item(<<ClosingCell>>, TRUE)>>
           rest == <<Item(body.jsonBuf, ok)>>
           native == <<Item(tail, FALSE)>>
           ends == IF ~mode.stream \/ tail = z THEN z
                   ELSE IF ~mode.translate \/ pass THEN native
                   ELSE IF ok THEN TranslateFrame(tail) ELSE error
           closes == IF ~mode.translate \/ body.pass THEN z
                     ELSE IF ~mode.stream
                     THEN IF body.jsonBuf = z THEN z ELSE rest
                     ELSE IF ~(started \/ ends # z) \/ (tail # z /\ ~ok) THEN z
                     ELSE closing
<1>1. q = body.items \o ends \o closes
  BY DEF FinishStream, FinishFrames
<1>2. /\ carry \in Seq(Backed) /\ HeldName(carry, read)
      /\ pending \in Seq(OpenPlain) /\ jsonBuf \in Seq(Piece)
      /\ Buffers(jsonBuf, pass) /\ (mode.stream => jsonBuf = z) /\ (~mode.stream => pending = z)
  BY DEF Held
<1>3. /\ carry \in Seq(Piece) /\ pending \in Seq(Piece) /\ HeldPlaces \in Seq(Place)
  BY HeldPlacesAre
<1>4. z \in Seq(Items) /\ z \in Seq(CleanItems) /\ z \in Seq(Piece) /\ z \in Seq(Closed)
  BY EmptySeq
<1>5. PlacesOf(z) = z /\ Places(z) = z
  BY <1>4, ItemsConcat, PlacesConcat
<1>e. \A s \in Seq(Place) : s \o z = s /\ z \o s = s
  BY ConcatEmptySeq
<1>6. CASE mode.stream
  <2> DEFINE buf == pending \o carry
  <2>1. buf \in Seq(Left) /\ buf \in Seq(Unended)
    <3>1. pending \in Seq(Left)
      BY <1>2, SeqMonotonic DEF OpenPlain, Plain, Unended, Left
    <3>2. carry \in Seq(Left)
      <4>1. CASE carry = z
        BY <4>1, EmptySeq
      <4>2. CASE carry # z
        <5>1. PICK c \in Backed : carry = <<c>> /\ c.part = "mhead"
          BY <1>2, <4>2 DEF HeldName
        <5>2. c \in Left
          BY <5>1, StreamAssumption DEF Left, Unended, Backed, Ends
        <5>3. <<c>> \in Seq(Left)
          BY <5>2
        <5> QED BY <5>1, <5>3
      <4> QED BY <4>1, <4>2
    <3>3. buf \in Seq(Left)
      BY <3>1, <3>2, ConcatProperties
    <3> QED BY <3>3, SeqMonotonic DEF Left
  <2>2. rl.frames = z /\ tail = buf
    <3>1. rl = RelayWrite(pending, carry) /\ buf = pending \o carry
      OBVIOUS
    <3> HIDE DEF rl, buf
    <3>2. Waits(rl, buf)
      BY <1>6, <2>1, <3>1, NoFrameYet
    <3> QED BY <3>2 DEF Waits
  <2>3. Places(buf) = HeldPlaces
    <3>1. PlacesSplit(pending, carry) /\ Consists(HeldPlaces, Places(pending), Places(carry))
      BY <1>3, <1>6, PlacesConcat, HeldPlacesAre
    <3> QED BY <3>1 DEF PlacesSplit, Consists
  <2>4. body.items = z
    <3>1. Translated(z) = z
      BY <1>4, TranslatedGrow
    <3>2. [i \in DOMAIN z |-> Item(z[i], FALSE)] = z
      OBVIOUS
    <3>3. body = TranslateWrite(z, z, pass)
      BY <1>2, <1>6, <2>2
    <3> HIDE DEF body
    <3> QED BY <1>6, <3>1, <3>2, <3>3 DEF TranslateWrite
  <2> HIDE DEF rl, buf, body
  <2>5. ends \in Seq(CleanItems) /\ (PlacesOf(ends) = HeldPlaces \/ ends = error)
    <3>1. CASE tail = z
      <4>1. ends = z /\ HeldPlaces = z
        BY <1>5, <2>2, <2>3, <3>1
      <4> QED BY <1>4, <1>5, <4>1
    <3>2. CASE tail # z
      <4>1. /\ native \in Seq(CleanItems) /\ PlacesOf(native) = HeldPlaces
            /\ TranslateFrame(tail) \in Seq(CleanItems) /\ PlacesOf(TranslateFrame(tail)) = HeldPlaces
        <5> HIDE DEF tail
        <5> QED BY <2>1, <2>2, <2>3, <3>2, TailClean
      <4>2. error \in Seq(CleanItems)
        BY OwnClean
      <4>3. ends \in {native, TranslateFrame(tail), error}
        BY <1>6, <3>2
      <4> HIDE DEF native, error, ends
      <4> QED BY <4>1, <4>2, <4>3
    <3> QED BY <3>1, <3>2
  <2>6. closes \in Seq(CleanItems) /\ PlacesOf(closes) = z
    <3>1. closing \in Seq(CleanItems) /\ PlacesOf(closing) = z
      BY OwnClean
    <3>2. closes \in {z, closing}
      BY <1>6
    <3> HIDE DEF closes, closing
    <3> QED BY <1>4, <1>5, <3>1, <3>2
  <2> HIDE DEF ends, closes
  <2>7. ends \in Seq(Items) /\ closes \in Seq(Items)
    BY <2>5, <2>6, SeqMonotonic DEF CleanItems
  <2>8. q = ends \o closes
    <3>1. z \o ends = ends
      BY <2>7, NothingBefore
    <3> QED BY <1>1, <2>4, <3>1
  <2>9. q \in Seq(CleanItems)
    BY <2>5, <2>6, <2>8, ConcatProperties
  <2>10. PlacesOf(q) = PlacesOf(ends)
    <3>1. ItemsSplit(ends, closes) /\ PlacesOf(ends) \in Seq(Place)
      BY <2>7, ItemsConcat
    <3> QED BY <1>e, <2>6, <2>8, <3>1 DEF ItemsSplit
  <2>11. ASSUME ends = error PROVE PlacesOf(ends) = z /\ ToldBy(q)
    <3>1. PlacesOf(error) = z
      BY OwnClean
    <3>2. ends \in Seq(Items) /\ Len(ends) = 1 /\ ends[1] = ErrorItem
      BY <2>7, <2>11
    <3>3. Len(q) = 1 + Len(closes) /\ q[1] = ErrorItem /\ 1 \in DOMAIN q
      <4>1. /\ q \in Seq(Items) /\ Len(q) = Len(ends) + Len(closes)
            /\ \A i \in 1 .. Len(ends) + Len(closes) : q[i] = IF i <= Len(ends) THEN ends[i] ELSE closes[i - Len(ends)]
        BY <2>7, <2>8, ConcatProperties
      <4>2. Len(closes) \in Nat /\ DOMAIN q = 1 .. Len(q)
        BY <2>7, <4>1, LenProperties
      <4> QED BY <3>2, <4>1, <4>2
    <3>4. Last(ErrorItem.cells).text = "error"
      BY DEF ErrorItem, Item, Last, ErrorCell
    <3> QED BY <2>11, <3>1, <3>3, <3>4 DEF ToldBy
  <2> QED BY <2>5, <2>9, <2>10, <2>11
<1>7. CASE ~mode.stream
  <2>1. /\ tail = pending /\ body.items \in Seq(Items) /\ body.jsonBuf \in Seq(Piece)
        /\ Buffers(body.jsonBuf, body.pass)
        /\ Conveys(PlacesOf(body.items), Places(body.jsonBuf), Places(jsonBuf), Places(carry))
    <3>1. rl = RelayWrite(pending, carry) /\ body = TranslateWrite(rl.frames, jsonBuf, pass)
      OBVIOUS
    <3> HIDE DEF rl, body
    <3> QED BY <1>2, <1>3, <1>7, <3>1, BodyWritten
  <2>2. ends = z
    BY <1>7
  <2> HIDE DEF rl, body
  <2>3. closes = IF body.jsonBuf = z THEN z ELSE rest
    BY <1>7, <2>1 DEF Buffers
  <2> HIDE DEF ends, closes, started
  <2>4. closes \in Seq(Items) /\ PlacesOf(closes) = Places(body.jsonBuf)
    <3>1. CASE body.jsonBuf = z
      BY <1>4, <1>5, <2>3, <3>1
    <3>2. CASE body.jsonBuf # z
      <4> DEFINE f == body.jsonBuf
                 x == Item(f, ok)
      <4>1. f \in Frame
        BY <2>1, <3>2 DEF Frame
      <4> HIDE DEF f
      <4>2. x \in Items /\ PlacesOf(<<x>>) = Places(f)
        BY <4>1, ItemOf
      <4>3. closes = <<x>>
        BY <2>3, <3>2 DEF f
      <4> HIDE DEF x
      <4>4. <<x>> \in Seq(Items)
        BY <4>2
      <4> QED BY <4>2, <4>3, <4>4 DEF f
    <3> QED BY <3>1, <3>2
  <2>5. q = body.items \o closes
    <3>1. body.items \o z = body.items
      BY <2>1, ConcatEmptySeq
    <3> QED BY <1>1, <2>2, <3>1
  <2>6. q \in Seq(CleanItems)
    <3>1. q \in Seq(Items)
      BY <2>1, <2>4, <2>5, ConcatProperties
    <3> QED BY <1>7, <3>1, BodyClean
  <2>7. PlacesOf(q) = HeldPlaces
    <3>1. ItemsSplit(body.items, closes) /\ Consists(HeldPlaces, Places(jsonBuf), Places(carry))
      BY <1>7, <2>1, <2>4, ItemsConcat, HeldPlacesAre
    <3> QED BY <2>1, <2>4, <2>5, <3>1 DEF ItemsSplit, Consists, Conveys
  <2> QED BY <2>6, <2>7
<1> QED BY <1>6, <1>7

-----------------------------------------------------------------------------
(* The loop detector.                                                      *)

Detector == [ring : Seq(Contents), hit : BOOLEAN]
Fresh(ring) == [ring |-> ring, hit |-> FALSE]
NoticeStep == [p \in Detector \X Contents |-> Notice(p[1], p[2])]

\* A run of Window identical texts.
Looped(s) == \E i \in Window .. Len(s) : \A j \in i - Window + 1 .. i : s[j] = s[i]

\* The ring holds the last Window texts.
Ring(r, s) ==
    /\ Len(r) = IF Len(s) < Window THEN Len(s) ELSE Window
    /\ \A k \in 1 .. Len(r) : r[k] = s[Len(s) - Len(r) + k]

\* The detector has seen these texts.
Detects(acc, s) == (acc.hit <=> Looped(s)) /\ (~acc.hit => Ring(acc.ring, s))

\* Positions in the ring and in the answer.
LEMMA RingShift ==
    ASSUME NEW n \in Nat, NEW w \in Nat \ {0}, n >= w, NEW k \in 1 .. w
    PROVE  /\ k = w => n + 1 - w + k = n + 1
           /\ k # w => k + 1 \in 1 .. w /\ n - w + (k + 1) \in 1 .. n /\ n - w + (k + 1) = n + 1 - w + k
OBVIOUS

\* The ring after one text more.
LEMMA RingKept ==
    ASSUME NEW ring \in Seq(Contents), NEW s \in Seq(Contents), NEW t \in Contents, Ring(ring, s),
           NEW r, r = Kept(Append(ring, t)), NEW s2, s2 = Append(s, t)
    PROVE  r \in Seq(Contents) /\ Ring(r, s2)
<1> DEFINE a == Append(ring, t)
           w == Window
           n == Len(s)
<1>1. /\ a \in Seq(Contents) /\ Len(a) = Len(ring) + 1 /\ a # <<>> /\ a[Len(ring) + 1] = t
      /\ \A i \in 1 .. Len(ring) : a[i] = ring[i]
      /\ s2 \in Seq(Contents) /\ Len(s2) = n + 1 /\ s2[n + 1] = t /\ \A i \in 1 .. n : s2[i] = s[i]
      /\ Len(ring) \in Nat /\ n \in Nat
  BY AppendProperties, LenProperties
<1>2. w \in Nat \ {0}
  BY StreamAssumption
<1>3. Len(ring) = (IF n < w THEN n ELSE w) /\ \A k \in 1 .. Len(ring) : ring[k] = s[n - Len(ring) + k]
  BY DEF Ring
<1>4. r = IF Len(a) > w THEN Tail(a) ELSE a
  BY DEF Kept
<1>5. Tail(a) \in Seq(Contents) /\ Len(Tail(a)) = Len(a) - 1 /\ \A i \in 1 .. Len(Tail(a)) : Tail(a)[i] = a[i + 1]
  <2>1. a \in Seq(Contents) /\ a # <<>>
    BY <1>1
  <2> HIDE DEF a
  <2> QED BY <2>1, HeadTailProperties
<1> HIDE DEF a, n
<1>6. r \in Seq(Contents)
  BY <1>1, <1>4, <1>5
<1>7. CASE n < w
  <2>1. Len(ring) = n /\ r = a /\ Len(r) = n + 1
    BY <1>1, <1>2, <1>3, <1>4, <1>7
  <2>2. Len(r) = IF Len(s2) < w THEN Len(s2) ELSE w
    BY <1>1, <1>2, <1>7, <2>1
  <2>3. ASSUME NEW k \in 1 .. Len(r) PROVE r[k] = s2[Len(s2) - Len(r) + k]
    <3>1. Len(s2) - Len(r) + k = k
      BY <1>1, <2>1
    <3>2. CASE k = n + 1
      BY <1>1, <2>1, <3>1, <3>2
    <3>3. CASE k # n + 1
      <4>1. k \in 1 .. n /\ n - Len(ring) + k = k
        BY <1>1, <2>1, <3>3
      <4> QED BY <1>1, <1>3, <2>1, <3>1, <4>1
    <3> QED BY <3>2, <3>3
  <2> QED BY <1>6, <2>2, <2>3 DEF Ring
<1>8. CASE ~(n < w)
  <2>1. Len(ring) = w /\ r = Tail(a) /\ Len(r) = w
    BY <1>1, <1>2, <1>3, <1>4, <1>5, <1>8
  <2>a. Len(s2) = n + 1 /\ n \in Nat /\ n >= w
    BY <1>1, <1>2, <1>8
  <2>b. Len(ring) = w /\ Len(r) = w
    BY <2>1
  <2>2. Len(r) = IF Len(s2) < w THEN Len(s2) ELSE w
    BY <1>1, <1>2, <1>8, <2>1
  <2>3. ASSUME NEW k \in 1 .. Len(r) PROVE r[k] = s2[Len(s2) - Len(r) + k]
    <3>1. k \in 1 .. Len(Tail(a)) /\ r[k] = a[k + 1]
      BY <1>5, <2>1
    <3>2. CASE k = w
      <4>1. k + 1 = Len(ring) + 1 /\ Len(s2) - Len(r) + k = n + 1
        <5>1. k \in 1 .. w /\ n + 1 - w + k = n + 1
          BY <1>2, <2>a, <2>b, <3>2
        <5> QED BY <2>a, <2>b, <3>2, <5>1
      <4> QED BY <1>1, <3>1, <4>1
    <3>3. CASE k # w
      <4>1. k + 1 \in 1 .. Len(ring) /\ n - Len(ring) + (k + 1) \in 1 .. n
            /\ n - Len(ring) + (k + 1) = Len(s2) - Len(r) + k
        <5>1. k \in 1 .. w
          BY <2>b
        <5>2. k + 1 \in 1 .. w /\ n - w + (k + 1) \in 1 .. n /\ n - w + (k + 1) = n + 1 - w + k
          BY <1>2, <2>a, <3>3, <5>1, RingShift
        <5> QED BY <2>a, <2>b, <5>2
      <4>2. a[k + 1] = ring[k + 1] /\ ring[k + 1] = s[n - Len(ring) + (k + 1)]
        BY <1>1, <1>3, <4>1
      <4>3. s2[n - Len(ring) + (k + 1)] = s[n - Len(ring) + (k + 1)]
        BY <1>1, <4>1
      <4> QED BY <3>1, <4>1, <4>2, <4>3
    <3> QED BY <3>2, <3>3
  <2> QED BY <1>6, <2>2, <2>3 DEF Ring
<1> QED BY <1>7, <1>8

\* A run that was not there before ends at the last text, and fills the ring.
LEMMA RunEnds ==
    ASSUME NEW s \in Seq(Contents), NEW t \in Contents, ~Looped(s), NEW s2, s2 = Append(s, t),
           NEW r \in Seq(Contents), Ring(r, s2)
    PROVE  allRecentIdentical(r) <=> Looped(s2)
<1> DEFINE w == Window
           n == Len(s2)
<1>1. s2 \in Seq(Contents) /\ n = Len(s) + 1 /\ Len(s) \in Nat /\ \A i \in 1 .. Len(s) : s2[i] = s[i]
  BY AppendProperties, LenProperties
<1>2. w \in Nat \ {0}
  BY StreamAssumption
<1>3. /\ Len(r) = IF n < w THEN n ELSE w
      /\ \A k \in 1 .. Len(r) : r[k] = s2[n - Len(r) + k]
  BY DEF Ring
<1>4. DOMAIN r = 1 .. Len(r)
  BY LenProperties
<1> HIDE DEF n
<1>5. ASSUME allRecentIdentical(r) PROVE Looped(s2)
  <2>1. Len(r) = w /\ \A i, j \in DOMAIN r : r[i] = r[j]
    BY <1>5 DEF allRecentIdentical
  <2>2. n \in w .. n
    BY <1>1, <1>2, <1>3, <2>1
  <2>3. ASSUME NEW j \in n - w + 1 .. n PROVE s2[j] = s2[n]
    <3>1. /\ j - (n - w) \in 1 .. w /\ w \in 1 .. w /\ n - w + (j - (n - w)) = j /\ n - w + w = n
      BY <1>1, <1>2, <2>2
    <3>2. r[j - (n - w)] = s2[j] /\ r[w] = s2[n]
      BY <1>3, <2>1, <3>1
    <3>3. r[j - (n - w)] = r[w]
      BY <1>4, <2>1, <3>1
    <3> QED BY <3>2, <3>3
  <2> QED BY <2>2, <2>3 DEF Looped, n
<1>6. ASSUME Looped(s2) PROVE allRecentIdentical(r)
  <2>1. PICK i \in w .. n : \A j \in i - w + 1 .. i : s2[j] = s2[i]
    BY <1>6 DEF Looped, n
  <2>2. i = n
    <3> SUFFICES ASSUME i # n PROVE FALSE
      OBVIOUS
    <3>1. i \in w .. Len(s)
      BY <1>1, <1>2
    <3>2. ASSUME NEW j \in i - w + 1 .. i PROVE s[j] = s[i]
      <4>1. j \in 1 .. Len(s) /\ i \in 1 .. Len(s)
        BY <1>1, <1>2, <3>1
      <4> QED BY <1>1, <2>1, <4>1
    <3> QED BY <3>1, <3>2 DEF Looped
  <2>3. Len(r) = w /\ n >= w
    BY <1>1, <1>2, <1>3, <2>1, <2>2
  <2>4. ASSUME NEW k \in 1 .. w PROVE r[k] = s2[n]
    <3>1. n - w + k \in n - w + 1 .. n
      BY <1>1, <1>2, <2>3
    <3> QED BY <1>3, <2>1, <2>2, <2>3, <3>1
  <2> QED BY <1>4, <2>3, <2>4 DEF allRecentIdentical
<1>7. allRecentIdentical(r) \in BOOLEAN
  BY DEF allRecentIdentical
<1> QED BY <1>5, <1>6, <1>7

\* A run stays a run when the answer goes on.
LEMMA RunStays ==
    ASSUME NEW s \in Seq(Contents), NEW t \in Contents, Looped(s)
    PROVE  Looped(Append(s, t))
<1> DEFINE s2 == Append(s, t)
<1>1. Len(s2) = Len(s) + 1 /\ Len(s) \in Nat /\ \A i \in 1 .. Len(s) : s2[i] = s[i]
  BY AppendProperties, LenProperties
<1>2. Window \in Nat \ {0}
  BY StreamAssumption
<1>3. PICK i \in Window .. Len(s) : \A j \in i - Window + 1 .. i : s[j] = s[i]
  BY DEF Looped
<1> HIDE DEF s2
<1>4. i \in Window .. Len(s2) /\ i \in 1 .. Len(s)
  BY <1>1, <1>2
<1>5. ASSUME NEW j \in i - Window + 1 .. i PROVE s2[j] = s2[i]
  <2>1. j \in 1 .. Len(s)
    BY <1>1, <1>2
  <2> QED BY <1>1, <1>3, <1>4, <2>1
<1> QED BY <1>4, <1>5 DEF Looped, s2

\* loopDetector.Write on one text.
LEMMA Noticed ==
    ASSUME NEW acc \in Detector, NEW t \in Contents
    PROVE  /\ Notice(acc, t) \in Detector
           /\ \A s \in Seq(Contents) : Detects(acc, s) => Detects(Notice(acc, t), Append(s, t))
<1> DEFINE r == Kept(Append(acc.ring, t))
           new == Notice(acc, t)
<1>1. acc.ring \in Seq(Contents) /\ acc.hit \in BOOLEAN
  BY DEF Detector
<1>2. new = IF acc.hit THEN acc ELSE [ring |-> r, hit |-> allRecentIdentical(r)]
  BY DEF Notice
<1>3. r \in Seq(Contents)
  <2> DEFINE a == Append(acc.ring, t)
  <2>1. a \in Seq(Contents) /\ a # <<>>
    BY <1>1, AppendProperties
  <2> HIDE DEF a
  <2>2. Tail(a) \in Seq(Contents)
    BY <2>1, HeadTailProperties
  <2>3. r = IF Len(a) > Window THEN Tail(a) ELSE a
    BY DEF Kept, a
  <2> QED BY <2>1, <2>2, <2>3
<1>4. allRecentIdentical(r) \in BOOLEAN
  BY DEF allRecentIdentical
<1>5. new \in Detector
  <2> HIDE DEF r
  <2> QED BY <1>2, <1>3, <1>4 DEF Detector
<1>6. ASSUME NEW s \in Seq(Contents), Detects(acc, s) PROVE Detects(new, Append(s, t))
  <2> DEFINE s2 == Append(s, t)
  <2>1. CASE acc.hit
    <3>1. Looped(s)
      BY <1>6, <2>1 DEF Detects
    <3>2. Looped(s2) /\ new = acc
      BY <1>2, <2>1, <3>1, RunStays
    <3> HIDE DEF new, s2
    <3> QED BY <2>1, <3>2 DEF Detects, s2
  <2>2. CASE ~acc.hit
    <3>1. ~Looped(s) /\ Ring(acc.ring, s)
      BY <1>6, <2>2 DEF Detects
    <3>2. r = Kept(Append(acc.ring, t)) /\ s2 = Append(s, t)
      OBVIOUS
    <3>3. new.ring = r /\ new.hit = allRecentIdentical(r)
      BY <1>2, <2>2
    <3> HIDE DEF new, s2, r
    <3>4. Ring(r, s2)
      BY <1>1, <3>1, <3>2, RingKept
    <3>5. allRecentIdentical(r) <=> Looped(s2)
      BY <1>3, <3>1, <3>2, <3>4, RunEnds
    <3> QED BY <3>3, <3>4, <3>5 DEF Detects, s2
  <2> QED BY <1>1, <2>1, <2>2
<1> QED BY <1>5, <1>6

\* The loop over the texts of a piece, as a function.
LEMMA NoticeSteps ==
    ASSUME NEW ring \in Seq(Contents), NEW w \in Seq(Contents)
    PROVE  /\ Foldable(w, Contents, Detector, Fresh(ring), NoticeStep)
           /\ \A s \in Detector, e \in Contents : NoticeStep[<<s, e>>] = Notice(s, e)
<1>1. Fresh(ring) \in Detector
  BY DEF Fresh, Detector
<1>2. \A s \in Detector, e \in Contents : Notice(s, e) \in Detector
  BY Noticed
<1>3. NoticeStep \in [Detector \X Contents -> Detector]
  BY <1>2 DEF NoticeStep
<1> QED BY <1>1, <1>3 DEF Foldable, NoticeStep

\* Observe folds the texts.
LEMMA ObserveFolded ==
    ASSUME NEW w \in Seq(Contents), NEW ring \in Seq(Contents)
    PROVE  Observe(ring, w) = LeftFold(w, Detector, Fresh(ring), NoticeStep)
<1> DEFINE g == PartsFold(w, Detector, Fresh(ring), NoticeStep)
           c == CHOOSE h : h = [R \in SUBSET DOMAIN w |->
                    IF R = {} THEN Fresh(ring) ELSE Notice(h[R \ {Max(R)}], w[Max(R)])]
<1>1. Observe(ring, w) = c[DOMAIN w]
  BY Zenon DEF Observe, Fresh, FoldLeft, MapThenFoldSet
<1>2. /\ Foldable(w, Contents, Detector, Fresh(ring), NoticeStep) /\ \A i \in DOMAIN w : w[i] \in Contents
      /\ \A s \in Detector, e \in Contents : NoticeStep[<<s, e>>] = Notice(s, e)
  BY NoticeSteps, LenProperties, ElementOfSeq
<1>3. IsLeftFold(g, w, Detector, Fresh(ring), NoticeStep)
  BY <1>2, PartsSolve
<1> HIDE DEF g
<1>4. g = [R \in SUBSET DOMAIN w |-> IF R = {} THEN Fresh(ring) ELSE Notice(g[R \ {Max(R)}], w[Max(R)])]
  <2>1. \A R \in SUBSET DOMAIN w : R # {} => g[R \ {Max(R)}] \in Detector /\ w[Max(R)] \in Contents
    BY <1>2, <1>3 DEF IsLeftFold
  <2>2. \A R \in SUBSET DOMAIN w : R # {} => g[R] = Notice(g[R \ {Max(R)}], w[Max(R)])
    BY <1>2, <1>3, <2>1 DEF IsLeftFold
  <2> QED BY <1>3, <2>2 DEF IsLeftFold
<1>5. c = [R \in SUBSET DOMAIN w |-> IF R = {} THEN Fresh(ring) ELSE Notice(c[R \ {Max(R)}], w[Max(R)])]
  BY <1>4, Zenon
<1> HIDE DEF c
<1>6. SolvesLeft(c, w, Detector, Fresh(ring), NoticeStep)
  <2>1. \A R \in SUBSET DOMAIN w : R # {} => Max(R) \in DOMAIN w
    BY <1>3 DEF IsLeftFold
  <2>2. c[{}] = Fresh(ring)
    BY <1>5
  <2>3. ASSUME NEW R \in SUBSET DOMAIN w, R # {}, c[R \ {Max(R)}] \in Detector
        PROVE  c[R] = NoticeStep[<<c[R \ {Max(R)}], w[Max(R)]>>]
    <3>1. w[Max(R)] \in Contents
      BY <1>2, <2>1, <2>3
    <3>2. c[R] = Notice(c[R \ {Max(R)}], w[Max(R)])
      BY <1>5, <2>3
    <3> QED BY <1>2, <2>3, <3>1, <3>2
  <2> QED BY <2>2, <2>3 DEF SolvesLeft
<1> QED BY <1>1, <1>2, <1>6, LeftFoldIs


\* loopDetector.Write: it hits at the first run, and keeps the last texts until then.
LEMMA Observed ==
    ASSUME NEW ring \in Seq(Contents), NEW s \in Seq(Contents), Ring(ring, s), ~Looped(s),
           NEW w \in Seq(Contents)
    PROVE  Observe(ring, w) \in Detector /\ Detects(Observe(ring, w), s \o w)
<1> DEFINE F(v) == LeftFold(v, Detector, Fresh(ring), NoticeStep)
           Q == {v \in Seq(Contents) : Detects(F(v), s \o v)}
<1>1. \A v \in Seq(Contents) : F(v) \in Detector
  BY NoticeSteps, LeftFoldType
<1>2. <<>> \in Q
  <2> DEFINE z == <<>>
  <2>1. z \in Seq(Contents) /\ s \o z = s
    BY EmptySeq, ConcatEmptySeq
  <2>2. F(z) = Fresh(ring)
    <3>1. Foldable(z, Contents, Detector, Fresh(ring), NoticeStep)
      BY <2>1, NoticeSteps
    <3> QED BY <3>1, LeftFoldType
  <2>3. Detects(Fresh(ring), s)
    BY DEF Detects, Fresh
  <2> HIDE DEF F
  <2> QED BY <2>1, <2>2, <2>3
<1>3. ASSUME NEW v \in Seq(Contents), NEW t \in Contents, v \in Q PROVE Append(v, t) \in Q
  <2>1. Detects(F(v), s \o v) /\ F(v) \in Detector
    BY <1>1, <1>3
  <2>2. F(Append(v, t)) = Notice(F(v), t)
    <3>1. F(Append(v, t)) = NoticeStep[<<F(v), t>>]
      BY NoticeSteps, LeftFoldAppend
    <3> HIDE DEF F
    <3> QED BY <2>1, <3>1, NoticeSteps
  <2>3. s \o v \in Seq(Contents) /\ Append(v, t) \in Seq(Contents)
    BY ConcatProperties, AppendProperties
  <2>4. s \o Append(v, t) = Append(s \o v, t)
    BY ConcatAppend
  <2> HIDE DEF F
  <2>5. Detects(Notice(F(v), t), Append(s \o v, t))
    BY <2>1, <2>3, Noticed
  <2> QED BY <2>2, <2>3, <2>4, <2>5
<1> HIDE DEF Q
<1>4. Seq(Contents) \subseteq Q
  BY <1>2, <1>3, SeqInd
<1>5. Observe(ring, w) = F(w)
  BY ObserveFolded
<1>6. Detects(F(w), s \o w)
  BY <1>4 DEF Q
<1> HIDE DEF F
<1> QED BY <1>1, <1>5, <1>6

\* Nothing to see is no loop.
LEMMA NothingObserved ==
    ASSUME NEW ring \in Seq(Contents)
    PROVE  Observe(ring, <<>>) = Fresh(ring)
<1> DEFINE z == <<>>
<1>1. z \in Seq(Contents)
  BY EmptySeq
<1>2. Observe(ring, z) = LeftFold(z, Detector, Fresh(ring), NoticeStep)
  BY <1>1, ObserveFolded
<1>3. LeftFold(z, Detector, Fresh(ring), NoticeStep) = Fresh(ring)
  <2>1. Foldable(z, Contents, Detector, Fresh(ring), NoticeStep)
    BY <1>1, NoticeSteps
  <2> QED BY <2>1, LeftFoldType
<1> QED BY <1>2, <1>3

-----------------------------------------------------------------------------
(* What the client has, what is on its way and what is held back.          *)

\* t begins with s.
Starts(s, t) == \E u \in Seq(Place) : Consists(t, s, u)

\* It is then a prefix, also of what follows, and so is what it begins with.
LEMMA StartsAre ==
    ASSUME NEW s \in Seq(Place), NEW t \in Seq(Place), Starts(s, t)
    PROVE  /\ IsPrefix(s, t)
           /\ \A k \in Seq(Place) : Starts(s, t \o k)
<1>1. PICK u \in Seq(Place) : Consists(t, s, u)
  BY DEF Starts
<1>2. /\ Len(t) = Len(s) + Len(u) /\ Len(s) \in Nat /\ Len(u) \in Nat
      /\ \A i \in 1 .. Len(s) + Len(u) : t[i] = IF i <= Len(s) THEN s[i] ELSE u[i - Len(s)]
  BY <1>1, ConcatProperties, LenProperties DEF Consists
<1>3. IsPrefix(s, t)
  <2> DEFINE n == Len(s)
             a == SubSeq(s, 1, n)
             b == SubSeq(t, 1, n)
  <2>1. n \in Int /\ 1 \in Int /\ n <= Len(t)
    BY <1>2
  <2>2. \A i \in 1 .. n : s[i] \in Place /\ t[i] = s[i]
    BY <1>2, ElementOfSeq
  <2> HIDE DEF n
  <2>3. a \in Seq(Place) /\ Len(a) = (IF 1 <= n THEN n - 1 + 1 ELSE 0) /\ \A i \in 1 .. n - 1 + 1 : a[i] = s[1 + i - 1]
    BY <2>1, <2>2, SubSeqProperties
  <2>4. b \in Seq(Place) /\ Len(b) = (IF 1 <= n THEN n - 1 + 1 ELSE 0) /\ \A i \in 1 .. n - 1 + 1 : b[i] = t[1 + i - 1]
    <3>1. \A i \in 1 .. n : t[i] \in Place
      BY <2>2
    <3> QED BY <2>1, <3>1, SubSeqProperties
  <2> HIDE DEF a, b
  <2>5. Len(a) = Len(b) /\ \A i \in 1 .. Len(a) : a[i] = b[i]
    <3>1. n \in Nat /\ n - 1 + 1 = n /\ \A i \in 1 .. n : 1 + i - 1 = i
      BY <1>2 DEF n
    <3>2. Len(a) = n /\ Len(b) = n
      BY <2>3, <2>4, <3>1
    <3> QED BY <2>2, <2>3, <2>4, <3>1, <3>2
  <2>6. a = b
    BY <2>3, <2>4, <2>5, SeqEqual
  <2> QED BY <2>1, <2>6 DEF IsPrefix, a, b, n
<1>4. ASSUME NEW k \in Seq(Place) PROVE Starts(s, t \o k)
  <2>1. Regrouped(s, u, k) /\ u \o k \in Seq(Place)
    BY Regroup, ConcatProperties
  <2>2. Consists(t \o k, s, u \o k)
    BY <1>1, <2>1 DEF Regrouped, Consists
  <2> QED BY <2>1, <2>2 DEF Starts
<1> QED BY <1>3, <1>4

\* A part of what it begins with.
LEMMA StartsLess ==
    ASSUME NEW cl \in Seq(Place), NEW q \in Seq(Place), NEW t, Starts(cl \o q, t)
    PROVE  Starts(cl, t)
<1>1. PICK u \in Seq(Place) : Consists(t, cl \o q, u)
  BY DEF Starts
<1>2. Regrouped(cl, q, u) /\ q \o u \in Seq(Place)
  BY Regroup, ConcatProperties
<1>3. Consists(t, cl, q \o u)
  BY <1>1, <1>2 DEF Regrouped, Consists
<1> QED BY <1>2, <1>3 DEF Starts

\* What was held back goes out, all of it or nothing.
LEMMA StartsCut ==
    ASSUME NEW cl \in Seq(Place), NEW h \in Seq(Place), NEW q, q \in {h, <<>>}, NEW t, Consists(t, cl, h)
    PROVE  Starts(cl \o q, t) /\ (q = h => cl \o q = t)
<1> DEFINE z == <<>>
<1>1. cl \o h \in Seq(Place) /\ z \in Seq(Place)
  BY ConcatProperties, EmptySeq
<1>2. (cl \o h) \o z = cl \o h /\ cl \o z = cl
  BY <1>1, ConcatEmptySeq
<1>3. CASE q = h
  <2>1. Consists(t, cl \o q, z)
    BY <1>2, <1>3 DEF Consists
  <2>2. cl \o q = t
    BY <1>3 DEF Consists
  <2> QED BY <1>1, <2>1, <2>2 DEF Starts
<1>4. CASE q = z /\ q # h
  <2>1. Consists(t, cl \o q, h)
    BY <1>2, <1>4 DEF Consists
  <2> QED BY <1>4, <2>1 DEF Starts
<1> QED BY <1>3, <1>4

\* A read goes on: what went out and what is held back are what there was and the
\* piece that was read.
LEMMA FlowsOn ==
    ASSUME NEW cl \in Seq(Place), NEW q \in Seq(Place), NEW h2 \in Seq(Place), NEW h \in Seq(Place),
           NEW k \in Seq(Place), NEW t, Conveys(q, h2, h, k), Consists(t, cl, h)
    PROVE  Consists(t \o k, cl \o q, h2) /\ Starts(cl \o q, t \o k)
<1>1. Regrouped(cl, q, h2) /\ Regrouped(cl, h, k)
  BY Regroup
<1>2. q \o h2 = h \o k /\ t = cl \o h
  BY DEF Conveys, Consists
<1>3. Consists(t \o k, cl \o q, h2)
  BY <1>1, <1>2 DEF Regrouped, Consists
<1> QED BY <1>3 DEF Starts

\* Where StreamProxy is, and what follows from it.
Course ==
    /\ pc \in {"dial", "peek", "read"} => after = "read" /\ queue = <<>>
    /\ pc = "drain" => gone
    /\ outcome = "ok" => after = "eof" /\ queue = <<>>
    /\ gone => client = <<>>

\* What a client that is still there was sent is the beginning of what was read;
\* while StreamProxy reads, the rest is held back; at the end there is no rest, or
\* the client is told.
Sent == PlacesOf(client) \o PlacesOf(queue)
Flow ==
    ~gone => /\ Starts(Sent, Places(read))
             /\ after = "read" /\ pc # "done" => Consists(Places(read), Sent, HeldPlaces)
             /\ after = "eof" => Sent = Places(read) \/ ToldBy(client) \/ ToldBy(queue)

Cleaned == client \in Seq(CleanItems) /\ queue \in Seq(CleanItems)

\* The detector has seen what was read, until it hit.
Reading == pc \in {"dial", "peek", "read"} \/ (pc = "deliver" /\ after = "read")
Looking ==
    /\ recent \in Seq(Contents)
    /\ mode.stream => /\ detected \in BOOLEAN
                      /\ detected <=> Looped(extractSSEContents(read))
                      /\ Reading => ~detected /\ Ring(recent, extractSSEContents(read))

\* The inductive invariant.
Relays == Course /\ Held /\ Flow /\ Cleaned /\ Looking

\* The items are of their type, and so are their places.
LEMMA SentIs ==
    ASSUME Cleaned
    PROVE  /\ client \in Seq(Items) /\ queue \in Seq(Items)
           /\ PlacesOf(client) \in Seq(Place) /\ PlacesOf(queue) \in Seq(Place) /\ Sent \in Seq(Place)
           /\ queue = <<>> => Sent = PlacesOf(client)
<1>1. client \in Seq(Items) /\ queue \in Seq(Items)
  BY SeqMonotonic DEF Cleaned, CleanItems
<1>2. PlacesOf(client) \in Seq(Place) /\ PlacesOf(queue) \in Seq(Place) /\ PlacesOf(<<>>) = <<>>
  BY <1>1, ItemsConcat
<1>3. Sent \in Seq(Place)
  BY <1>2, ConcatProperties DEF Sent
<1>4. queue = <<>> => Sent = PlacesOf(client)
  BY <1>2, ConcatEmptySeq DEF Sent
<1> QED BY <1>1, <1>2, <1>3, <1>4

\* The request's settings do not change what is clean.
LEMMA CleanSame ==
    ASSUME UNCHANGED mode
    PROVE  CleanItems' = CleanItems
BY DEF CleanItems, Clean

\* The answer is whole, or begun, for a client that is there.
LEMMA FaithfulNow ==
    ASSUME Relays
    PROVE  RelayFaithful
<1>0. Course /\ Held /\ Flow /\ Cleaned /\ Looking
  BY DEF Relays
<1>1. /\ client \in Seq(Items) /\ PlacesOf(client) \in Seq(Place) /\ PlacesOf(queue) \in Seq(Place)
      /\ Places(read) \in Seq(Place) /\ (queue = <<>> => Sent = PlacesOf(client))
  BY <1>0, SentIs, HeldPlacesAre
<1>2. Starts(PlacesOf(client), Places(read))
  <2>1. CASE gone
    <3> DEFINE z == <<>>
    <3>1. client = z /\ z \in Seq(Items)
      BY <1>0, <2>1 DEF Course
    <3>2. PlacesOf(z) = z /\ z \o Places(read) = Places(read)
      BY <1>1, <3>1, ItemsConcat, ConcatEmptySeq
    <3>3. Consists(Places(read), PlacesOf(client), Places(read))
      BY <3>1, <3>2 DEF Consists
    <3> QED BY <1>1, <3>3 DEF Starts
  <2>2. CASE ~gone
    <3>1. Starts(PlacesOf(client) \o PlacesOf(queue), Places(read))
      BY <1>0, <2>2 DEF Flow, Sent
    <3> QED BY <1>1, <3>1, StartsLess
  <2> QED BY <2>1, <2>2
<1>3. IsPrefix(PlacesOf(client), Places(read))
  BY <1>1, <1>2, StartsAre
<1>4. ASSUME outcome = "ok", ~gone PROVE PlacesOf(client) = Places(read) \/ Told
  <2>1. after = "eof" /\ queue = <<>>
    BY <1>0, <1>4 DEF Course
  <2>2. Sent = Places(read) \/ ToldBy(client) \/ ToldBy(queue)
    BY <1>0, <1>4, <2>1 DEF Flow
  <2>3. ~ToldBy(queue)
    BY <2>1 DEF ToldBy
  <2> QED BY <1>1, <2>1, <2>2, <2>3 DEF Told, ToldBy
<1>5. FramesInOrder
  BY <1>3, <1>4 DEF FramesInOrder
<1>6. Disguised
  <2> SUFFICES ASSUME NEW i \in DOMAIN client PROVE Clean(client[i])
    BY DEF Disguised, Clean
  <2>1. client[i] \in CleanItems
    <3>1. DOMAIN client = 1 .. Len(client)
      BY <1>1, LenProperties
    <3> QED BY <1>0, <3>1, ElementOfSeq DEF Cleaned
  <2> QED BY <2>1 DEF CleanItems
<1>7. LoopCut
  BY <1>0 DEF Looking, LoopCut, Looped
<1> QED BY <1>5, <1>6, <1>7 DEF RelayFaithful

-----------------------------------------------------------------------------
(* Every step keeps it.                                                    *)

\* The variables the invariant speaks of, but for where StreamProxy is.
answerVars == <<mode, after, outcome, read, recent, detected, carry, pending, jsonBuf, pass, client, gone>>

\* A return throws away what is held back; one that calls the answer complete has
\* written everything.
LEMMA ReturnRelays ==
    ASSUME Relays, NEW o, Return(o), o = "ok" => after = "eof", after = "eof" => queue = <<>> \/ gone
    PROVE  Relays'
<1>0. Course /\ Held /\ Flow /\ Cleaned /\ Looking
  BY DEF Relays
<1>1. /\ pc' = "done" /\ outcome' = o /\ recent' = <<>> /\ carry' = <<>> /\ pending' = <<>>
      /\ jsonBuf' = <<>> /\ queue' = <<>>
      /\ UNCHANGED <<mode, after, read, detected, pass, client, gone>>
  BY DEF Return, clientVars, goneVars
<1>2. Course'
  BY <1>0, <1>1 DEF Course
<1>3. Held'
  BY <1>0, <1>1, EmptySeq DEF Held, HeldName, Buffers
<1>4. Cleaned'
  BY <1>0, <1>1, CleanSame, EmptySeq DEF Cleaned
<1>5. ASSUME ~gone PROVE Starts(Sent, Places(read))' /\ (after = "eof" => Sent' = Sent)
  <2>1. /\ PlacesOf(client) \in Seq(Place) /\ PlacesOf(queue) \in Seq(Place)
        /\ (queue = <<>> => Sent = PlacesOf(client)) /\ Starts(PlacesOf(client) \o PlacesOf(queue), Places(read))
    BY <1>0, <1>5, SentIs DEF Flow, Sent
  <2>2. Sent' = PlacesOf(client)
    <3> DEFINE z == <<>>
    <3>1. z \in Seq(Items)
      BY EmptySeq
    <3>2. PlacesOf(z) = z
      BY <3>1, ItemsConcat
    <3>3. Sent' = PlacesOf(client) \o PlacesOf(z)
      BY <1>1 DEF Sent
    <3> QED BY <2>1, <3>2, <3>3, ConcatEmptySeq
  <2>3. Starts(PlacesOf(client), Places(read))
    BY <2>1, StartsLess
  <2> QED BY <1>1, <1>5, <2>1, <2>2, <2>3
<1>6. Flow'
  <2>1. ASSUME ~gone, after = "eof" PROVE Sent' = Places(read') \/ ToldBy(client')
    <3>1. queue = <<>> /\ ~ToldBy(queue)
      BY <2>1 DEF ToldBy
    <3> QED BY <1>0, <1>1, <1>5, <2>1, <3>1 DEF Flow
  <2> QED BY <1>1, <1>5, <2>1 DEF Flow
<1>7. Looking'
  BY <1>0, <1>1, EmptySeq DEF Looking, Reading
<1> QED BY <1>2, <1>3, <1>4, <1>6, <1>7 DEF Relays

\* A step that only moves StreamProxy on.
LEMMA StillRelays ==
    ASSUME Relays, UNCHANGED answerVars, UNCHANGED queue,
           \/ pc' = pc
           \/ pc = "dial" /\ pc' \in {"peek", "read"}
           \/ pc = "deliver" /\ after = "read" /\ queue = <<>> /\ pc' = "read"
    PROVE  Relays'
<1>0. Course /\ Held /\ Flow /\ Cleaned /\ Looking
  BY DEF Relays
<1>1. UNCHANGED <<mode, after, outcome, read, recent, detected, carry, pending, jsonBuf, pass, client, gone>>
  BY DEF answerVars
<1>2. Course'
  BY <1>0, <1>1 DEF Course
<1>3. Held'
  BY <1>0, <1>1 DEF Held, Buffers
<1>4. Cleaned'
  BY <1>0, <1>1, CleanSame DEF Cleaned
<1>5. Flow'
  <2>1. Sent' = Sent /\ HeldPlaces' = HeldPlaces
    BY <1>1 DEF Sent, HeldPlaces
  <2>2. pc' # "done" => pc # "done"
    OBVIOUS
  <2> QED BY <1>0, <1>1, <2>1, <2>2 DEF Flow
<1>6. Looking'
  BY <1>0, <1>1 DEF Looking, Reading
<1> QED BY <1>2, <1>3, <1>4, <1>5, <1>6 DEF Relays

\* loopDetector.Write: what it sees is what was read.
LEMMA DetectLooks ==
    ASSUME Relays, pc \in {"peek", "read"}, UNCHANGED mode, NEW chunk \in Chunks, DetectAndWrite(chunk)
    PROVE  /\ Looking' /\ (~mode.stream => detected' = FALSE)
           /\ detected' \in BOOLEAN /\ after' = IF detected' THEN "loop" ELSE "read"
           /\ Push(IF detected' THEN <<ErrorCell>> ELSE chunk, pending, jsonBuf, pass)
           /\ pc' = "deliver" /\ read' = read \o chunk
<1>0. Held /\ Looking
  BY DEF Relays
<1> DEFINE texts == extractSSEContents(chunk)
           seen == extractSSEContents(read)
           obs == Observe(recent, IF mode.stream THEN texts ELSE <<>>)
<1>1. /\ pc' = "deliver" /\ read' = read \o chunk /\ recent' = obs.ring /\ detected' = obs.hit
      /\ after' = (IF obs.hit THEN "loop" ELSE "read")
      /\ Push(IF obs.hit THEN <<ErrorCell>> ELSE chunk, pending, jsonBuf, pass)
  BY DEF DetectAndWrite
<1>2. read \in Seq(Piece) /\ chunk \in Seq(Piece)
  BY <1>0, HeldPlacesAre, ChunkTyped
<1>3. texts \in Seq(Contents) /\ seen \in Seq(Contents) /\ SeenSplit(read, chunk)
  BY <1>2, SeenConcat
<1>4. recent \in Seq(Contents)
  BY <1>0 DEF Looking
<1>5. CASE mode.stream
  <2>1. ~Looped(seen) /\ Ring(recent, seen)
    BY <1>0, <1>5 DEF Looking, Reading
  <2>2. obs = Observe(recent, texts)
    BY <1>5
  <2> HIDE DEF obs, texts, seen
  <2>3. obs \in Detector /\ Detects(obs, seen \o texts)
    BY <1>3, <1>4, <2>1, <2>2, Observed
  <2>4. extractSSEContents(read') = seen \o texts
    BY <1>1, <1>3 DEF SeenSplit, seen, texts
  <2>5. obs.ring \in Seq(Contents) /\ obs.hit \in BOOLEAN
    BY <2>3 DEF Detector
  <2>6. Looking'
    <3>1. after' = "read" => ~obs.hit
      BY <1>1, <2>5
    <3>2. (obs.hit <=> Looped(seen \o texts)) /\ (~obs.hit => Ring(obs.ring, seen \o texts))
      BY <2>3 DEF Detects
    <3> QED BY <1>1, <1>5, <2>4, <2>5, <3>1, <3>2 DEF Looking, Reading
  <2> QED BY <1>1, <1>5, <2>5, <2>6
<1>6. CASE ~mode.stream
  <2>1. obs = Fresh(recent)
    BY <1>4, <1>6, NothingObserved
  <2>2. obs.ring = recent /\ obs.hit = FALSE
    BY <2>1 DEF Fresh
  <2> HIDE DEF obs
  <2>3. Looking'
    BY <1>1, <1>4, <1>6, <2>2 DEF Looking
  <2> QED BY <1>1, <2>2, <2>3
<1> QED BY <1>5, <1>6

\* A read goes down the chain.
LEMMA DetectRelays ==
    ASSUME Relays, Phases, pc \in {"peek", "read"}, UNCHANGED <<mode, outcome, client, gone>>,
           NEW chunk \in Chunks, DetectAndWrite(chunk)
    PROVE  Relays'
<1>0. Course /\ Held /\ Flow /\ Cleaned /\ Looking
  BY DEF Relays
<1>1. /\ Looking' /\ (~mode.stream => detected' = FALSE)
      /\ detected' \in BOOLEAN /\ after' = (IF detected' THEN "loop" ELSE "read")
      /\ Push(IF detected' THEN <<ErrorCell>> ELSE chunk, pending, jsonBuf, pass)
      /\ pc' = "deliver" /\ read' = read \o chunk
  BY DetectLooks
<1>2. outcome # "ok" /\ after = "read" /\ queue = <<>> /\ pc # "done"
  BY <1>0 DEF Course, Phases
<1>3. Course'
  BY <1>0, <1>1, <1>2 DEF Course
<1>4. /\ PlacesOf(client) \in Seq(Place) /\ Sent = PlacesOf(client)
      /\ HeldPlaces \in Seq(Place) /\ Places(read) \in Seq(Place)
      /\ read \in Seq(Piece) /\ chunk \in Seq(Piece) /\ jsonBuf \in Seq(Piece)
  <2>1. read \in Seq(Piece)
    BY <1>0, HeldPlacesAre
  <2> QED BY <1>0, <1>2, <2>1, SentIs, HeldPlacesAre, ChunkTyped DEF Held
<1>5. Places(chunk) \in Seq(Place) /\ Places(read') = Places(read) \o Places(chunk)
  <2>1. Places(chunk) \in Seq(Place) /\ PlacesSplit(read, chunk)
    BY <1>4, PlacesConcat
  <2> QED BY <1>1, <2>1 DEF PlacesSplit
<1>6. ~gone => Consists(Places(read), PlacesOf(client), HeldPlaces)
  BY <1>0, <1>2, <1>4 DEF Flow
<1>7. Sent' = PlacesOf(client) \o PlacesOf(queue')
  BY DEF Sent
<1>8. CASE ~detected'
  <2>1. Push(chunk, pending, jsonBuf, pass) /\ after' = "read"
    BY <1>1, <1>8
  <2>2. /\ Held' /\ queue' \in Seq(CleanItems)
        /\ Conveys(PlacesOf(queue'), HeldPlaces', HeldPlaces, Places(chunk))
    BY <1>0, <1>1, <2>1, ChunkFlows
  <2>3. Cleaned'
    BY <1>0, <2>2, CleanSame DEF Cleaned
  <2>4. PlacesOf(queue') \in Seq(Place) /\ HeldPlaces' \in Seq(Place)
    <3>1. queue' \in Seq(Items)
      BY <2>2, SeqMonotonic DEF CleanItems
    <3>2. HeldPlaces' \in Seq(Place)
      <4>1. /\ carry' \in Seq(Piece) /\ pending' \in Seq(Piece) /\ jsonBuf' \in Seq(Piece)
        BY <2>2, SeqMonotonic DEF Held, Backed, OpenPlain, Plain
      <4>2. Places(carry') \in Seq(Place) /\ Places(pending') \in Seq(Place) /\ Places(jsonBuf') \in Seq(Place)
        BY <4>1, PlacesConcat
      <4>3. Places(pending') \o Places(carry') \in Seq(Place)
        BY <4>2, ConcatProperties
      <4> QED BY <4>2, <4>3, ConcatProperties DEF HeldPlaces
    <3> QED BY <3>1, <3>2, ItemsConcat
  <2>5. ASSUME ~gone
        PROVE  Consists(Places(read'), Sent', HeldPlaces') /\ Starts(Sent', Places(read'))
    <3> DEFINE h2 == HeldPlaces'
               q == PlacesOf(queue')
    <3>1. Conveys(q, h2, HeldPlaces, Places(chunk)) /\ q \in Seq(Place) /\ h2 \in Seq(Place)
      BY <2>2, <2>4
    <3> HIDE DEF h2, q
    <3>2. /\ Consists(Places(read) \o Places(chunk), PlacesOf(client) \o q, h2)
          /\ Starts(PlacesOf(client) \o q, Places(read) \o Places(chunk))
      BY <1>4, <1>5, <1>6, <2>5, <3>1, FlowsOn
    <3> QED BY <1>5, <1>7, <3>2 DEF h2, q
  <2>6. Flow'
    BY <2>1, <2>5 DEF Flow
  <2> QED BY <1>1, <1>3, <2>2, <2>3, <2>6 DEF Relays
<1>9. CASE detected'
  <2>1. mode.stream /\ Push(<<ErrorCell>>, pending, jsonBuf, pass) /\ after' = "loop"
    BY <1>1, <1>9
  <2>2. jsonBuf = <<>> /\ read' \in Seq(Backed)
    <3>1. Readable(carry \o chunk, read \o chunk)
      BY <1>0, ChunkReadable DEF Held
    <3> QED BY <1>0, <1>1, <2>1, <3>1 DEF Held, Readable
  <2>3. Held' /\ queue' \in Seq(CleanItems) /\ PlacesOf(queue') \in {HeldPlaces, <<>>}
    BY <1>0, <2>1, <2>2, ErrorFlows
  <2>4. Cleaned'
    BY <1>0, <2>3, CleanSame DEF Cleaned
  <2>5. ASSUME ~gone PROVE Starts(Sent', Places(read'))
    <3> DEFINE q == PlacesOf(queue')
    <3>1. q \in {HeldPlaces, <<>>}
      BY <2>3
    <3> HIDE DEF q
    <3>2. Starts(PlacesOf(client) \o q, Places(read))
      BY <1>4, <1>6, <2>5, <3>1, StartsCut
    <3>3. PlacesOf(client) \o q \in Seq(Place)
      BY <1>4, <3>1, ConcatProperties, EmptySeq
    <3>4. Starts(PlacesOf(client) \o q, Places(read) \o Places(chunk))
      BY <1>4, <1>5, <3>2, <3>3, StartsAre
    <3> QED BY <1>5, <1>7, <3>4 DEF q
  <2>6. Flow'
    BY <2>1, <2>5 DEF Flow
  <2> QED BY <1>1, <1>3, <2>3, <2>4, <2>6 DEF Relays
<1> QED BY <1>1, <1>8, <1>9

\* The answer ends: what is held back goes out, or the client is told.
LEMMA EOFRelays ==
    ASSUME Relays, Phases, ReadEOF
    PROVE  Relays'
<1>0. Course /\ Held /\ Flow /\ Cleaned /\ Looking
  BY DEF Relays
<1>1. PICK ok \in BOOLEAN : queue' = FinishStream(ok)
  BY DEF ReadEOF
<1>2. /\ pc = "read" /\ pc' = "deliver" /\ after' = "eof" /\ carry' = <<>> /\ pending' = <<>> /\ jsonBuf' = <<>>
      /\ UNCHANGED <<mode, outcome, read, recent, detected, pass, client, gone>>
  BY DEF ReadEOF, clientVars, goneVars
<1>3. outcome # "ok" /\ after = "read" /\ queue = <<>> /\ pc # "done"
  BY <1>0, <1>2 DEF Course, Phases
<1>4. Course'
  BY <1>0, <1>2, <1>3 DEF Course
<1>5. Held'
  BY <1>0, <1>2, EmptySeq DEF Held, HeldName, Buffers
<1>6. /\ queue' \in Seq(CleanItems) /\ PlacesOf(queue') \in {HeldPlaces, <<>>}
      /\ PlacesOf(queue') = HeldPlaces \/ ToldBy(queue')
  BY <1>0, <1>1, FinishFlows
<1>7. Cleaned'
  BY <1>0, <1>2, <1>6, CleanSame DEF Cleaned
<1>8. Looking'
  BY <1>0, <1>2 DEF Looking, Reading
<1>9. ASSUME ~gone PROVE Starts(Sent', Places(read)) /\ (Sent' = Places(read) \/ ToldBy(queue'))
  <2> DEFINE q == PlacesOf(queue')
  <2>1. /\ PlacesOf(client) \in Seq(Place) /\ HeldPlaces \in Seq(Place)
        /\ Consists(Places(read), PlacesOf(client), HeldPlaces)
    BY <1>0, <1>3, <1>9, SentIs, HeldPlacesAre DEF Flow
  <2>2. Sent' = PlacesOf(client) \o q /\ q \in {HeldPlaces, <<>>} /\ (q = HeldPlaces \/ ToldBy(queue'))
    BY <1>2, <1>6 DEF Sent
  <2> HIDE DEF q
  <2>3. /\ Starts(PlacesOf(client) \o q, Places(read))
        /\ q = HeldPlaces => PlacesOf(client) \o q = Places(read)
    BY <2>1, <2>2, StartsCut
  <2> QED BY <2>2, <2>3
<1>10. Flow'
  BY <1>2, <1>9 DEF Flow
<1> QED BY <1>4, <1>5, <1>7, <1>8, <1>10 DEF Relays

\* The answer breaks off.
LEMMA FailRelays ==
    ASSUME Relays, Phases, ReadFails, ~Return("ctx")
    PROVE  Relays'
<1>0. Course /\ Held /\ Flow /\ Cleaned /\ Looking
  BY DEF Relays
<1> DEFINE passing == mode.translate \/ pass
<1>1. /\ pc = "read" /\ pc' = "deliver" /\ after' = "error" /\ Push(<<ErrorCell>>, pending, <<>>, passing)
      /\ UNCHANGED <<mode, outcome, read, recent, detected, client, gone>>
  BY DEF ReadFails, clientVars, goneVars
<1>2. outcome # "ok" /\ after = "read" /\ queue = <<>> /\ pc # "done"
  BY <1>0, <1>1 DEF Course, Phases
<1>3. Course'
  BY <1>0, <1>1, <1>2 DEF Course
<1>4. Held' /\ queue' \in Seq(CleanItems) /\ PlacesOf(queue') \in {HeldPlaces, <<>>}
  <2>1. Passes(passing)
    BY DEF Passes
  <2> HIDE DEF passing
  <2>2. read' \in Seq(Backed)
    BY <1>0, <1>1 DEF Held
  <2> QED BY <1>0, <1>1, <2>1, <2>2, ErrorFlows
<1>5. Cleaned'
  BY <1>0, <1>1, <1>4, CleanSame DEF Cleaned
<1>6. Looking'
  BY <1>0, <1>1 DEF Looking, Reading
<1>7. ASSUME ~gone PROVE Starts(Sent', Places(read))
  <2> DEFINE q == PlacesOf(queue')
  <2>1. /\ PlacesOf(client) \in Seq(Place) /\ HeldPlaces \in Seq(Place)
        /\ Consists(Places(read), PlacesOf(client), HeldPlaces)
    BY <1>0, <1>2, <1>7, SentIs, HeldPlacesAre DEF Flow
  <2>2. Sent' = PlacesOf(client) \o q /\ q \in {HeldPlaces, <<>>}
    BY <1>1, <1>4 DEF Sent
  <2> HIDE DEF q
  <2>3. Starts(PlacesOf(client) \o q, Places(read))
    BY <2>1, <2>2, StartsCut
  <2> QED BY <2>2, <2>3
<1>8. Flow'
  BY <1>1, <1>7 DEF Flow
<1> QED BY <1>3, <1>4, <1>5, <1>6, <1>8 DEF Relays

\* An item moves from the way to the client.
LEMMA ItemMoves ==
    ASSUME NEW cl \in Seq(CleanItems), NEW q \in Seq(CleanItems), q # <<>>
    PROVE  /\ Tail(q) \in Seq(CleanItems) /\ Append(cl, Head(q)) \in Seq(CleanItems)
           /\ PlacesOf(Append(cl, Head(q))) \o PlacesOf(Tail(q)) = PlacesOf(cl) \o PlacesOf(q)
           /\ ToldBy(cl) \/ ToldBy(q) => ToldBy(Append(cl, Head(q))) \/ ToldBy(Tail(q))
<1> DEFINE h == Head(q)
           t == Tail(q)
           one == <<h>>
<1>1. /\ h \in CleanItems /\ t \in Seq(CleanItems) /\ h = q[1] /\ Len(t) = Len(q) - 1
      /\ \A i \in 1 .. Len(t) : t[i] = q[i + 1]
  BY HeadTailProperties
<1>n. Len(q) \in Nat /\ Len(q) >= 1 /\ DOMAIN q = 1 .. Len(q) /\ DOMAIN t = 1 .. Len(t)
  <2>1. Len(q) \in Nat /\ DOMAIN q = 1 .. Len(q) /\ DOMAIN t = 1 .. Len(t) /\ Len(q) # 0
    BY <1>1, LenProperties, EmptySeq
  <2> QED BY <2>1
<1> HIDE DEF h, t
<1>2. one \in Seq(CleanItems) /\ Len(one) = 1 /\ one[1] = h
  BY <1>1
<1> HIDE DEF one
<1>3. /\ cl \in Seq(Items) /\ one \in Seq(Items) /\ t \in Seq(Items) /\ q \in Seq(Items)
  BY <1>1, <1>2, SeqMonotonic DEF CleanItems
<1>4. q = one \o t
  <2>1. /\ one \o t \in Seq(Items) /\ Len(one \o t) = Len(one) + Len(t)
        /\ \A i \in 1 .. Len(one) + Len(t) : (one \o t)[i] = IF i <= Len(one) THEN one[i] ELSE t[i - Len(one)]
    BY <1>3, ConcatProperties
  <2> DEFINE s == one \o t
  <2> HIDE DEF s
  <2>2. s \in Seq(Items) /\ Len(s) = Len(q) /\ \A i \in 1 .. Len(q) : s[i] = IF i <= 1 THEN h ELSE t[i - 1]
    <3>1. Len(one) + Len(t) = Len(q)
      BY <1>1, <1>2, <1>n
    <3> QED BY <1>2, <2>1, <3>1 DEF s
  <2>3. ASSUME NEW i \in 1 .. Len(q) PROVE s[i] = q[i]
    <3>1. CASE i <= 1
      <4>1. i = 1
        BY <3>1
      <4> QED BY <1>1, <2>2, <3>1, <4>1
    <3>2. CASE ~(i <= 1)
      <4>1. i - 1 \in 1 .. Len(t) /\ (i - 1) + 1 = i
        BY <1>1, <1>n, <3>2
      <4>2. t[i - 1] = q[(i - 1) + 1]
        BY <1>1, <4>1
      <4> QED BY <2>2, <3>2, <4>1, <4>2
    <3> QED BY <3>1, <3>2
  <2>4. s = q
    BY <1>3, <2>2, <2>3, SeqEqual
  <2> QED BY <2>4 DEF s
<1>5. Append(cl, h) = cl \o one
  BY AppendIsConcat DEF one
<1>6. /\ ItemsSplit(cl, one) /\ ItemsSplit(one, t)
      /\ PlacesOf(cl) \in Seq(Place) /\ PlacesOf(one) \in Seq(Place) /\ PlacesOf(t) \in Seq(Place)
  BY <1>3, ItemsConcat
<1>7. Regrouped(PlacesOf(cl), PlacesOf(one), PlacesOf(t))
  BY <1>6, Regroup
<1>8. PlacesOf(Append(cl, h)) \o PlacesOf(t) = PlacesOf(cl) \o PlacesOf(q)
  BY <1>4, <1>5, <1>6, <1>7 DEF ItemsSplit, Regrouped
<1>9. Append(cl, h) \in Seq(CleanItems)
  BY <1>1
<1>10. ASSUME ToldBy(cl) \/ ToldBy(q) PROVE ToldBy(Append(cl, h)) \/ ToldBy(t)
  <2> DEFINE a == Append(cl, h)
  <2>1. /\ Len(a) = Len(cl) + 1 /\ a[Len(cl) + 1] = h /\ \A i \in 1 .. Len(cl) : a[i] = cl[i]
    BY <1>1, AppendProperties
  <2>2. Len(cl) \in Nat /\ DOMAIN cl = 1 .. Len(cl) /\ DOMAIN a = 1 .. Len(a)
    BY <1>9, LenProperties
  <2> HIDE DEF a
  <2>3. Len(cl) + 1 \in DOMAIN a /\ \A i \in DOMAIN cl : i \in DOMAIN a
    BY <2>1, <2>2
  <2>4. CASE ToldBy(cl)
    <3>1. PICK i \in DOMAIN cl : Last(cl[i].cells).text = "error"
      BY <2>4 DEF ToldBy
    <3>2. i \in DOMAIN a /\ a[i] = cl[i]
      BY <2>1, <2>2, <2>3
    <3> QED BY <3>1, <3>2 DEF ToldBy, a
  <2>5. CASE ToldBy(q)
    <3>1. PICK i \in DOMAIN q : Last(q[i].cells).text = "error"
      BY <2>5 DEF ToldBy
    <3>2. CASE i = 1
      <4>1. Last(h.cells).text = "error"
        BY <1>1, <3>1, <3>2
      <4> QED BY <2>1, <2>3, <4>1 DEF ToldBy, a
    <3>3. CASE i # 1
      <4>1. i - 1 \in 1 .. Len(t) /\ (i - 1) + 1 = i
        BY <1>1, <1>n, <3>1, <3>3
      <4>2. i - 1 \in DOMAIN t /\ t[i - 1] = q[i]
        BY <1>1, <1>n, <4>1
      <4> QED BY <3>1, <4>2 DEF ToldBy
    <3> QED BY <3>2, <3>3
  <2> QED BY <1>10, <2>4, <2>5
<1> QED BY <1>1, <1>8, <1>9, <1>10 DEF h, t

\* The queue empties towards a client, or towards nobody.
LEMMA SendRelays ==
    ASSUME Relays, pc = "deliver", pc' = "deliver" \/ (gone /\ pc' = "drain"), queue # <<>>,
           UNCHANGED <<mode, after, outcome, read, recent, detected, carry, pending, jsonBuf, pass, gone>>,
           \/ queue' = Tail(queue) /\ ~gone /\ client' = Append(client, Head(queue))
           \/ queue' \in {Tail(queue), <<>>} /\ gone /\ client' = client
    PROVE  Relays'
<1>0. Course /\ Held /\ Flow /\ Cleaned /\ Looking
  BY DEF Relays
<1>1. /\ Tail(queue) \in Seq(CleanItems) /\ Append(client, Head(queue)) \in Seq(CleanItems)
      /\ PlacesOf(Append(client, Head(queue))) \o PlacesOf(Tail(queue)) = Sent
      /\ ToldBy(client) \/ ToldBy(queue) => ToldBy(Append(client, Head(queue))) \/ ToldBy(Tail(queue))
  BY <1>0, ItemMoves DEF Cleaned, Sent
<1>2. Course'
  BY <1>0 DEF Course
<1>3. Held'
  BY <1>0 DEF Held, Buffers
<1>4. Cleaned'
  BY <1>0, <1>1, CleanSame, EmptySeq DEF Cleaned
<1>5. Looking'
  BY <1>0 DEF Looking, Reading
<1>6. Flow'
  <2>1. CASE gone
    BY <2>1 DEF Flow
  <2>2. CASE ~gone
    <3>1. queue' = Tail(queue) /\ client' = Append(client, Head(queue))
      BY <2>2
    <3>2. Sent' = Sent
      BY <1>1, <3>1 DEF Sent
    <3>3. HeldPlaces' = HeldPlaces
      BY DEF HeldPlaces
    <3>4. ToldBy(client) \/ ToldBy(queue) => ToldBy(client') \/ ToldBy(queue')
      BY <1>1, <3>1
    <3>5. Places(read') = Places(read) /\ pc # "done"
      OBVIOUS
    <3> QED BY <1>0, <2>2, <3>2, <3>3, <3>4, <3>5 DEF Flow
  <2> QED BY <2>1, <2>2
<1> QED BY <1>2, <1>3, <1>4, <1>5, <1>6 DEF Relays

\* The client leaves.
LEMMA LeaveRelays ==
    ASSUME Relays, Phases, ClientLeaves
    PROVE  Relays'
<1>0. Course /\ Held /\ Flow /\ Cleaned /\ Looking
  BY DEF Relays
<1>1. /\ pc # "done" /\ client' = <<>> /\ queue' = [i \in DOMAIN queue |-> ErrorItem] /\ gone' = TRUE
      /\ UNCHANGED <<mode, pc, after, outcome, read, recent, detected, carry, pending, jsonBuf, pass>>
  BY DEF ClientLeaves, relayVars
<1>2. queue' \in Seq(CleanItems)
  <2>1. Len(queue) \in Nat /\ DOMAIN queue = 1 .. Len(queue)
    BY <1>0, LenProperties DEF Cleaned
  <2>2. ErrorItem \in CleanItems
    BY OwnClean
  <2> QED BY <1>1, <2>1, <2>2
<1>3. queue = <<>> => queue' = <<>>
  BY <1>1
<1>4. outcome # "ok"
  BY <1>1 DEF Phases
<1>5. Course'
  BY <1>0, <1>1, <1>3, <1>4 DEF Course
<1>6. Held'
  BY <1>0, <1>1 DEF Held, Buffers
<1>7. Cleaned'
  BY <1>1, <1>2, CleanSame, EmptySeq DEF Cleaned
<1>8. Flow'
  BY <1>1 DEF Flow
<1>9. Looking'
  BY <1>0, <1>1 DEF Looking, Reading
<1> QED BY <1>5, <1>6, <1>7, <1>8, <1>9 DEF Relays

\* A step that only moves StreamProxy on, in the terms of the actions.
LEMMA QuietRelays ==
    ASSUME Relays, UNCHANGED <<mode, queue, client, gone>>,
           UNCHANGED <<after, outcome, read, recent, detected, carry, pending, jsonBuf, pass>>,
           \/ pc' = pc
           \/ pc = "dial" /\ pc' \in {"peek", "read"}
           \/ pc = "deliver" /\ after = "read" /\ queue = <<>> /\ pc' = "read"
    PROVE  Relays'
<1>1. UNCHANGED answerVars
  BY DEF answerVars
<1> QED BY <1>1, StillRelays

\* Every step keeps the invariant.
LEMMA RelaysStep ==
    ASSUME Relays, Phases, [Next]_vars
    PROVE  Relays'
<1>0. Course
  BY DEF Relays
<1>1. CASE DialFails \/ PeekFrames \/ PeekSmall \/ DrainEnds \/ DrainDeadline
  <2>1. PICK o \in {"ctx", "transport", "streamError", "buffered"} : Return(o)
    BY <1>1 DEF DialFails, PeekFrames, PeekSmall, DrainEnds, DrainDeadline
  <2>2. after = "eof" => gone
    BY <1>0, <1>1 DEF DialFails, PeekFrames, PeekSmall, DrainEnds, DrainDeadline, Course
  <2> QED BY <2>1, <2>2, ReturnRelays
<1>2. CASE Answered \/ AnsweredRetryable
  BY <1>2, QuietRelays DEF Answered, AnsweredRetryable, Begin, relayVars, clientVars, goneVars
<1>3. CASE PeekOversized \/ ReadData
  <2>1. PICK chunk \in Chunks : DetectAndWrite(chunk)
    BY <1>3 DEF PeekOversized, ReadData
  <2>2. pc \in {"peek", "read"} /\ UNCHANGED <<mode, outcome, client, gone>>
    BY <1>3 DEF PeekOversized, ReadData, Begin, clientVars, goneVars
  <2> QED BY <2>1, <2>2, DetectRelays
<1>4. CASE ReadEOF
  BY <1>4, EOFRelays
<1>5. CASE ReadFails
  <2>1. CASE Return("ctx")
    <3>1. after = "read"
      BY <1>0, <1>5 DEF ReadFails, Course
    <3> QED BY <2>1, <3>1, ReturnRelays
  <2>2. CASE ~Return("ctx")
    BY <1>5, <2>2, FailRelays
  <2> QED BY <2>1, <2>2
<1>6. CASE Deliver
  <2>1. /\ pc = "deliver" /\ pc' = "deliver" /\ queue # <<>> /\ queue' = Tail(queue)
        /\ client' = (IF gone THEN client ELSE Append(client, Head(queue)))
        /\ UNCHANGED <<mode, after, outcome, read, recent, detected, carry, pending, jsonBuf, pass, gone>>
    BY <1>6 DEF Deliver, relayVars, goneVars
  <2> QED BY <2>1, SendRelays
<1>7. CASE WriteFails
  <2>0. pc = "deliver" /\ queue # <<>> /\ gone
    BY <1>7 DEF WriteFails, MayFail
  <2>1. CASE Return("midstream")
    BY <2>0, <2>1, ReturnRelays
  <2>2. CASE Return("write")
    BY <2>0, <2>2, ReturnRelays
  <2>3. CASE ~Return("midstream") /\ ~Return("write")
    <3>1. /\ pc' = "deliver" \/ (gone /\ pc' = "drain")
          /\ queue' \in {Tail(queue), <<>>}
          /\ UNCHANGED <<mode, after, outcome, read, recent, detected, carry, pending, jsonBuf, pass, client, gone>>
      BY <1>7, <2>0, <2>3 DEF WriteFails, relayVars, clientVars, goneVars
    <3> QED BY <2>0, <3>1, SendRelays
  <2> QED BY <2>1, <2>2, <2>3
<1>8. CASE Delivered
  <2>0. pc = "deliver" /\ queue = <<>>
    BY <1>8 DEF Delivered
  <2>1. CASE after = "eof" /\ Return("ok")
    BY <2>0, <2>1, ReturnRelays
  <2>2. CASE Return("midstream")
    BY <2>0, <2>2, ReturnRelays
  <2>3. CASE ~(after = "eof" /\ Return("ok")) /\ ~Return("midstream")
    <3>1. /\ after = "read" /\ pc' = "read" /\ UNCHANGED <<mode, relayVars, queue, clientVars, goneVars>>
      BY <1>8, <2>3 DEF Delivered
    <3> QED BY <2>0, <3>1, QuietRelays DEF relayVars, clientVars, goneVars
  <2> QED BY <2>1, <2>2, <2>3
<1>9. CASE ClientLeaves
  BY <1>9, LeaveRelays
<1>10. CASE KaTick \/ WsTick
  <2>1. UNCHANGED <<mode, pc, relayVars, queue, goneVars>> /\ client' = client
    BY <1>10 DEF KaTick, WsTick, clientVars, Heartbeat
  <2> QED BY <2>1, QuietRelays DEF relayVars, goneVars
<1>11. CASE Watchdog \/ ContextDone \/ UNCHANGED vars
  <2>1. UNCHANGED <<mode, pc, relayVars, queue, clientVars, gone>>
    BY <1>11 DEF Watchdog, ContextDone, goneVars, vars
  <2> QED BY <2>1, QuietRelays DEF relayVars, clientVars
<1>12. CASE Tick
  <2>1. UNCHANGED <<mode, pc, relayVars, queue, client, gone>>
    BY <1>12 DEF Tick, goneVars
  <2> QED BY <2>1, QuietRelays DEF relayVars
<1> QED BY <1>1, <1>2, <1>3, <1>4, <1>5, <1>6, <1>7, <1>8, <1>9, <1>10, <1>11, <1>12
        DEF Next, Backend, Relay

\* Before the first byte nothing is sent, held or seen.
LEMMA RelaysFirst ==
    ASSUME Init
    PROVE  Relays
<1> DEFINE z == <<>>
<1>1. /\ pc = "dial" /\ after = "read" /\ outcome = "none" /\ read = z /\ recent = z /\ detected = FALSE
      /\ carry = z /\ pending = z /\ jsonBuf = z /\ queue = z /\ client = z /\ gone = FALSE
  BY DEF Init
<1>2. z \in Seq(Items) /\ z \in Seq(CleanItems) /\ z \in Seq(Piece) /\ z \in Seq(Contents)
      /\ z \in Seq(Backed) /\ z \in Seq(OpenPlain) /\ z \in Seq(Place)
  BY EmptySeq
<1>3. PlacesOf(z) = z /\ Places(z) = z /\ z \o z = z
  BY <1>2, ItemsConcat, PlacesConcat, ConcatEmptySeq
<1>4. Course
  BY <1>1 DEF Course
<1>5. Held
  BY <1>1, <1>2 DEF Held, HeldName, Buffers
<1>6. Cleaned
  BY <1>1, <1>2 DEF Cleaned
<1>7. Flow
  <2>1. Sent = z /\ Places(read) = z /\ HeldPlaces = z
    BY <1>1, <1>3 DEF Sent, HeldPlaces
  <2>2. Consists(z, z, z)
    BY <1>3 DEF Consists
  <2>3. Starts(z, z)
    BY <1>2, <2>2 DEF Starts
  <2> QED BY <1>1, <2>1, <2>2, <2>3 DEF Flow
<1>8. Looking
  <2>1. extractSSEContents(read) = z
    BY <1>1, <1>2, SeenConcat
  <2>2. ~Looped(z) /\ Ring(z, z)
    <3>1. Len(z) = 0 /\ Window \in Nat \ {0}
      BY StreamAssumption
    <3> HIDE DEF z
    <3>2. Window .. Len(z) = {} /\ 1 .. Len(z) = {} /\ Len(z) < Window
      BY <3>1
    <3> QED BY <3>2 DEF Looped, Ring
  <2> QED BY <1>1, <1>2, <2>1, <2>2 DEF Looking
<1> QED BY <1>4, <1>5, <1>6, <1>7, <1>8 DEF Relays

\* StreamProxy relays the backend's answer faithfully (loopDetector,
\* modelRewriteWriter, sseRelay and translateWriter, under any cut into reads, any
\* failed write and any disconnect): a client reads the backend's frames in order,
\* none lost, doubled or overtaken; an answer called complete is complete or the
\* client was told; no finished frame shows the backend's model name or a usage
\* frame; and the answer is cut exactly at the first loop.
THEOREM AnswerFaithful == Spec => []RelayFaithful
<1>1. Init => Relays
  BY RelaysFirst
<1>2. Relays /\ Phases /\ [Next]_vars => Relays'
  BY RelaysStep
<1>3. Relays => RelayFaithful
  BY FaithfulNow
<1> QED BY <1>1, <1>2, <1>3, AlwaysPhased, PTL DEF Spec

=============================================================================
