---------------------------- MODULE StreamRelay ----------------------------
(***************************************************************************)
(* One call of proxy.go's StreamProxy: the upstream answer is read in      *)
(* pieces and pushed through a chain of writers                            *)
(*                                                                         *)
(*   loop detector -> model rewriter -> metrics -> SSE relay -> translator *)
(*       -> wait-signal writer -> keep-alive writer -> client              *)
(*                                                                         *)
(* while two timers inject heartbeats, a watchdog waits for the backend to *)
(* fall silent, and the client may leave at any point.                     *)
(*                                                                         *)
(* A piece of the answer is a cell: a whole SSE frame, the head or the     *)
(* tail of one, or a head cut inside a "model" value.  A read delivers one *)
(* or two cells.  The chain has no lock of its own above the two silence   *)
(* writers, so its work on one read is one step; each write below them     *)
(* holds their mutexes and is a step of its own, which the timers may      *)
(* precede or follow.  Time passes only while the relay waits for the      *)
(* backend.  The metrics writer only measures and is left out.             *)
(***************************************************************************)
EXTENDS Integers, Sequences, SequencesExt

CONSTANTS
    Contents,              \* texts a frame may carry
    Window,                \* loopDetectionWindow
    KeepAliveIdle, WaitSignalIdle,           \* in clock units
    StreamIdleTimeout, UpstreamDrainTimeout, \* in clock units
    MaxTranslatedBody,     \* in cells
    Modes,                 \* the requests explored: [strip, translate, ka, stream] flags
    MaxCells               \* bound on the cells a backend sends

ASSUME StreamAssumption ==
    /\ Window \in Nat \ {0} /\ MaxCells \in Nat
    /\ KeepAliveIdle \in Nat \ {0} /\ WaitSignalIdle \in Nat \ {0}
    /\ StreamIdleTimeout \in Nat \ {0} /\ UpstreamDrainTimeout \in Nat \ {0}
    /\ Modes \subseteq [strip : BOOLEAN, translate : BOOLEAN, ka : BOOLEAN, stream : BOOLEAN]
    /\ Contents # {} /\ Contents \cap {"usage", "error", "closing"} = {}

VARIABLES
    mode,       \* the settings of the request and the kind of answer
    pc,         \* where StreamProxy is
    after,      \* what it does once the queue is written: "read", "loop", "error", "eof"
    outcome,    \* what it returned
    headers,    \* whether the status line was sent
    read,       \* the cells read so far
    recent, detected,       \* the loop detector: its ring and its verdict
    carry,      \* the model rewriter's held tail
    pending,    \* the SSE relay's incomplete frame
    jsonBuf, pass,          \* the translator's buffer and its passthrough switch
    queue,      \* items on their way to the client writer
    client,     \* items the client received, heartbeats left out
    ka, ws,     \* the keep-alive and the wait-signal timers
    glued,      \* whether a heartbeat landed where it does not belong
    quiet,      \* time since the client last received a byte
    sinceRead, watch, cancelled,  \* the watchdog's clock, whether it runs, its cancel
    drainLeft,  \* time left to the drain after a disconnect
    gone, ctxDone           \* the client left; its context says so

relayVars == <<after, outcome, headers, read, recent, detected, carry, pending, jsonBuf, pass>>
clientVars == <<client, glued, quiet>>
watchVars == <<sinceRead, watch, cancelled, drainLeft>>
goneVars == <<gone, ctxDone>>
vars == <<mode, pc, relayVars, queue, clientVars, ka, ws, watchVars, goneVars>>

-----------------------------------------------------------------------------
\* Cells, frames and items

Cell == [n : 1..MaxCells, part : {"whole", "head", "mhead", "tail"},
         text : Contents \cup {"usage"}, raw : BOOLEAN]

\* An error frame of the router, and the frames that close a translated stream.
ErrorCell == [n |-> 0, part |-> "whole", text |-> "error", raw |-> FALSE]
ClosingCell == [n |-> 0, part |-> "whole", text |-> "closing", raw |-> FALSE]

Item(cells, tr) == [cells |-> cells, tr |-> tr]
ErrorItem == Item(<<ErrorCell>>, FALSE)

Ends(cell) == cell.part \in {"whole", "tail"}
Terminated(frame) == Ends(Last(frame))

FirstN(s, n) == SubSeq(s, 1, n)
LastN(s, n) == SubSeq(s, Len(s) - n + 1, Len(s))

\* What a read may deliver next: a frame cut in two is continued by its tail.
\* The text of a frame that is cut is never parsed, so one stands for all.
CutTexts == {CHOOSE t \in Contents : TRUE, "usage"}
NextCells(prev) ==
    LET n == Len(prev) + 1 IN
    IF prev # <<>> /\ ~Ends(Last(prev))
    THEN {[n |-> n - 1, part |-> "tail", text |-> Last(prev).text, raw |-> FALSE]}
    ELSE {[n |-> n, part |-> "whole", text |-> t, raw |-> FALSE] : t \in Contents \cup {"usage"}}
         \cup {[n |-> n, part |-> p, text |-> t, raw |-> p = "mhead"] :
                   p \in {"head", "mhead"}, t \in CutTexts}
\* Nobody can tell the pieces apart once the client has left: a few are enough.
Chunks ==
    LET one == {<<c>> : c \in NextCells(read)}
        two == UNION {{Append(ch, c) : c \in NextCells(read \o ch)} : ch \in one}
        few == IF gone THEN {ch \in one : Ends(ch[1])} ELSE one \cup two
    IN  {ch \in few : Len(read \o ch) <= MaxCells}

-----------------------------------------------------------------------------
\* The writers, from the backend's side down

\* extractSSEContents: the texts of the data lines that are whole in this piece.
\* The line of a frame cut across reads does not parse and is not seen.
SeenIn(c) == IF c.part = "whole" /\ c.text \in Contents THEN <<c.text>> ELSE <<>>
AddSeen(texts, c) == texts \o SeenIn(c)
extractSSEContents(cells) == FoldLeft(AddSeen, <<>>, cells)

\* Mutant of allRecentIdentical: a ring that is not full counts.
allRecentIdentical_AnyLength(ring) == \A i, j \in DOMAIN ring : ring[i] = ring[j]

\* allRecentIdentical over a full ring, kept here as the last Window texts.
allRecentIdentical(ring) ==
    Len(ring) = Window /\ \A i, j \in DOMAIN ring : ring[i] = ring[j]

\* loopDetector.Write's loop over the texts of a piece: it stops at the first
\* one that completes a run of Window identical ones.
Kept(ring) == IF Len(ring) > Window THEN Tail(ring) ELSE ring
Notice(acc, t) ==
    IF acc.hit THEN acc
    ELSE LET r == Kept(Append(acc.ring, t)) IN [ring |-> r, hit |-> allRecentIdentical(r)]
Observe(ring, texts) == FoldLeft(Notice, [ring |-> ring, hit |-> FALSE], texts)

\* rewriteModelInResponse: a name is replaced when all of it is in the buffer.
rewriteModel(buf) ==
    [i \in DOMAIN buf |->
        [buf[i] EXCEPT !.raw = @ /\ ~(i < Len(buf) /\ buf[i + 1].n = buf[i].n)]]

\* Mutant of pendingModelHold: nothing is held back.
pendingModelHold_Never(buf) == 0

\* pendingModelHold: how much of the buffer could still complete into a name.
pendingModelHold(buf) == IF buf # <<>> /\ Last(buf).part = "mhead" THEN 1 ELSE 0

\* modelRewriteWriter.Write: what it forwards and what it holds back.
ModelWrite(cells) ==
    LET buf == rewriteModel(carry \o cells)
        hold == pendingModelHold(buf)
    IN  [out |-> FirstN(buf, Len(buf) - hold), carry |-> LastN(buf, hold)]

\* A frame, whole or not, is made of pieces: cells of the backend or of the router.
Texts == Contents \cup CutTexts \cup {"usage", "error", "closing"}
Piece == [n : Nat, part : {"whole", "head", "mhead", "tail"}, text : Texts, raw : BOOLEAN]
Frame == Seq(Piece) \ {<<>>}

\* findSSEFrameEnd, repeated: the complete frames at the front, and the rest.
LastEnd(buf) == SelectLastInSeq(buf, Ends)
AddPiece(frames, c) ==
    IF frames # <<>> /\ ~Terminated(Last(frames))
    THEN Append(Front(frames), Append(Last(frames), c))
    ELSE Append(frames, <<c>>)
Frames(cells) == FoldLeft(AddPiece, <<>>, cells)
CompleteFrames(buf) == Frames(FirstN(buf, LastEnd(buf)))
Incomplete(buf) == LastN(buf, Len(buf) - LastEnd(buf))

isUsageArtifact(frame) == \A i \in DOMAIN frame : frame[i].text = "usage"

\* Frames without the usage frames, which the router asked for itself.
AddStripped(frames, f) == IF isUsageArtifact(f) THEN frames ELSE Append(frames, f)
Stripped == [frames \in Seq(Frame) |-> FoldLeft(AddStripped, <<>>, frames)]

\* sseRelay.Write: bytes as they come for a raw answer; otherwise whole frames
\* only, without the ones that are not the client's.
RelayWrite(held, cells) ==
    IF ~mode.stream
    THEN [frames |-> IF cells = <<>> THEN <<>> ELSE <<cells>>, pending |-> held]
    ELSE LET buf == held \o cells
             whole == CompleteFrames(buf)
         IN  [frames |-> IF mode.strip THEN Stripped[whole] ELSE whole, pending |-> Incomplete(buf)]

\* The stream translator (package convert): a frame it cannot read, one a router
\* error was glued onto included, becomes an error event; a usage frame, nothing.
TranslateFrame(frame) ==
    IF Last(frame).text = "error" THEN <<ErrorItem>>
    ELSE IF isUsageArtifact(frame) THEN <<>>
    ELSE <<Item(frame, TRUE)>>
AddTranslated(items, frame) == items \o TranslateFrame(frame)
Translated(frames) == FoldLeft(AddTranslated, <<>>, frames)

\* translateWriter.Write on the frames of one write of the relay.
TranslateWrite(frames, buffered, passing) ==
    LET cells == buffered \o FlattenSeq(frames)
        native == [i \in DOMAIN frames |-> Item(frames[i], FALSE)]
        keep(items) == [items |-> items, jsonBuf |-> buffered, pass |-> passing]
    IN  IF ~mode.translate \/ passing THEN keep(native)
        ELSE IF mode.stream
        THEN keep(Translated(frames))
        ELSE IF frames = <<>> THEN keep(<<>>)
        ELSE IF Len(cells) > MaxTranslatedBody
        THEN [items |-> <<Item(cells, FALSE)>>, jsonBuf |-> <<>>, pass |-> TRUE]
        ELSE [items |-> <<>>, jsonBuf |-> cells, pass |-> FALSE]

-----------------------------------------------------------------------------
\* silenceWriter: on = started, since = time since lastWrite, left = time to the
\* timer (0: not armed), fired = its callback is waiting for the mutex.

NoTimer == [on |-> FALSE, since |-> 0, left |-> 0, fired |-> FALSE]

armLocked(t, idle) == [t EXCEPT !.left = idle]

\* Mutant of SilenceStart: the first window is not armed.
SilenceStart_NotArmed(t, idle) == IF t.on THEN t ELSE [t EXCEPT !.on = TRUE, !.since = 0]

SilenceStart(t, idle) ==
    IF t.on THEN t ELSE armLocked([t EXCEPT !.on = TRUE, !.since = 0], idle)

\* Mutant of SilenceStop: the timer is stopped, the writer still started.
SilenceStop_KeepsStarted(t) == [t EXCEPT !.left = 0]

SilenceStop(t) == [NoTimer EXCEPT !.fired = t.fired]
SilenceWrite(t, idle) ==
    LET w == [t EXCEPT !.since = 0] IN IF t.on THEN armLocked(w, idle) ELSE w
SilenceFlush(t, idle) == IF t.on THEN armLocked(t, idle) ELSE t

\* The clock runs on one timer.
Elapse(t, idle) ==
    IF ~t.on THEN t
    ELSE [t EXCEPT !.since = IF @ < idle THEN @ + 1 ELSE idle,
                   !.left = IF @ > 0 THEN @ - 1 ELSE 0,
                   !.fired = t.left = 1]

KaWrite(t) == IF mode.ka THEN SilenceWrite(t, KeepAliveIdle) ELSE t
KaFlush(t) == IF mode.ka THEN SilenceFlush(t, KeepAliveIdle) ELSE t

\* A heartbeat reaches the client; it must not follow an unfinished frame.
Heartbeat ==
    /\ glued' = (glued \/ ~mode.stream
                       \/ (client # <<>> /\ ~Terminated(Last(client).cells)))
    /\ quiet' = 0
    /\ UNCHANGED client

\* A write fails only once the client has left.  The relay's own writes may still
\* be accepted then; for a heartbeat that makes no difference to anyone.
MayFail == gone

\* Mutant of SkipsTick: a late callback never looks at the last write.
SkipsTick_Never(t, idle) == FALSE

\* signalTick of the keep-alive writer: skip when switched off, re-arm when data
\* was just written, otherwise send and arm the next window.
SkipsTick(t, idle) == t.since < idle
KaTick ==
    /\ ka.fired
    /\ LET t == [ka EXCEPT !.fired = FALSE] IN
       \/ /\ ~t.on /\ ka' = t
          /\ UNCHANGED clientVars
       \/ /\ t.on /\ SkipsTick(t, KeepAliveIdle)
          /\ ka' = armLocked(t, KeepAliveIdle)
          /\ UNCHANGED clientVars
       \/ /\ t.on /\ ~SkipsTick(t, KeepAliveIdle) /\ ~MayFail
          /\ ka' = armLocked(t, KeepAliveIdle)
          /\ Heartbeat
       \/ /\ t.on /\ ~SkipsTick(t, KeepAliveIdle) /\ MayFail
          /\ ka' = [t EXCEPT !.on = FALSE]
          /\ UNCHANGED clientVars
    /\ UNCHANGED <<mode, pc, relayVars, queue, ws, watchVars, goneVars>>

\* signalTick of the wait-signal writer, which writes through the keep-alive one.
WsTick ==
    /\ ws.fired
    /\ LET t == [ws EXCEPT !.fired = FALSE] IN
       \/ /\ ~t.on /\ ws' = t
          /\ UNCHANGED <<clientVars, ka>>
       \/ /\ t.on /\ SkipsTick(t, WaitSignalIdle)
          /\ ws' = armLocked(t, WaitSignalIdle)
          /\ UNCHANGED <<clientVars, ka>>
       \/ /\ t.on /\ ~SkipsTick(t, WaitSignalIdle) /\ ~MayFail
          /\ ws' = armLocked(t, WaitSignalIdle)
          /\ ka' = KaFlush(KaWrite(ka))
          /\ Heartbeat
       \/ /\ t.on /\ ~SkipsTick(t, WaitSignalIdle) /\ MayFail
          /\ ws' = [t EXCEPT !.on = FALSE]
          /\ ka' = KaWrite(ka)
          /\ UNCHANGED clientVars
    /\ UNCHANGED <<mode, pc, relayVars, queue, watchVars, goneVars>>

-----------------------------------------------------------------------------
\* StreamProxy

\* A return runs the deferred Stops and cancelStream, which ends the watchdog; the
\* writers' buffers go with the call.
Return(o) ==
    /\ pc' = "done" /\ outcome' = o
    /\ recent' = <<>> /\ carry' = <<>> /\ pending' = <<>> /\ jsonBuf' = <<>> /\ queue' = <<>>
    /\ ka' = SilenceStop(ka) /\ ws' = SilenceStop(ws)
    /\ watch' = FALSE /\ sinceRead' = 0 /\ drainLeft' = 0
    /\ UNCHANGED <<mode, after, headers, read, detected, pass, clientVars, cancelled, goneVars>>

\* client.Do failed: nothing was written.
DialFails ==
    /\ pc = "dial"
    /\ Return(IF ctxDone THEN "ctx" ELSE "transport")

\* What follows the answer's headers: arm the heartbeats and the watchdog for a
\* stream, copy the headers, write the status.
Begin ==
    /\ headers' = TRUE
    /\ ka' = IF mode.stream /\ mode.ka THEN SilenceStart(ka, KeepAliveIdle) ELSE ka
    /\ ws' = IF mode.stream THEN SilenceStart(ws, WaitSignalIdle) ELSE ws
    /\ watch' = mode.stream
    /\ sinceRead' = 0
    /\ quiet' = 0
    /\ UNCHANGED <<mode, outcome, client, glued, cancelled, drainLeft, goneVars>>

Answered ==
    /\ pc = "dial"
    /\ pc' = "read"
    /\ Begin
    /\ UNCHANGED <<after, read, recent, detected, carry, pending, jsonBuf, pass, queue>>

\* A 429 or 5xx: its body is peeked at before anything is sent.
AnsweredRetryable ==
    /\ pc = "dial"
    /\ pc' = "peek"
    /\ UNCHANGED <<mode, relayVars, queue, clientVars, ka, ws, watchVars, goneVars>>

PeekFrames == pc = "peek" /\ Return("streamError")
PeekSmall == pc = "peek" /\ Return("buffered")

\* Cells go down the chain as far as the client writer's queue.
Push(cells, held, buffered, passing) ==
    LET mw == ModelWrite(cells)
        rl == RelayWrite(held, mw.out)
        tw == TranslateWrite(rl.frames, buffered, passing)
    IN  /\ carry' = mw.carry /\ pending' = rl.pending
        /\ jsonBuf' = tw.jsonBuf /\ pass' = tw.pass
        /\ queue' = (IF passing /\ jsonBuf # <<>> THEN <<Item(jsonBuf, FALSE)>> ELSE <<>>)
                        \o tw.items

\* loopDetector.Write: the piece that completes a loop is not forwarded; the
\* error frame goes down the same chain instead.
DetectAndWrite(chunk) ==
    LET obs == Observe(recent, IF mode.stream THEN extractSSEContents(chunk) ELSE <<>>)
    IN  /\ pc' = "deliver"
        /\ read' = read \o chunk
        /\ recent' = obs.ring /\ detected' = obs.hit
        /\ after' = IF obs.hit THEN "loop" ELSE "read"
        /\ Push(IF obs.hit THEN <<ErrorCell>> ELSE chunk, pending, jsonBuf, pass)

\* An oversized error body is relayed, the bytes peeked at first.
PeekOversized ==
    /\ pc = "peek"
    /\ Begin
    /\ \E chunk \in Chunks : Len(chunk) = 1 /\ ~Ends(chunk[1]) /\ DetectAndWrite(chunk)

ReadData ==
    /\ pc = "read" /\ ~cancelled
    /\ \E chunk \in Chunks : DetectAndWrite(chunk)
    /\ sinceRead' = 0  \* lastRead
    /\ UNCHANGED <<mode, outcome, headers, clientVars, ka, ws, watch, cancelled, drainLeft, goneVars>>

\* What finish leaves to write: the rewriter's tail, the relay's incomplete
\* frame, and what the translator still owes.  A tail without its blank line may
\* be a frame the translator can read or not; a JSON body may fail to translate.
FinishFrames(frames, tail, ok) ==
    LET body == TranslateWrite(frames, jsonBuf, pass)
        started == client # <<>> \/ body.items # <<>>
        ends == IF ~mode.stream \/ tail = <<>> THEN <<>>
                ELSE IF ~mode.translate \/ pass THEN <<Item(tail, FALSE)>>
                ELSE IF ok THEN TranslateFrame(tail) ELSE <<ErrorItem>>
        closes == IF ~mode.translate \/ body.pass THEN <<>>
                  ELSE IF ~mode.stream
                  THEN IF body.jsonBuf = <<>> THEN <<>> ELSE <<Item(body.jsonBuf, ok)>>
                  ELSE IF ~(started \/ ends # <<>>) \/ (tail # <<>> /\ ~ok) THEN <<>>
                  ELSE <<Item(<<ClosingCell>>, TRUE)>>
    IN  body.items \o ends \o closes

\* Mutant of FinishStream: the incomplete frame is dropped.
FinishStream_LosesTail(ok) == LET rl == RelayWrite(pending, carry) IN FinishFrames(rl.frames, <<>>, ok)

FinishStream(ok) ==
    LET rl == RelayWrite(pending, carry) IN FinishFrames(rl.frames, rl.pending, ok)

ReadEOF ==
    /\ pc = "read" /\ ~cancelled
    /\ pc' = "deliver" /\ after' = "eof"
    /\ \E ok \in BOOLEAN : queue' = FinishStream(ok)
    /\ carry' = <<>> /\ pending' = <<>> /\ jsonBuf' = <<>>
    /\ UNCHANGED <<mode, outcome, headers, read, recent, detected, pass, clientVars, ka, ws,
                   watchVars, goneVars>>

\* The backend breaks off, or the watchdog cancelled the request.
ReadFails ==
    /\ pc = "read"
    /\ \/ ctxDone /\ Return("ctx")
       \/ /\ ~ctxDone
          /\ pc' = "deliver" /\ after' = "error"
          /\ Push(<<ErrorCell>>, pending, <<>>, mode.translate \/ pass)
          /\ UNCHANGED <<mode, outcome, headers, read, recent, detected, clientVars, ka, ws,
                         watchVars, goneVars>>

\* One write under the silence writers' mutexes, and its flush.
Deliver ==
    /\ pc = "deliver" /\ queue # <<>>
    /\ queue' = Tail(queue)
    /\ client' = IF gone THEN client ELSE Append(client, Head(queue))
    /\ quiet' = 0
    /\ ka' = KaFlush(KaWrite(ka))
    /\ ws' = SilenceFlush(SilenceWrite(ws, WaitSignalIdle), WaitSignalIdle)
    /\ UNCHANGED <<mode, pc, relayVars, glued, watchVars, goneVars>>

\* A failed write ends the relay: with the client known to have left, the
\* upstream is drained.  While closing, it is only logged.
WriteFails ==
    /\ pc = "deliver" /\ queue # <<>> /\ MayFail
    /\ \/ after = "loop" /\ Return("midstream")
       \/ after = "read" /\ ~ctxDone /\ Return("write")
       \/ /\ after = "read" /\ ctxDone
          /\ pc' = "drain" /\ drainLeft' = UpstreamDrainTimeout /\ queue' = <<>>
          /\ UNCHANGED <<mode, relayVars, clientVars, ka, ws, sinceRead, watch, cancelled, goneVars>>
       \/ /\ after \in {"eof", "error"}
          /\ queue' = Tail(queue)
          /\ UNCHANGED <<mode, pc, relayVars, clientVars, ka, ws, watchVars, goneVars>>

\* Mutant of Delivered: a broken stream is reported like a failed dial.
Delivered_PlainError ==
    /\ pc = "deliver" /\ queue = <<>>
    /\ \/ /\ after = "read"
          /\ pc' = "read"
          /\ UNCHANGED <<mode, relayVars, queue, clientVars, ka, ws, watchVars, goneVars>>
       \/ after = "eof" /\ Return("ok")
       \/ after \in {"loop", "error"} /\ Return("transport")

Delivered ==
    /\ pc = "deliver" /\ queue = <<>>
    /\ \/ /\ after = "read"
          /\ pc' = "read"
          /\ ka' = KaFlush(ka) /\ ws' = SilenceFlush(ws, WaitSignalIdle)
          /\ UNCHANGED <<mode, relayVars, queue, clientVars, watchVars, goneVars>>
       \/ after = "eof" /\ Return("ok")
       \/ after \in {"loop", "error"} /\ Return("midstream")

\* drainUpstreamBody: the body ends or breaks, or the deadline, which is looked at
\* between two reads, has passed.
DrainEnds == pc = "drain" /\ Return("ctx")
DrainDeadline == pc = "drain" /\ drainLeft = 0 /\ ~cancelled /\ Return("ctx")

\* Mutant of Watchdog: it never fires.
Watchdog_Never == FALSE /\ UNCHANGED vars

\* The watchdog goroutine.  It also ends when the client's context does, which is
\* folded into ContextDone: a cancel that races it comes first.
Watchdog ==
    /\ watch /\ sinceRead > StreamIdleTimeout
    /\ watch' = FALSE /\ cancelled' = TRUE
    /\ UNCHANGED <<mode, pc, relayVars, queue, clientVars, ka, ws, sinceRead, drainLeft, goneVars>>

-----------------------------------------------------------------------------
\* The client and the clock

\* What it received, and what is on its way, is followed only while it is there.
ClientLeaves ==
    /\ ~gone /\ pc # "done"
    /\ gone' = TRUE /\ client' = <<>> /\ quiet' = 0
    /\ queue' = [i \in DOMAIN queue |-> ErrorItem]
    /\ UNCHANGED <<mode, pc, relayVars, glued, ka, ws, watchVars, ctxDone>>

\* net/http notices the closed connection and cancels the request's context.
ContextDone ==
    /\ gone /\ ~ctxDone
    /\ ctxDone' = TRUE /\ watch' = FALSE /\ sinceRead' = 0
    /\ UNCHANGED <<mode, pc, relayVars, queue, clientVars, ka, ws, cancelled, drainLeft, gone>>

\* Before the headers no clock of this module runs; after a disconnect the
\* heartbeats reach nobody, and only the drain's deadline is followed.
Tick ==
    /\ ~ka.fired /\ ~ws.fired
    /\ \/ /\ pc = "read" /\ ~ctxDone
          /\ ka' = Elapse(ka, KeepAliveIdle) /\ ws' = Elapse(ws, WaitSignalIdle)
          /\ quiet' = IF mode.stream /\ ~gone /\ quiet <= WaitSignalIdle THEN quiet + 1 ELSE quiet
          /\ sinceRead' = IF watch /\ sinceRead <= StreamIdleTimeout THEN sinceRead + 1 ELSE sinceRead
          /\ UNCHANGED drainLeft
       \/ /\ pc = "drain" /\ drainLeft > 0
          /\ drainLeft' = drainLeft - 1
          /\ UNCHANGED <<ka, ws, quiet, sinceRead>>
    /\ UNCHANGED <<mode, pc, relayVars, queue, client, glued, watch, cancelled, goneVars>>

Init ==
    /\ mode \in Modes
    /\ pc = "dial" /\ after = "read" /\ outcome = "none" /\ headers = FALSE
    /\ read = <<>> /\ recent = <<>> /\ detected = FALSE
    /\ carry = <<>> /\ pending = <<>> /\ jsonBuf = <<>> /\ pass = FALSE
    /\ queue = <<>> /\ client = <<>> /\ glued = FALSE /\ quiet = 0
    /\ ka = NoTimer /\ ws = NoTimer
    /\ sinceRead = 0 /\ watch = FALSE /\ cancelled = FALSE /\ drainLeft = 0
    /\ gone = FALSE /\ ctxDone = FALSE

Backend == DialFails \/ Answered \/ AnsweredRetryable \/ PeekFrames \/ PeekSmall
              \/ PeekOversized \/ ReadData \/ ReadEOF \/ ReadFails \/ DrainEnds \/ DrainDeadline
Relay == Deliver \/ WriteFails \/ Delivered
Next == Backend \/ Relay \/ KaTick \/ WsTick \/ Watchdog \/ ClientLeaves \/ ContextDone \/ Tick

\* Goroutines run, timers fire, time passes, a cancelled read returns.  Nothing
\* is assumed of the backend or of the client.
Fairness ==
    /\ WF_vars(Relay)
    /\ WF_vars(KaTick) /\ WF_vars(WsTick) /\ WF_vars(Watchdog)
    /\ WF_vars(ContextDone)
    /\ WF_vars(Tick)
    /\ WF_vars(cancelled /\ (ReadFails \/ DrainEnds))

Spec == Init /\ [][Next]_vars /\ Fairness

-----------------------------------------------------------------------------
\* Properties

Timer(idle) == [on : BOOLEAN, since : 0..idle, left : 0..idle, fired : BOOLEAN]

\* Every variable stays in its set; a silence timer never counts past its idle
\* time, the ring never holds more than Window texts, and at most the bytes of
\* one unfinished frame are held back between reads.
StreamTypeOK ==
    /\ pc \in {"dial", "peek", "read", "deliver", "drain", "done"}
    /\ after \in {"read", "loop", "error", "eof"}
    /\ outcome \in {"none", "ok", "ctx", "transport", "streamError", "buffered", "write", "midstream"}
    /\ read \in Seq(Cell) /\ Len(read) <= MaxCells
    /\ recent \in Seq(Contents) /\ Len(recent) <= Window
    /\ Len(carry) <= 1 /\ Len(pending) <= 1
    /\ Len(jsonBuf) <= MaxTranslatedBody
    /\ ka \in Timer(KeepAliveIdle) /\ ws \in Timer(WaitSignalIdle)
    /\ {headers, detected, pass, glued, watch, cancelled, gone, ctxDone} \subseteq BOOLEAN

\* Where in the backend's answer the cells of a piece, or of items, come from.  The
\* router's own frames and the usage frames come from nowhere in it.
PlaceIn(c) == IF c.n > 0 /\ c.text # "usage" THEN <<<<c.n, c.part>>>> ELSE <<>>
AddPlace(places, c) == places \o PlaceIn(c)
Places(cells) == FoldLeft(AddPlace, <<>>, cells)
AddPlaces(places, item) == places \o Places(item.cells)
PlacesOf(items) == FoldLeft(AddPlaces, <<>>, items)
Told == \E i \in DOMAIN client : Last(client[i].cells).text = "error"

\* Through every writer, split, hold and flush, the client reads the backend's
\* frames in order, none lost, doubled or overtaken; an answer StreamProxy calls
\* complete is complete, or the client was told otherwise.
FramesInOrder ==
    LET got == PlacesOf(client)
        all == Places(read)
    IN  /\ IsPrefix(got, all)
        /\ outcome = "ok" /\ ~gone => got = all \/ Told

\* A finished frame never shows the client the backend's model name, wherever
\* the reads cut it, nor a usage frame the router asked for behind its back.
Disguised ==
    \A i \in DOMAIN client :
        LET cells == client[i].cells IN
        mode.stream /\ Terminated(cells) /\ Last(cells).text # "error" =>
            /\ \A j \in DOMAIN cells : ~cells[j].raw
            /\ ~(mode.strip /\ isUsageArtifact(cells))

\* A heartbeat never lands inside a frame, and never in an answer that is not an
\* event stream, however the timer callback races the relay for the mutex.
HeartbeatsBetweenFrames == ~glued

\* While the backend is silent, a client that stays on a stream never waits longer
\* for a byte than the idle time of the lowest timer it has.  (A backend that
\* trickles bytes which end no frame re-arms the timers through Flush and gets no
\* such promise.)
NeverSilent ==
    LET idle == IF mode.ka THEN KeepAliveIdle ELSE WaitSignalIdle IN
    watch /\ pc = "read" /\ ~gone /\ quiet > idle => sinceRead <= idle

\* The loop detector stops the answer at the first run of Window identical texts
\* it could see whole, and only then.
LoopCut ==
    LET seen == extractSSEContents(read)
        runs == {i \in Window..Len(seen) : \A j \in i - Window + 1..i : seen[j] = seen[i]}
    IN  mode.stream => (detected <=> runs # {})

\* What the client reads is the backend's answer: its frames in order, under the
\* name the client asked for, and cut short for a real loop only.
RelayFaithful == FramesInOrder /\ Disguised /\ LoopCut

\* Heartbeats do their work and no harm: a client hears of a silent backend in
\* time, and never in the middle of a frame.
HeartbeatsSound == HeartbeatsBetweenFrames /\ NeverSilent

\* An outcome the router takes as leave to try elsewhere means that no client
\* that is still there has seen a byte of this answer.
RetryOnlyUnsent ==
    outcome \in {"transport", "streamError", "buffered", "write"} => ~headers \/ gone

\* Nothing is written to the client after StreamProxy returned, not even by a
\* timer callback that was already waiting.
SilentAfterReturn == [][pc = "done" => UNCHANGED clientVars]_vars

\* A stream whose backend falls silent does not hold a client for ever: the
\* watchdog ends it.
StreamEnds == (pc \in {"read", "deliver"} /\ mode.stream) ~> (pc = "done" \/ gone)

=============================================================================
