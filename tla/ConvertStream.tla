---------------------------- MODULE ConvertStream ----------------------------
(***************************************************************************)
(* The stream converters: Chat Completions chunks rebuilt as Anthropic     *)
(* message events (convert/stream.go) or Responses events                  *)
(* (convert/stream_responses.go), and the JSON direction of the same       *)
(* answers (convert/response.go, convert/responses.go), which is the       *)
(* reference the streams are compared with.                                *)
(*                                                                         *)
(* An emitter is a record; each of its operations maps it to the next one  *)
(* and the events it writes.  A piece of text or of arguments is the       *)
(* number of the chunk that carried it.  A chunk has one choice or none.   *)
(***************************************************************************)
EXTENDS Integers, Sequences, FiniteSets, SequencesExt

NoUsage == [prompt |-> -1, cached |-> 0, completion |-> 0]
NoDelta == [kind |-> "chunk", choice |-> TRUE, text |-> FALSE, think |-> FALSE, calls |-> <<>>,
            finish |-> "", usage |-> NoUsage]

Quiet(st) == [st |-> st, ev |-> <<>>]
\* One operation after another.
Then(x, Op(_)) == LET y == Op(x.st) IN [st |-> y.st, ev |-> x.ev \o y.ev]

stopReason(fr) ==
    CASE fr = "length" -> "max_tokens" [] fr = "tool_calls" -> "tool_use"
      [] fr = "content_filter" -> "refusal" [] OTHER -> "end_turn"

responsesStatus(fr) == IF fr \in {"length", "content_filter"} THEN "incomplete" ELSE "completed"

-----------------------------------------------------------------------------
(* chatToMessages.                                                         *)

NewChatToMessages ==
    [open |-> -1, kind |-> "", tools |-> <<>>, next |-> 0, stop |-> "end_turn", input |-> -1, output |-> 0,
     started |-> FALSE, failed |-> FALSE]

start(m) == [st |-> [m EXCEPT !.started = TRUE], ev |-> IF m.started THEN <<>> ELSE <<[e |-> "start"]>>]

closeText(m) ==
    [st |-> [m EXCEPT !.kind = ""], ev |-> IF m.kind = "" THEN <<>> ELSE <<[e |-> "stop", at |-> m.open]>>]

OpenBlock(m, kind) == [st |-> [m EXCEPT !.kind = kind, !.open = m.next, !.next = @ + 1],
                       ev |-> <<[e |-> "open", at |-> m.next, kind |-> kind]>>]

\* A delta of one kind of prose goes to the open block of that kind; another
\* kind's block is closed first, the blocks of running calls are not.
text(m, kind, piece) ==
    Then(IF m.kind = kind THEN Quiet(m) ELSE Then(closeText(m), LAMBDA x : OpenBlock(x, kind)),
         LAMBDA x : [st |-> x, ev |-> <<[e |-> "delta", at |-> x.open, piece |-> piece]>>])

toolArgs(m, blk, tc, piece) ==
    [st |-> m, ev |-> IF tc.args THEN <<[e |-> "delta", at |-> blk, piece |-> piece]>> ELSE <<>>]

OpenTool(m, tc) ==
    [st |-> [m EXCEPT !.tools = Append(@, [idx |-> tc.idx, blk |-> m.next, id |-> IF tc.id = "" THEN "toolu" ELSE tc.id]),
                      !.next = @ + 1],
     ev |-> <<[e |-> "open", at |-> m.next, kind |-> "tool"]>>]

\* Mutant of tool: a fragment goes to the block opened last.
tool_LastOpened(m, tc, piece) ==
    IF m.tools # <<>> /\ tc.id = "" THEN toolArgs(m, m.tools[Len(m.tools)].blk, tc, piece)
    ELSE Then(Then(closeText(m), LAMBDA x : OpenTool(x, tc)), LAMBDA x : toolArgs(x, x.next - 1, tc, piece))

\* tool: a call index not seen before, or seen with another id, opens a block of
\* its own; anything else continues the block the index owns.
tool(m, tc, piece) ==
    LET own == SelectSeq(m.tools, LAMBDA t : t.idx = tc.idx)
        seen == own # <<>>
        last == own[Len(own)]
        ended == [st |-> [m EXCEPT !.tools = SelectSeq(@, LAMBDA t : t.idx # tc.idx)],
                  ev |-> <<[e |-> "stop", at |-> last.blk]>>]
    IN  IF seen /\ tc.id \in {"", last.id} THEN toolArgs(m, last.blk, tc, piece)
        ELSE Then(Then(IF seen THEN ended ELSE closeText(m), LAMBDA x : OpenTool(x, tc)),
                  LAMBDA x : toolArgs(x, x.next - 1, tc, piece))

\* Mutant of close: the blocks of running calls are forgotten, not closed.
close_TextOnly(m) == Then(closeText(m), LAMBDA x : Quiet([x EXCEPT !.tools = <<>>]))

close(m) ==
    Then(closeText(m), LAMBDA x : [st |-> [x EXCEPT !.tools = <<>>],
                                   ev |-> [k \in DOMAIN x.tools |-> [e |-> "stop", at |-> x.tools[k].blk]]])

messageDelta(m) ==
    [st |-> m, ev |-> <<[e |-> "report", stop |-> m.stop, input |-> m.input, output |-> m.output]>>]

finish(m, fr) == Then(close([m EXCEPT !.stop = stopReason(fr)]), LAMBDA x : messageDelta(x))

readUsage(st, u) ==
    IF u = NoUsage THEN st ELSE [st EXCEPT !.input = u.prompt - u.cached, !.output = u.completion]

errorFrame(st) == [st |-> [st EXCEPT !.failed = TRUE], ev |-> <<[e |-> "error"]>>]

\* A chunk of chatToMessages.handle.
messagesChunk(m, f, piece) ==
    LET m0 == readUsage(m, f.usage)
        thought == Then(start(m0), LAMBDA x : IF f.think THEN text(x, "think", piece) ELSE Quiet(x))
        spoken == Then(thought, LAMBDA x : IF f.text THEN text(x, "text", piece) ELSE Quiet(x))
        called == FoldLeft(LAMBDA x, tc : Then(x, LAMBDA y : tool(y, tc, piece)), spoken, f.calls)
    IN  IF ~f.choice THEN Quiet(m0)
        ELSE Then(called, LAMBDA x : IF f.finish = "" THEN Quiet(x) ELSE finish(x, f.finish))

\* Mutant of messagesHandle: frames are read on after an error.
messagesHandle_ReadsOn(m, f, piece) ==
    CASE f.kind = "chunk" -> messagesChunk(m, f, piece)
      [] f.kind \in {"error", "foreign"} -> errorFrame(m)
      [] f.kind = "native" -> [st |-> m, ev |-> <<[e |-> "ping"]>>]
      [] OTHER -> Quiet(m)

\* chatToMessages.handle: nothing after an error; an event of the client's own
\* dialect passes; an upstream error, or a frame of no known dialect, ends it.
messagesHandle(m, f, piece) ==
    CASE m.failed -> Quiet(m)
      [] ~m.failed /\ f.kind = "chunk" -> messagesChunk(m, f, piece)
      [] ~m.failed /\ f.kind \in {"error", "foreign"} -> errorFrame(m)
      [] ~m.failed /\ f.kind = "native" -> [st |-> m, ev |-> <<[e |-> "ping"]>>]
      [] OTHER -> Quiet(m)

\* Mutant of messagesEnd: a stream that saw no finish_reason is left open.
messagesEnd_TrustsFinish(m) ==
    IF ~m.started \/ m.failed THEN Quiet(m)
    ELSE Then(messageDelta(m), LAMBDA y : [st |-> y, ev |-> <<[e |-> "end"]>>])

\* The close of chatToMessages.FinishFrames.
messagesEnd(m) ==
    IF ~m.started \/ m.failed THEN Quiet(m)
    ELSE Then(Then(close(m), LAMBDA x : messageDelta(x)), LAMBDA y : [st |-> y, ev |-> <<[e |-> "end"]>>])

-----------------------------------------------------------------------------
(* chatToResponses.                                                        *)

NewChatToResponses ==
    [seq |-> 0, started |-> FALSE, finished |-> FALSE, failed |-> FALSE, input |-> -1, output |-> 0, stop |-> "",
     text |-> <<>>, think |-> <<>>, msgItem |-> -1, rsItem |-> -1, calls |-> <<>>, next |-> 0]

\* ev: every event takes the next sequence number.
ev(r, event) == [st |-> [r EXCEPT !.seq = @ + 1], ev |-> <<[e |-> event.e, seq |-> r.seq + 1, of |-> event]>>]
Evs(r, events) == FoldLeft(LAMBDA x, event : Then(x, LAMBDA y : ev(y, event)), Quiet(r), events)

respStart(r) ==
    IF r.started THEN Quiet(r) ELSE Evs([r EXCEPT !.started = TRUE], <<[e |-> "start"], [e |-> "ping"]>>)

Added(r, kind) == ev([r EXCEPT !.next = @ + 1], [e |-> "open", at |-> r.next, kind |-> kind])
Delta(r, at, piece) == ev(r, [e |-> "delta", at |-> at, piece |-> piece])

textDelta(r, piece) ==
    LET r0 == [r EXCEPT !.text = Append(@, piece)]
    IN  Then(IF r.msgItem >= 0 THEN Quiet(r0) ELSE Added([r0 EXCEPT !.msgItem = r.next], "text"),
             LAMBDA x : Delta(x, x.msgItem, piece))

reasoningDelta(r, piece) ==
    LET r0 == [r EXCEPT !.think = Append(@, piece)]
    IN  Then(IF r.rsItem >= 0 THEN Quiet(r0) ELSE Added([r0 EXCEPT !.rsItem = r.next], "think"),
             LAMBDA x : Delta(x, x.rsItem, piece))

closeCall(r, i) ==
    ev(r, [e |-> "stop", at |-> r.calls[i].item, pieces |-> r.calls[i].args])

\* call: the FIRST call of that index decides; a fresh id closes it, and leaves
\* it in the list, before the new call is added behind it.
call(r, tc, piece) ==
    LET i == SelectInSeq(r.calls, LAMBDA c : c.idx = tc.idx)
        new == [idx |-> tc.idx, item |-> r.next, id |-> IF tc.id = "" THEN "call" ELSE tc.id,
                args |-> IF tc.args THEN <<piece>> ELSE <<>>]
        before == IF i = 0 THEN Quiet(r) ELSE closeCall(r, i)
    IN  IF i > 0 /\ tc.id \in {"", r.calls[i].id}
        THEN IF tc.args THEN Delta([r EXCEPT !.calls[i].args = Append(@, piece)], r.calls[i].item, piece) ELSE Quiet(r)
        ELSE Then(Then(before, LAMBDA x : Added([x EXCEPT !.calls = Append(@, new)], "tool")),
                  LAMBDA x : IF tc.args THEN Delta(x, new.item, piece) ELSE Quiet(x))

closeItems(r) ==
    LET message == IF r.msgItem < 0 THEN <<>> ELSE <<[e |-> "stop", at |-> r.msgItem, pieces |-> r.text]>>
        reasoning == IF r.rsItem < 0 THEN <<>> ELSE <<[e |-> "stop", at |-> r.rsItem, pieces |-> r.think]>>
        calls == [i \in DOMAIN r.calls |-> [e |-> "stop", at |-> r.calls[i].item, pieces |-> r.calls[i].args]]
    IN  Evs(r, message \o reasoning \o calls)

\* The terminal event restates the whole answer (items) and the usage.
terminal(r) ==
    ev(r, [e |-> IF r.failed THEN "failed" ELSE "report",
           stop |-> responsesStatus(r.stop), input |-> r.input, output |-> r.output,
           items |-> [text |-> r.text, think |-> r.think, calls |-> [i \in DOMAIN r.calls |-> r.calls[i].args]]])

respFinish(r, fr) ==
    IF fr = "error" THEN terminal([r EXCEPT !.failed = TRUE, !.finished = TRUE])
    ELSE Then(closeItems([r EXCEPT !.stop = fr, !.finished = TRUE]), LAMBDA x : terminal(x))

responsesChunk(r, f, piece) ==
    LET r0 == readUsage(r, f.usage)
        thought == Then(respStart(r0), LAMBDA x : IF f.think THEN reasoningDelta(x, piece) ELSE Quiet(x))
        spoken == Then(thought, LAMBDA x : IF f.text THEN textDelta(x, piece) ELSE Quiet(x))
        called == FoldLeft(LAMBDA x, tc : Then(x, LAMBDA y : call(y, tc, piece)), spoken, f.calls)
    IN  IF ~f.choice THEN Quiet(r0)
        ELSE Then(called, LAMBDA x : IF f.finish = "" THEN Quiet(x) ELSE respFinish(x, f.finish))

\* chatToResponses.handle: nothing after an error or after the terminal event.
responsesHandle(r, f, piece) ==
    LET on == ~r.failed /\ ~r.finished
    IN  CASE on /\ f.kind = "chunk" -> responsesChunk(r, f, piece)
          [] on /\ f.kind \in {"error", "foreign"} -> ev([r EXCEPT !.failed = TRUE], [e |-> "error"])
          [] on /\ f.kind = "native" -> [st |-> r, ev |-> <<[e |-> "native"]>>]
          [] OTHER -> Quiet(r)

\* The close of chatToResponses.FinishFrames.
responsesEnd(r) ==
    LET closed == IF r.finished THEN Quiet(r)
                  ELSE Then(closeItems([r EXCEPT !.finished = TRUE]), LAMBDA x : terminal(x))
    IN  IF ~r.started \/ r.failed THEN Quiet(r)
        ELSE Then(closed, LAMBDA x : [st |-> x, ev |-> <<[e |-> "done"]>>])

-----------------------------------------------------------------------------
(* The JSON direction: one complete chat answer.                           *)

ChatToMessages(a) ==
    [text |-> a.text, think |-> a.think, calls |-> [i \in DOMAIN a.calls |-> a.calls[i].args],
     stop |-> stopReason(a.finish), input |-> Max({0, a.usage.prompt - a.usage.cached}), output |-> a.usage.completion]

ChatToResponses(a) ==
    [text |-> a.text, think |-> a.think, calls |-> [i \in DOMAIN a.calls |-> a.calls[i].args],
     stop |-> responsesStatus(a.finish), input |-> Max({0, a.usage.prompt - a.usage.cached}), output |-> a.usage.completion]

=============================================================================
