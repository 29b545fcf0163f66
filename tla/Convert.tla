------------------------------- MODULE Convert -------------------------------
(***************************************************************************)
(* One exchange of a client with a backend that may speak another dialect: *)
(* the plan, the converted request, the converted stream, and the client's *)
(* own reading of that stream (the accumulator of an SDK, external).  The  *)
(* backend is a Chat Completions server: its frames arrive whole or split, *)
(* it may fail, answer garbage, or end at any point.                       *)
(***************************************************************************)
EXTENDS ConvertRequest, ConvertStream

CONSTANTS
    Protocols,     \* what a backend may declare
    Forced,        \* convert settings of a rule
    Asks,          \* Asks[client]: the requests the client may send
    Frames,        \* what the backend may send
    ReuseFor,      \* client dialects whose backend may reuse a call index
    MaxFrames      \* bound on the frames of one answer

VARIABLES
    phase, client, protocols, forced, dropParams,
    ask, sent,     \* the request and its conversion
    em,            \* the emitter
    buf,           \* its buffer: a frame whose terminator has not arrived, or NoFrame
    view,          \* external: what the client has read
    said,          \* ghost: the answer the backend gave so far
    n              \* frames so far

convertVars == <<phase, client, protocols, forced, dropParams, ask, sent, em, buf, view, said, n>>

NoFrame == [kind |-> "none"]
NoAsk == [turns |-> <<>>, params |-> <<>>, tools |-> <<>>, continues |-> FALSE]
NoView == [started |-> FALSE, items |-> <<>>, stop |-> "", input |-> 0, output |-> 0, seq |-> 0,
           reported |-> FALSE, restated |-> <<>>, ended |-> FALSE, errored |-> FALSE, bad |-> FALSE]
NoAnswer == [text |-> <<>>, think |-> <<>>, calls |-> <<>>, finish |-> "",
             usage |-> [prompt |-> 0, cached |-> 0, completion |-> 0]]

-----------------------------------------------------------------------------
(* The client's accumulator.                                               *)

AllClosed(v) == \A k \in DOMAIN v.items : ~v.items[k].open
IsOpen(v, at) == at + 1 \in DOMAIN v.items /\ v.items[at + 1].open

\* Events an SDK accepts in the state it is in.
Acceptable(v, x) ==
    /\ ~v.ended /\ ~v.errored
    /\ CASE x.e = "start" -> ~v.started
         [] x.e = "open" -> v.started /\ x.at = Len(v.items)
         [] x.e = "delta" -> IsOpen(v, x.at)
         [] x.e = "stop" -> IsOpen(v, x.at) /\ ("pieces" \in DOMAIN x => x.pieces = v.items[x.at + 1].pieces)
         [] x.e = "report" -> v.started /\ AllClosed(v)
         [] x.e \in {"end", "done"} -> v.reported /\ AllClosed(v)
         [] OTHER -> TRUE

Read(v, x) ==
    CASE x.e = "start" -> [v EXCEPT !.started = TRUE]
      [] x.e = "open" -> [v EXCEPT !.items = Append(@, [kind |-> x.kind, pieces |-> <<>>, open |-> TRUE])]
      [] x.e = "delta" /\ IsOpen(v, x.at) -> [v EXCEPT !.items[x.at + 1].pieces = Append(@, x.piece)]
      [] x.e = "stop" /\ IsOpen(v, x.at) -> [v EXCEPT !.items[x.at + 1].open = FALSE]
      [] x.e = "report" ->
            [v EXCEPT !.reported = TRUE, !.stop = x.stop, !.input = IF x.input < 0 THEN @ ELSE x.input,
                      !.output = x.output, !.restated = IF "items" \in DOMAIN x THEN <<x.items>> ELSE <<>>]
      [] x.e \in {"end", "done"} -> [v EXCEPT !.ended = TRUE]
      [] x.e \in {"error", "failed"} -> [v EXCEPT !.errored = TRUE]
      [] OTHER -> v

\* A Responses client also checks the numbering, and accepts nothing between the
\* terminal event and [DONE].
Accept(v, x) ==
    LET numbered == "seq" \in DOMAIN x
        y == IF numbered THEN x.of ELSE x
        ok == /\ Acceptable(v, y)
              /\ numbered => x.seq = v.seq + 1 /\ ~v.reported
    IN  [Read(v, y) EXCEPT !.bad = @ \/ ~ok, !.seq = IF numbered THEN x.seq ELSE @]

Reads(v, events) == FoldLeft(LAMBDA a, x : Accept(a, x), v, events)

-----------------------------------------------------------------------------
(* The backend.                                                            *)

Continues(a, tc) == \E i \in DOMAIN a.calls : a.calls[i].idx = tc.idx
Owner(a, tc) == Max({i \in DOMAIN a.calls : a.calls[i].idx = tc.idx})
Fresh(a, tc) == tc.id # "" /\ tc.id # a.calls[Owner(a, tc)].id

\* The answer the chunks add up to, by the rules of the chat protocol.
CallSaid(a, tc, piece) ==
    LET more == IF tc.args THEN <<piece>> ELSE <<>>
    IN  IF Continues(a, tc) /\ ~Fresh(a, tc) THEN [a EXCEPT !.calls[Owner(a, tc)].args = @ \o more]
        ELSE [a EXCEPT !.calls = Append(@, [idx |-> tc.idx, id |-> tc.id, args |-> more])]

Said(a, f, piece) ==
    IF f.kind # "chunk" THEN a
    ELSE LET b == FoldLeft(LAMBDA x, tc : CallSaid(x, tc, piece), a, f.calls)
         IN  [b EXCEPT !.text = IF f.text THEN Append(@, piece) ELSE @,
                       !.think = IF f.think THEN Append(@, piece) ELSE @,
                       !.finish = IF f.finish # "" THEN f.finish ELSE @,
                       !.usage = IF f.usage # NoUsage THEN f.usage ELSE @]

\* A chat stream carries no content after its finish_reason, only usage; an index
\* that reappears with a fresh id is sent to the clients of ReuseFor alone.
Speaks(f) ==
    f.kind = "chunk" =>
        /\ said.finish # "" => ~f.choice /\ (f.usage # NoUsage => client = "messages")
        /\ \A k \in DOMAIN f.calls : Continues(said, f.calls[k]) /\ Fresh(said, f.calls[k]) => client \in ReuseFor

-----------------------------------------------------------------------------

\* convert.Decide for an attempt of a request.
Plan ==
    LET p == Decide(client, protocols, forced)
    IN  /\ phase = "plan"
        /\ phase' = IF ~p.ok THEN "refused" ELSE IF p.dialect = client THEN "passthrough" ELSE "convert"
        /\ protocols' = <<>> /\ forced' = "off"
        /\ UNCHANGED <<client, dropParams, ask, sent, em, buf, view, said, n>>

\* convert.Request, once the plan converts.
Request(a) ==
    /\ ask' = a
    /\ sent' = IF client = "messages" THEN MessagesToChat(a, dropParams) ELSE ResponsesToChat(a, dropParams)
    /\ phase' = "converted"
    /\ UNCHANGED <<client, protocols, forced, dropParams, em, buf, view, said, n>>

\* The backend accepts the request; convert.NewStream.
Answered ==
    /\ phase = "converted" /\ ~sent.refused
    /\ phase' = "relay" /\ ask' = NoAsk /\ sent' = Refused /\ dropParams' = FALSE
    /\ em' = IF client = "messages" THEN NewChatToMessages ELSE NewChatToResponses
    /\ UNCHANGED <<client, protocols, forced, buf, view, said, n>>

handle(f, piece) ==
    IF client = "messages" THEN messagesHandle(em, f, piece) ELSE responsesHandle(em, f, piece)

Deliver(x) == em' = x.st /\ view' = Reads(view, x.ev)

\* WriteFrame with a whole frame.
WriteFrame(f) ==
    /\ phase = "relay" /\ buf = NoFrame /\ n < MaxFrames /\ Speaks(f)
    /\ n' = n + 1 /\ said' = Said(said, f, n + 1)
    /\ Deliver(handle(f, n + 1))
    /\ UNCHANGED <<phase, client, protocols, forced, dropParams, ask, sent, buf>>

\* WriteFrame with a frame whose blank line has not arrived: it is held.
WritePart(f) ==
    /\ phase = "relay" /\ buf = NoFrame /\ n < MaxFrames /\ Speaks(f) /\ f.kind = "chunk"
    /\ n' = n + 1 /\ said' = Said(said, f, n + 1)
    /\ buf' = f
    /\ UNCHANGED <<phase, client, protocols, forced, dropParams, ask, sent, em, view>>

WriteRest ==
    /\ phase = "relay" /\ buf # NoFrame
    /\ buf' = NoFrame
    /\ Deliver(handle(buf, n))
    /\ UNCHANGED <<phase, client, protocols, forced, dropParams, ask, sent, said, n>>

\* FinishFrames: a held tail is a frame, then everything owed is closed.
FinishFrames ==
    LET tail == IF buf = NoFrame THEN Quiet(em) ELSE handle(buf, n)
        End(st) == IF client = "messages" THEN messagesEnd(st) ELSE responsesEnd(st)
    IN  /\ phase = "relay"
        /\ Deliver(Then(tail, End))
        /\ buf' = NoFrame /\ phase' = "done"
        /\ UNCHANGED <<client, protocols, forced, dropParams, ask, sent, said, n>>

ConvertInit ==
    /\ phase = "plan"
    /\ client \in {"messages", "responses", "chat", "legacy", ""}
    /\ protocols \in Protocols /\ forced \in Forced /\ dropParams \in BOOLEAN
    /\ ask = NoAsk /\ sent = Refused
    /\ em = NewChatToMessages /\ buf = NoFrame /\ view = NoView /\ said = NoAnswer /\ n = 0

ConvertNext ==
    \/ Plan \/ Answered \/ WriteRest \/ FinishFrames
    \/ phase = "convert" /\ \E a \in Asks[client] : Request(a)
    \/ \E f \in Frames : WriteFrame(f) \/ WritePart(f)

ConvertSpec == ConvertInit /\ [][ConvertNext]_convertVars

-----------------------------------------------------------------------------

\* What the emitter believes open is what the client has open: the block or item
\* numbers it hands out are exactly the client's.
ConvertTypeOK ==
    phase = "relay" =>
        /\ em.next = Len(view.items) /\ em.started = view.started
        /\ client = "messages" =>
            {k \in DOMAIN view.items : view.items[k].open} =
                {em.tools[i].blk + 1 : i \in DOMAIN em.tools} \cup (IF em.kind = "" THEN {} ELSE {em.open + 1})

PartsOf(i) ==
    LET t == ask.turns[i]
    IN  IF client = "messages" THEN [k \in DOMAIN t.blocks |-> t.blocks[k].type]
        ELSE IF t.type = "message" THEN t.parts ELSE <<t.type>>
Carried == UNION {ToSet(sent.chat[j].parts) : j \in DOMAIN sent.chat}

\* The loss policy: whatever the client said is in the chat conversation, exactly
\* once, or it is named in the notes and the operator allowed drops ("reported as
\* a dropped item, never silently skipped").  The one exception is a system item
\* of the Responses API made of several parts, which ResponsesToChat loses.
NothingVanishes ==
    phase = "converted" /\ ~sent.refused =>
        /\ \A i \in DOMAIN ask.turns : \A k \in DOMAIN PartsOf(i) :
            \/ <<i, k>> \in Carried
            \/ PartsOf(i)[k] \in sent.notes /\ dropParams
            \/ client = "responses" /\ ask.turns[i].role = "system"
                /\ (Len(PartsOf(i)) > 1 \/ PartsOf(i)[1] # "text")
        /\ \A p \in ToSet(ask.params) : p.carried \/ (p.name \in sent.notes /\ (dropParams \/ p.reported))
        /\ \A j, l \in DOMAIN sent.chat : j # l => ToSet(sent.chat[j].parts) \cap ToSet(sent.chat[l].parts) = {}

\* A request whose results answer the calls just before them.
WellPaired ==
    \A i \in DOMAIN ask.turns :
        IF client = "messages"
        THEN \A k \in DOMAIN ask.turns[i].blocks :
                ask.turns[i].blocks[k].type = "tool_result" =>
                    /\ ask.turns[i].role = "user" /\ i > 1
                    /\ ask.turns[i - 1].role = "assistant"
                    /\ \E b \in ToSet(ask.turns[i - 1].blocks) : b.type = "tool_use" /\ b.id = ask.turns[i].blocks[k].id
        ELSE ask.turns[i].type = "function_call_output" =>
                \E j \in 1 .. i - 1 :
                    /\ ask.turns[j].type = "function_call" /\ ask.turns[j].id = ask.turns[i].id
                    /\ \A l \in j + 1 .. i - 1 :
                        /\ ask.turns[l].type # "message" \/ ask.turns[l].role = "system"
                        /\ ask.turns[l].type = "function_call_output" =>
                            \A h \in l + 1 .. i - 1 : ask.turns[h].type # "function_call"

\* A chat backend accepts a tool message only right behind the assistant turn that
\* made the call, other results apart: a well-paired conversation stays so.
ResultsFollowCalls ==
    phase = "converted" /\ WellPaired =>
        \A j \in DOMAIN sent.chat : sent.chat[j].role = "tool" =>
            \E c \in 1 .. j - 1 :
                /\ sent.chat[j].of \in ToSet(sent.chat[c].calls) /\ sent.chat[c].role = "assistant"
                /\ \A l \in c + 1 .. j - 1 : sent.chat[l].role = "tool"

\* Whatever the backend sends, split where it may be, the client reads a stream
\* its SDK accepts: blocks numbered in order, deltas and stops only to open blocks,
\* closed before the report, each done event restating what was streamed, events
\* numbered without gaps, and nothing after the end or after an error.
WellFormedStream == ~view.bad

\* An answer that was opened is ended: closed and ended properly, or by an error
\* event, never left hanging ("so an Anthropic SDK never sees an unterminated
\* message"), and an error is never followed by a normal close.
AnswerEnded ==
    phase = "done" /\ view.started =>
        /\ view.ended # view.errored
        /\ view.ended => AllClosed(view)

\* Whatever the backend sends and wherever it stops, emitter and client agree on
\* what is open, the client accepts every event, and the answer has one end.
StreamSound == ConvertTypeOK /\ WellFormedStream /\ AnswerEnded

Assembled(kind) == LET of == SelectSeq(view.items, LAMBDA x : x.kind = kind)
                   IN  [k \in DOMAIN of |-> of[k].pieces]

\* Streaming changes nothing: what the client puts together from the events is what
\* the JSON conversion of the whole answer gives, prose, calls with their own
\* arguments, stop reason and usage; a Responses terminal event restates it too.
AgreesWithJSON ==
    phase = "done" /\ view.ended =>
        LET json == IF client = "messages" THEN ChatToMessages(said) ELSE ChatToResponses(said)
        IN  /\ FlattenSeq(Assembled("text")) = json.text
            /\ FlattenSeq(Assembled("think")) = json.think
            /\ Assembled("tool") = json.calls
            /\ view.stop = json.stop /\ view.input = json.input /\ view.output = json.output
            /\ \A k \in DOMAIN view.restated :
                view.restated[k] = [text |-> json.text, think |-> json.think, calls |-> json.calls]

=============================================================================
