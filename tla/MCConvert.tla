------------------------------ MODULE MCConvert ------------------------------
(* Conversations of up to three turns (four items) and answers of up to      *)
(* MaxFrames frames from the shapes below.                                   *)
EXTENDS Convert

Blk(type, id) == [type |-> type, id |-> id]
Msg(role, blocks) == [role |-> role, blocks |-> blocks]
MCMessages == {
    Msg("user", <<Blk("text", "")>>), Msg("user", <<Blk("image", ""), Blk("document", "")>>),
    Msg("assistant", <<Blk("text", ""), Blk("tool_use", "a"), Blk("tool_use", "b")>>),
    Msg("assistant", <<Blk("thinking", ""), Blk("tool_use", "a")>>),
    Msg("user", <<Blk("tool_result", "a")>>),
    Msg("user", <<Blk("text", ""), Blk("tool_result", "b"), Blk("tool_result", "a")>>)}

It(type, role, parts, id) == [type |-> type, role |-> role, parts |-> parts, id |-> id]
MCItems == {
    It("message", "user", <<"text">>, ""), It("message", "user", <<"text", "image", "audio">>, ""),
    It("message", "system", <<"text">>, ""), It("message", "system", <<"text", "text">>, ""),
    It("message", "user", <<"file">>, ""), It("reasoning", "", <<>>, ""),
    It("function_call", "", <<>>, "a"), It("function_call", "", <<>>, "b"),
    It("function_call_output", "", <<>>, "a"), It("function_call_output", "", <<>>, "b")}

Ask(turns) == [NoAsk EXCEPT !.turns = turns]
Param(name, carried, reported) == [name |-> name, carried |-> carried, reported |-> reported]
Tl(name, hosted, long) == [name |-> name, hosted |-> hosted, long |-> long]
Plain == {[NoAsk EXCEPT !.turns = <<t>>, !.params = ps, !.tools = ts, !.continues = c] :
            t \in {Msg("user", <<Blk("text", "")>>)},
            ps \in {<<>>, <<Param("temperature", TRUE, FALSE)>>, <<Param("top_k", FALSE, FALSE)>>},
            ts \in {<<>>, <<Tl("t", FALSE, FALSE), Tl("t", FALSE, FALSE)>>, <<Tl("t", FALSE, TRUE)>>, <<Tl("t", TRUE, FALSE)>>},
            c \in {FALSE}}
MCAsks == [c \in {"messages", "responses"} |->
    IF c = "messages" THEN Plain \cup {Ask(t) : t \in UNION {[1 .. k -> MCMessages] : k \in 1 .. 3}}
    ELSE {[NoAsk EXCEPT !.turns = <<It("message", "user", <<"text">>, "")>>, !.params = ps, !.continues = on] :
            ps \in {<<Param("store", FALSE, TRUE)>>, <<Param("reasoning", FALSE, FALSE)>>}, on \in BOOLEAN}
         \cup {Ask(t) : t \in UNION {[1 .. k -> MCItems] : k \in 1 .. 4}}]

Usage == [prompt |-> 3, cached |-> 1, completion |-> 2]
Tc(idx, id, args) == [idx |-> idx, id |-> id, args |-> args]
MCFrames == {
    [NoDelta EXCEPT !.text = TRUE], [NoDelta EXCEPT !.think = TRUE],
    [NoDelta EXCEPT !.calls = <<Tc(0, "a", TRUE)>>], [NoDelta EXCEPT !.calls = <<Tc(0, "", TRUE)>>],
    [NoDelta EXCEPT !.calls = <<Tc(1, "b", FALSE), Tc(0, "", TRUE)>>], [NoDelta EXCEPT !.calls = <<Tc(0, "c", TRUE)>>],
    [NoDelta EXCEPT !.finish = "stop", !.text = TRUE], [NoDelta EXCEPT !.finish = "length", !.usage = Usage],
    [NoDelta EXCEPT !.finish = "error"],
    [NoDelta EXCEPT !.choice = FALSE, !.usage = Usage],
    [kind |-> "error"], [kind |-> "foreign"], [kind |-> "native"], [kind |-> "inert"]}

MCProtocols == {<<>>, <<"chat">>, <<"messages">>, <<"responses", "chat">>, <<"legacy">>}
MCForced == {"auto", "off", <<"messages", "chat">>, <<"chat", "messages">>}

=============================================================================
