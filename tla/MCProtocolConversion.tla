------------------------- MODULE MCProtocolConversion -------------------------
(***************************************************************************)
(* Conversations of up to two messages, answers in the format of either    *)
(* protocol, and streams of up to three lines with every way to cut them.  *)
(***************************************************************************)
EXTENDS ProtocolConversion

MCTexts == {"", "a", "b"}

Says(text) == [type |-> "text", text |-> text]

OtherPart(type, text) == [type |-> type, text |-> text]

MCContents ==
    {<<Says("a")>>,
     <<Says("a"), Says("b")>>,
     <<Says("b"), OtherPart("tool_result", "a"), Says("a")>>,
     <<OtherPart("thinking", "b"), OtherPart("image", Absent), Says(Absent)>>,
     <<>>, Null, Absent}

MCMessages == [role : {"user", "assistant", Absent}, content : MCContents]

MCConversations ==
    {<<>>} \union {<<m>> : m \in MCMessages}
        \union {<<[role |-> "user", content |-> c], [role |-> "assistant", content |-> d]>> :
                    c, d \in MCContents}

MCRequests ==
    [model : {"opus"}, stream : {"false", Absent}, fields : {{}, {"system", "stop_sequences"}},
     messages : MCConversations]
    \union
    [model : {"opus"}, stream : {"true", "other"}, fields : {{"tools", "max_tokens"}},
     messages : {<<[role |-> "user", content |-> <<Says("a")>>]>>}]

Reports(some) == [n \in CounterNames |-> IF n \in DOMAIN some THEN some[n] ELSE Absent]

NoCounters == [n \in CounterNames |-> Absent]

MCDocuments ==
    [p \in Protocols |->
        IF p = "openai"
        THEN [text : {"a", Absent}, reason : {"stop", "length", "tool_calls", Absent},
              usage : {Absent, NoCounters, Reports([prompt_tokens |-> 3, completion_tokens |-> 2])}]
        ELSE [text : {"a"}, reason : {"end_turn", "max_tokens"},
              usage : {Reports([input_tokens |-> 3, output_tokens |-> 2,
                                cache_read_input_tokens |-> 1])}]]

MCLines ==
    {Absent, NoCounters, Reports([output_tokens |-> 1]),
     Reports([input_tokens |-> 3, output_tokens |-> 2])}

MCStreams ==
    UNION {[lines : [1..n -> MCLines], cuts : SUBSET (1..(2 * n - 1)), arrived : 0..(2 * n)] :
               n \in 1..3}
=============================================================================
