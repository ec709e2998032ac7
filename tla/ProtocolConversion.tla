-------------------------- MODULE ProtocolConversion --------------------------
(***************************************************************************)
(* What becomes of the data of one request: the client's body, in          *)
(* Anthropic's format, is converted for the provider of each attempt, the  *)
(* provider's answer is read for the tokens it reports and converted back. *)
(* Who is called and what a client gets when calls fail is ProxyPipeline's *)
(* subject.                                                                *)
(***************************************************************************)
EXTENDS Naturals, SequencesExt

CONSTANTS
    Texts,       \* strings in messages, "" among them
    Absent,      \* a field that is not there, None
    Null,        \* a content that is neither string nor array
    Models,      \* names of models
    Requests,    \* bodies that clients send
    Documents,   \* [Protocols -> complete answers that are JSON]
    Garbage,     \* one that is not
    Streams,     \* streamed answers
    MaxRetries

Protocols == {"anthropic", "openai"}

(***************************************************************************)
(* A content is the sequence of its parts; a string is a text part by      *)
(* itself.  `text' is the text a part carries, in whatever field: a        *)
(* tool_result, a thinking part may have some, a text part may lack it.    *)
(***************************************************************************)
Part == [type : {"text", "thinking", "tool_use", "tool_result", "image"},
         text : Texts \union {Absent}]

IsText(part) == part.type = "text" /\ part.text # Absent

Contents == Seq(Part) \union {Null}

Message == [role : {"user", "assistant", Absent}, content : Contents \union {Absent}]

(***************************************************************************)
(* `fields' are the other fields of a body.  `stream' may be something     *)
(* else than a boolean.                                                    *)
(***************************************************************************)
Fields == {"system", "tools", "max_tokens", "temperature", "top_p", "stop_sequences", "stop"}

Body(M) == [model : Models, stream : {"true", "false", "other", Absent},
            fields : SUBSET Fields, messages : Seq(M)]

Request == Body(Message)

(***************************************************************************)
(* An OpenAI provider is sent a string, again as the texts it is made of.  *)
(***************************************************************************)
TextPart == {part \in Part : IsText(part)}

SentMessage == [role : {"user", "assistant"}, content : Seq(TextPart) \union {Null}]

(***************************************************************************)
(* A usage object has some of the counters, null has none.                 *)
(***************************************************************************)
CounterNames ==
    {"input_tokens", "output_tokens", "cache_read_input_tokens",
     "prompt_tokens", "completion_tokens"}

UsageObject == [CounterNames -> Nat \union {Absent}]

TokenUsage == [input_tokens : Nat, cache_read_tokens : Nat, output_tokens : Nat]

(***************************************************************************)
(* `reason' is finish_reason in OpenAI's format, stop_reason in the other. *)
(***************************************************************************)
Reasons == {"stop", "length", "tool_calls", "end_turn", "max_tokens", "tool_use"}

Document == [text : Texts \union {Absent}, reason : Reasons \union {Absent},
             usage : UsageObject \union {Absent}]

(***************************************************************************)
(* A stream is a sequence of data lines, `lines[i]' being the usage object *)
(* at the top level of the i-th one.  The network cuts it into chunks: cut *)
(* 2i-1 is inside line i, cut 2i after it.  Only the first `arrived' halves*)
(* of lines have come when it ends or breaks off.                          *)
(***************************************************************************)
Stream == [lines : Seq(UsageObject \union {Absent}), cuts : SUBSET Nat, arrived : Nat]

ASSUME ConversionAssumption ==
    /\ "" \in Texts
    /\ Absent \notin Nat \union Texts \union Contents
    /\ Absent \notin Document \union UsageObject \union TokenUsage
    /\ Absent \notin Reasons \union {"user", "assistant"}
    /\ Null \notin Seq(Part)
    /\ Requests \subseteq Request
    /\ Documents \in [Protocols -> SUBSET Document]
    /\ Streams \subseteq Stream
    /\ Garbage \notin Document
    /\ MaxRetries \in Nat

VARIABLES
    stage,     \* what happens next
    request,   \* RequestContext::body
    target,    \* protocol and model of the provider of this attempt
    retries,   \* RequestContext::retry_count
    sent,      \* RequestContext::upstream_body
    answer,    \* response_body, or stream_chunks, as they came
    usage,     \* RequestContext::usage
    recorded,  \* the counters of the UsageRecord
    reply      \* response_body, or stream_chunks, for the client

vars == <<stage, request, target, retries, sent, answer, usage, recorded, reply>>

Target == [protocol : Protocols, model : Models]

TypeOK ==
    /\ stage \in {"converter", "upstream", "tracker", "back", "done"}
    /\ request \in Request
    /\ target \in Target
    /\ retries \in 0..MaxRetries
    /\ sent \in {Absent} \union Request \union Body(SentMessage)
    /\ stage # "converter" =>
           sent \in IF target.protocol = "openai" THEN Body(SentMessage) ELSE Request
    /\ answer \in {Absent, Garbage} \union Document \union Stream
    /\ usage \in {Absent} \union TokenUsage
    /\ recorded \in {Absent} \union TokenUsage
    /\ reply \in {Absent, Garbage} \union Document \union Stream

Init ==
    /\ stage = "converter"
    /\ request \in Requests
    /\ target \in Target
    /\ retries = 0
    /\ sent = Absent
    /\ answer = Absent
    /\ usage = Absent
    /\ recorded = Absent
    /\ reply = Absent

-----------------------------------------------------------------------------
(***************************************************************************)
(* Both converters read the client's body.                                 *)
(***************************************************************************)
is_streaming == request.stream = "true"

replace_model(body, model) == [body EXCEPT !.model = model]

(***************************************************************************)
(* Texts are joined by line breaks.  A part of another type is dropped     *)
(* whatever it carries.                                                    *)
(***************************************************************************)
TextOf(part) == IF IsText(part) THEN <<part>> ELSE <<>>

content_to_text(content) ==
    IF content = Null THEN Null
    ELSE FlattenSeq([k \in 1..Len(content) |-> TextOf(content[k])])

KeepsRole(m) == m.role   \* mutant: a missing role stays away

Role(m) == IF m.role = Absent THEN "user" ELSE m.role

OpenAiMessage(m) ==
    IF m.content = Absent THEN <<>>
    ELSE <<[role |-> Role(m), content |-> content_to_text(m.content)]>>

OpenAiMessages(messages) ==
    FlattenSeq([i \in 1..Len(messages) |-> OpenAiMessage(messages[i])])

StreamsByDefault(body) ==   \* mutant: unwrap_or(true)
    IF body.stream = "false" THEN "false" ELSE "true"

StreamFlag(body) == IF body.stream = "true" THEN "true" ELSE "false"

anthropic_to_openai(body, model) ==
    [model    |-> model,
     stream   |-> StreamFlag(body),
     fields   |-> (body.fields \intersect {"max_tokens", "temperature", "top_p"})
                      \union (IF "stop_sequences" \in body.fields THEN {"stop"} ELSE {}),
     messages |-> OpenAiMessages(body.messages)]

LastBody == IF sent = Absent THEN request ELSE sent   \* mutant: what the last attempt sent

ClientBody == request

convert_request ==
    IF target.protocol = "openai" THEN anthropic_to_openai(ClientBody, target.model)
    ELSE replace_model(ClientBody, target.model)

ConvertRequest ==
    /\ stage = "converter"
    /\ stage' = "upstream"
    /\ sent' = convert_request
    /\ UNCHANGED <<request, target, retries, answer, usage, recorded, reply>>

(***************************************************************************)
(* The call fails, and there is another provider to try.  `sent' is only   *)
(* history after that: execute clears upstream_body.                       *)
(***************************************************************************)
Retry ==
    /\ stage = "upstream"
    /\ retries < MaxRetries
    /\ retries' = retries + 1
    /\ stage' = "converter"
    /\ target' \in Target
    /\ UNCHANGED <<request, sent, answer, usage, recorded, reply>>

-----------------------------------------------------------------------------
(***************************************************************************)
(* get(name), as_u64, unwrap_or(0).                                        *)
(***************************************************************************)
Counter(object, name) ==
    IF object = Absent \/ object[name] = Absent THEN 0 ELSE object[name]

Counted(object) ==
    [input_tokens      |-> Counter(object, "input_tokens"),
     cache_read_tokens |-> Counter(object, "cache_read_input_tokens"),
     output_tokens     |-> Counter(object, "output_tokens")]

extract_response_usage(body) ==
    IF body = Garbage \/ body.usage = Absent THEN Absent ELSE Counted(body.usage)

(***************************************************************************)
(* A line is read if it came whole and in one chunk.  The chunks are       *)
(* searched from the last one, the lines of a chunk from its first.        *)
(***************************************************************************)
Readable(s) ==
    {i \in 1..Len(s.lines) : /\ 2 * i - 1 \notin s.cuts
                             /\ 2 * i <= s.arrived
                             /\ s.lines[i] # Absent}

ChunkOf(s, i) == Cardinality({c \in s.cuts : c < 2 * i - 1})

SearchesForward(s) ==   \* mutant: chunks.iter() without rev()
    {i \in Readable(s) : \A j \in Readable(s) : ChunkOf(s, i) <= ChunkOf(s, j)}

InLastChunk(s) ==
    {i \in Readable(s) : \A j \in Readable(s) : ChunkOf(s, j) <= ChunkOf(s, i)}

extract_stream_usage(s) ==
    IF Readable(s) = {} THEN Absent ELSE Counted(s.lines[Min(InLastChunk(s))])

Answer ==
    /\ stage = "upstream"
    /\ \/ ~is_streaming /\ \E body \in Documents[target.protocol] \union {Garbage} :
              answer' = body /\ usage' = extract_response_usage(body)
       \/ is_streaming /\ \E s \in Streams :
              answer' = s /\ usage' = extract_stream_usage(s)
    /\ stage' = "tracker"
    /\ UNCHANGED <<request, target, retries, sent, recorded, reply>>

Tracked == IF usage = Absent THEN Counted(Absent) ELSE usage

Track ==
    /\ stage = "tracker"
    /\ recorded' = Tracked
    /\ stage' = "back"
    /\ UNCHANGED <<request, target, retries, sent, answer, usage, reply>>

-----------------------------------------------------------------------------
EndsEveryTurn(reason) == "end_turn"   \* mutant: no case for "length"

StopReason(reason) == IF reason = "length" THEN "max_tokens" ELSE "end_turn"

openai_to_anthropic(body) ==
    [text   |-> IF body.text = Absent THEN "" ELSE body.text,
     reason |-> StopReason(body.reason),
     usage  |-> [name \in CounterNames |->
                    CASE name = "input_tokens" -> Counter(body.usage, "prompt_tokens")
                      [] name = "output_tokens" -> Counter(body.usage, "completion_tokens")
                      [] OTHER -> Absent]]

(***************************************************************************)
(* A stream goes to the client as it came.  What is no JSON cannot be      *)
(* converted, and the client gets an error.                                *)
(***************************************************************************)
Returned ==
    IF is_streaming \/ target.protocol = "anthropic" THEN answer
    ELSE IF answer = Garbage THEN Absent
    ELSE openai_to_anthropic(answer)

ConvertResponse ==
    /\ stage = "back"
    /\ reply' = Returned
    /\ stage' = "done"
    /\ UNCHANGED <<request, target, retries, sent, answer, usage, recorded>>

Next == ConvertRequest \/ Retry \/ Answer \/ Track \/ ConvertResponse

Spec == Init /\ [][Next]_vars

-----------------------------------------------------------------------------
(***************************************************************************)
(* The texts of a conversation in order, each with the role it is under,   *)
(* for a body of either format: of other parts it says nothing.            *)
(***************************************************************************)
SaidIn(m) ==
    IF m.content \in {Absent, Null} THEN <<>>
    ELSE LET role == IF m.role = Absent THEN "user" ELSE m.role
         IN FlattenSeq([k \in 1..Len(m.content) |->
                IF IsText(m.content[k]) THEN <<<<role, m.content[k].text>>>> ELSE <<>>])

Said(messages) == FlattenSeq([i \in 1..Len(messages) |-> SaidIn(messages[i])])

Limits == {"max_tokens", "temperature", "top_p", "stop_sequences"}

Renamed(field) == IF field = "stop_sequences" THEN "stop" ELSE field

(***************************************************************************)
(* Whatever was tried before, with however many providers of either        *)
(* protocol, an Anthropic provider is sent the client's body with nothing  *)
(* but the model replaced; an OpenAI provider every text part, under its   *)
(* role and in order, however the texts are divided over parts and between *)
(* parts of other types, and the limits under their names in its format.   *)
(* No field is left over from another provider.  That parts of other types *)
(* are not sent to OpenAI providers at all (openai.rs 203, against lines   *)
(* 23 to 26 of PROTOCOL-DESIGN.md), nor tools, is outside of this.         *)
(***************************************************************************)
TextsKept ==
    stage = "upstream" =>
        IF target.protocol = "anthropic"
        THEN sent = [request EXCEPT !.model = target.model]
        ELSE /\ sent.model = target.model
             /\ Said(sent.messages) = Said(request.messages)
             /\ {Renamed(f) : f \in request.fields \intersect Limits} \subseteq sent.fields
             /\ sent.fields \subseteq {Renamed(f) : f \in request.fields}

(***************************************************************************)
(* The upstream is asked for a stream exactly when the gateway reads its   *)
(* answer as one: the forwarder and the converters each decide it from the *)
(* client's body, which may have no stream field or one that is no boolean.*)
(***************************************************************************)
StreamsAgree ==
    stage = "upstream" => (sent.stream = "true" <=> is_streaming)

(***************************************************************************)
(* A complete answer tells the client what the upstream said, that it was  *)
(* cut off if it was, and the tokens it took in and gave out.              *)
(***************************************************************************)
Names(protocol) ==
    IF protocol = "openai"
    THEN [cut |-> "length", in |-> "prompt_tokens", out |-> "completion_tokens"]
    ELSE [cut |-> "max_tokens", in |-> "input_tokens", out |-> "output_tokens"]

AnswerKept ==
    stage = "done" /\ reply \notin {Absent, Garbage} /\ ~is_streaming =>
        LET names == Names(target.protocol)
        IN /\ answer.text # Absent => reply.text = answer.text
           /\ reply.reason = "max_tokens" <=> answer.reason = names.cut
           /\ Counter(reply.usage, "input_tokens") = Counter(answer.usage, names.in)
           /\ Counter(reply.usage, "output_tokens") = Counter(answer.usage, names.out)

(***************************************************************************)
(* What is recorded for a stream is what one of its lines reports, never a *)
(* mixture or a sum of several, and nothing if no line that reports usage  *)
(* came through whole: and it is what the last one reports, unless that was*)
(* cut or had another one before it in its chunk.                          *)
(***************************************************************************)
Reporting(s) == {i \in 1..Len(s.lines) : s.lines[i] # Absent}

AloneInChunk(s, i) ==
    \A j \in Reporting(s) \ {i} : \E c \in s.cuts : j < i /\ 2 * j - 1 <= c /\ c < 2 * i - 1

StreamUsageReported ==
    stage \in {"back", "done"} /\ is_streaming =>
        /\ \/ recorded = Counted(Absent)
           \/ \E i \in Reporting(answer) : recorded = Counted(answer.lines[i])
        /\ \A i \in Readable(answer) :
               /\ \A j \in Reporting(answer) : j <= i
               /\ AloneInChunk(answer, i)
               => recorded = Counted(answer.lines[i])

-----------------------------------------------------------------------------
(***************************************************************************)
(* PROTOCOL-DESIGN.md 39: the system prompt becomes the first message, of  *)
(* role system.  The code does not do that.                                *)
(***************************************************************************)
SystemPromptKept ==
    stage = "upstream" /\ target.protocol = "openai" /\ "system" \in request.fields =>
        sent.messages # <<>> /\ sent.messages[1].role = "system"

-----------------------------------------------------------------------------
(***************************************************************************)
(* None of the properties is inductive: each stage leaves exactly what its *)
(* code computes from what the stages before it have left.                 *)
(***************************************************************************)
AnswerRead ==
    \/ /\ ~is_streaming
       /\ answer \in Document \union {Garbage}
       /\ usage = extract_response_usage(answer)
    \/ /\ is_streaming
       /\ answer \in Stream
       /\ usage = extract_stream_usage(answer)

ConversionInv ==
    /\ stage \in {"converter", "upstream", "tracker", "back", "done"}
    /\ request \in Request
    /\ target \in Target
    /\ stage # "converter" => sent = convert_request
    /\ stage \in {"tracker", "back", "done"} => AnswerRead
    /\ stage \in {"back", "done"} => recorded = Tracked
    /\ stage = "done" => reply = Returned
=============================================================================
