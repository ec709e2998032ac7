---------------------------- MODULE ProxyPipeline ---------------------------
(***************************************************************************)
(* The request path of the gateway: ProxyServer::handle runs the pipeline  *)
(*   Router, Converter, ThinkingRectifier, CircuitBreaker, Forwarder,      *)
(*   UsageTracker                                                          *)
(* for every request, Pipeline::execute retries it, build_response answers *)
(* the client.  Requests run on a multi-threaded executor, so the steps of *)
(* different requests, of the administrator and of the upstreams interleave*)
(* freely; a step below is the code between two accesses to shared state   *)
(* (a cache lock, the breaker's mutex, the network, the database).         *)
(*                                                                         *)
(* The rectifier passes every request on unchanged and has no step.        *)
(***************************************************************************)
EXTENDS CircuitBreaker, Sequences, FiniteSets

CONSTANTS
    Requests,     \* requests received in a behaviour
    Providers,    \* names a provider may have
    NoProvider,   \* None, where the code has an Option of a provider
    Models,       \* model names that clients and mappings use
    NoModel,      \* None: the body has no "model" string
    StripSuffix,  \* [Models -> Models \union {NoModel}]: see FindStripped
    Configs,      \* provider configurations the administrator saves
    MaxRetries,   \* Pipeline::max_retries
    MaxEdits      \* bound: changes to the providers in a behaviour

ASSUME PipelineAssumption ==
    /\ Keys = Providers
    /\ NoProvider \notin Providers
    /\ NoModel \notin Models
    /\ StripSuffix \in [Models -> Models \union {NoModel}]
    /\ Configs \subseteq [protocol : {"anthropic", "openai"}, serves : SUBSET Models]
    /\ MaxRetries \in Nat
    /\ MaxEdits \in Nat

VARIABLES
    providers,  \* ProviderRepo::cache, [Providers -> Configs \union {Absent}]
    routes,     \* RouteRepo::cache, [Models -> sequences of providers]
    stale,      \* the administrator's call has yet to rebuild the routes
    edits,      \* changes made so far
    ctx,        \* [Requests -> RequestContext]
    pc,         \* [Requests -> Stage]: the next piece of code to run
    outcome,    \* [Requests -> PipelineResult] on its way up the chain
    reply,      \* [Requests -> Reply]: what the client was answered
    sent,       \* history: [Requests -> sequence of calls to upstreams]
    ledger,     \* [Requests -> sequence of rows in usage_records]
    lost        \* history: [Requests -> BOOLEAN], the database refused the row

catalogVars == <<providers, routes, stale, edits>>
requestVars == <<ctx, pc, outcome, reply, sent, ledger, lost>>
vars == <<circuits, catalogVars, requestVars>>

-----------------------------------------------------------------------------
Absent == [protocol |-> "none", serves |-> {}]

Protocols == {"anthropic", "openai"}

(***************************************************************************)
(* A response body is told apart by whose format it is in: the client's    *)
(* protocol is Anthropic.  "invalid" is no JSON at all, "error" the text   *)
(* of a non-2xx answer.  A stream may also have been cut short.            *)
(***************************************************************************)
Bodies == {"none", "anthropic", "openai", "invalid", "error"}

Streams == {"none", "anthropic", "openai", "cut"}

NoConfig == [name |-> NoProvider, protocol |-> "none"]

ProviderRef ==
    [name : Providers \union {NoProvider}, protocol : Protocols \union {"none"}]

(***************************************************************************)
(* upstream_url and upstream_headers come from the provider configuration, *)
(* the model in upstream_body from the resolved target, the body's format  *)
(* from the protocol.                                                      *)
(***************************************************************************)
NoUpstream == [to |-> NoProvider, model |-> NoProvider, format |-> "none"]

Upstream == [to     : Providers \union {NoProvider},
             model  : Providers \union {NoProvider},
             format : Protocols \union {"none"}]

(***************************************************************************)
(* A RouteTarget is identified by its provider: (provider, claude_model)   *)
(* is the primary key of the mappings, so a route names a provider once.   *)
(* `primary' is the local of Router::handle, `answered' (a history field)  *)
(* the value of retries when the response fields were last written.        *)
(***************************************************************************)
RequestContext ==
    [model     : Models \union {NoModel},
     streaming : BOOLEAN,
     target    : Providers \union {NoProvider},
     primary   : Providers \union {NoProvider},
     fallbacks : Seq(Providers),
     config    : ProviderRef,
     upstream  : Upstream,
     status    : {"none", "ok", "error"},
     body      : Bodies,
     chunks    : Streams,
     usage     : {"none", "zero", "counted"},
     retries   : 0..MaxRetries,
     answered  : 0..MaxRetries]

Stage == {"new", "router", "stripped", "load", "converter", "breaker",
          "forwarder", "upstream", "tracker", "report", "back", "execute",
          "done", "gone"}

Call == [to : Providers, model : Providers, result : {"pending", "ok", "failed"}]

Row == [provider : Providers, usage : {"none", "zero", "counted"}]

NoReply == [status |-> "none", body |-> "none"]

Reply == [status : {"none", "ok", "error", "502", "500"},
          body   : Bodies \union Streams \union {"message"}]

(***************************************************************************)
(* Route tables: the providers that serve a model, in the order in which   *)
(* the provider cache happened to be iterated.                             *)
(***************************************************************************)
RouteSeqs == UNION {[1..n -> Providers] : n \in 0..Cardinality(Providers)}

Serving(catalog, m) == {p \in Providers : m \in catalog[p].serves}

RoutesFrom(catalog) ==
    {table \in [Models -> RouteSeqs] :
        \E rank \in [Providers -> 1..Cardinality(Providers)] :
            \A m \in Models :
                /\ {table[m][i] : i \in DOMAIN table[m]} = Serving(catalog, m)
                /\ \A i, j \in DOMAIN table[m] :
                       i < j => rank[table[m][i]] < rank[table[m][j]]}

TypeOK ==
    /\ circuits \in [Keys -> Circuit]
    /\ providers \in [Providers -> Configs \union {Absent}]
    /\ routes \in [Models -> RouteSeqs]
    /\ stale \in BOOLEAN
    /\ edits \in 0..MaxEdits
    /\ ctx \in [Requests -> RequestContext]
    /\ pc \in [Requests -> Stage]
    /\ outcome \in [Requests -> {"ok", "aborted", "internal"}]
    /\ reply \in [Requests -> Reply]
    /\ sent \in [Requests -> Seq(Call)]
    /\ ledger \in [Requests -> Seq(Row)]
    /\ lost \in [Requests -> BOOLEAN]

NewContext(m, s) ==
    [model |-> m, streaming |-> s, target |-> NoProvider, primary |-> NoProvider,
     fallbacks |-> <<>>, config |-> NoConfig, upstream |-> NoUpstream,
     status |-> "none", body |-> "none", chunks |-> "none", usage |-> "none",
     retries |-> 0, answered |-> 0]

Init ==
    /\ CircuitsInit
    /\ providers \in [Providers -> Configs \union {Absent}]
    /\ routes \in RoutesFrom(providers)
    /\ stale = FALSE
    /\ edits = 0
    /\ ctx = [r \in Requests |-> NewContext(NoModel, FALSE)]
    /\ pc = [r \in Requests |-> "new"]
    /\ outcome = [r \in Requests |-> "ok"]
    /\ reply = [r \in Requests |-> NoReply]
    /\ sent = [r \in Requests |-> <<>>]
    /\ ledger = [r \in Requests |-> <<>>]
    /\ lost = [r \in Requests |-> FALSE]

-----------------------------------------------------------------------------
Goto(r, stage) == pc' = [pc EXCEPT ![r] = stage]

(***************************************************************************)
(* An error skips what is left of the chain and surfaces in the part of an *)
(* outer middleware that runs after next.run(), here `stage'.              *)
(***************************************************************************)
Fail(r, error, stage) ==
    /\ outcome' = [outcome EXCEPT ![r] = error]
    /\ Goto(r, stage)

-----------------------------------------------------------------------------
(***************************************************************************)
(* ProxyServer::handle: read the body, make the context.                   *)
(***************************************************************************)
Receive(r, m, s) ==
    /\ pc[r] = "new"
    /\ ctx' = [ctx EXCEPT ![r] = NewContext(m, s)]
    /\ Goto(r, "router")
    /\ UNCHANGED <<circuits, catalogVars, outcome, reply, sent, ledger, lost>>

(***************************************************************************)
(* Router::handle.  The first target is the primary and the others replace *)
(* the fallbacks, before anything is known of the primary's provider.      *)
(***************************************************************************)
TakeTargets(c, targets) ==
    [c EXCEPT !.primary = Head(targets), !.fallbacks = Tail(targets)]

RejectWithoutModel(r) ==
    /\ pc[r] = "router"
    /\ ctx[r].model = NoModel
    /\ Fail(r, "aborted", "execute")
    /\ UNCHANGED <<circuits, catalogVars, ctx, reply, sent, ledger, lost>>

FindExact(r) ==
    /\ pc[r] = "router"
    /\ ctx[r].model # NoModel
    /\ IF ctx[r].config # NoConfig
       THEN Goto(r, "converter") /\ UNCHANGED ctx
       ELSE IF routes[ctx[r].model] # <<>>
       THEN /\ ctx' = [ctx EXCEPT ![r] = TakeTargets(@, routes[ctx[r].model])]
            /\ Goto(r, "load")
       ELSE Goto(r, "stripped") /\ UNCHANGED ctx
    /\ UNCHANGED <<circuits, catalogVars, outcome, reply, sent, ledger, lost>>

(***************************************************************************)
(* The second lookup: the name without its last dash and an all-numeric    *)
(* suffix, if it has one.                                                  *)
(***************************************************************************)
BaseRoutes(m) ==
    IF StripSuffix[m] = NoModel THEN <<>> ELSE routes[StripSuffix[m]]

FindStripped(r) ==
    /\ pc[r] = "stripped"
    /\ BaseRoutes(ctx[r].model) # <<>>
    /\ ctx' = [ctx EXCEPT ![r] = TakeTargets(@, BaseRoutes(ctx[r].model))]
    /\ Goto(r, "load")
    /\ UNCHANGED <<circuits, catalogVars, outcome, reply, sent, ledger, lost>>

RejectWithoutRoute(r) ==
    /\ pc[r] = "stripped"
    /\ BaseRoutes(ctx[r].model) = <<>>
    /\ Fail(r, "aborted", "execute")
    /\ UNCHANGED <<circuits, catalogVars, ctx, reply, sent, ledger, lost>>

(***************************************************************************)
(* get_provider is a lookup of its own: the provider may be gone, or have  *)
(* another configuration than when the routes were read.                   *)
(***************************************************************************)
Resolve(c, provider) ==
    [c EXCEPT !.target = c.primary,
              !.config = [name |-> c.primary, protocol |-> provider.protocol]]

LoadProvider(r) ==
    /\ pc[r] = "load"
    /\ providers[ctx[r].primary] # Absent
    /\ ctx' = [ctx EXCEPT ![r] = Resolve(@, providers[@.primary])]
    /\ Goto(r, "converter")
    /\ UNCHANGED <<circuits, catalogVars, outcome, reply, sent, ledger, lost>>

RejectMissingProvider(r) ==
    /\ pc[r] = "load"
    /\ providers[ctx[r].primary] = Absent
    /\ Fail(r, "aborted", "execute")
    /\ UNCHANGED <<circuits, catalogVars, ctx, reply, sent, ledger, lost>>

(***************************************************************************)
(* ConverterMiddleware::handle, up to next.run().  The body parsed as JSON *)
(* when its model was extracted, so the conversion cannot fail here.       *)
(***************************************************************************)
ConvertedRequest(c) ==
    [to |-> c.config.name, model |-> c.target, format |-> c.config.protocol]

ConvertRequest(r) ==
    /\ pc[r] = "converter"
    /\ ctx' = [ctx EXCEPT ![r].upstream = ConvertedRequest(ctx[r])]
    /\ Goto(r, "breaker")
    /\ UNCHANGED <<circuits, catalogVars, outcome, reply, sent, ledger, lost>>

(***************************************************************************)
(* CircuitBreaker::handle, up to next.run(); the key is the provider.      *)
(***************************************************************************)
PassesOpenBreaker(r) ==   \* mutant: is_open is not asked
    /\ pc[r] = "breaker"
    /\ Goto(r, "forwarder")
    /\ UNCHANGED <<circuits, catalogVars, ctx, outcome, reply, sent, ledger, lost>>

PassBreaker(r) ==
    /\ pc[r] = "breaker"
    /\ ~IsOpen(ctx[r].config.name)
    /\ Goto(r, "forwarder")
    /\ UNCHANGED <<circuits, catalogVars, ctx, outcome, reply, sent, ledger, lost>>

RefusalCounts(r) ==   \* mutant: an open circuit is recorded as a failure
    /\ pc[r] = "breaker"
    /\ IsOpen(ctx[r].config.name)
    /\ Fail(r, "aborted", "report")
    /\ UNCHANGED <<circuits, catalogVars, ctx, reply, sent, ledger, lost>>

RefuseByBreaker(r) ==
    /\ pc[r] = "breaker"
    /\ IsOpen(ctx[r].config.name)
    /\ Fail(r, "aborted", "execute")
    /\ UNCHANGED <<circuits, catalogVars, ctx, reply, sent, ledger, lost>>

(***************************************************************************)
(* Forwarder::handle, up to the await of the upstream's answer.            *)
(***************************************************************************)
Forward(r) ==
    /\ pc[r] = "forwarder"
    /\ sent' = [sent EXCEPT ![r] =
                    Append(@, [to     |-> ctx[r].upstream.to,
                               model  |-> ctx[r].upstream.model,
                               result |-> "pending"])]
    /\ Goto(r, "upstream")
    /\ UNCHANGED <<circuits, catalogVars, ctx, outcome, reply, ledger, lost>>

(***************************************************************************)
(* The upstream's side of the call (ReqwestForwarder): it answers with a   *)
(* 2xx status, or with another one, or the connection fails, or it never   *)
(* answers at all; no timeout is set.  The body of a 2xx answer is `good', *)
(* in the provider's format, or `bad': not JSON, or a stream that breaks   *)
(* off, which send_streaming takes for its end, after its usage (`late') or*)
(* before it, or is `empty'.                                               *)
(***************************************************************************)
Qualities(c) ==
    IF c.streaming THEN {"good", "late", "bad", "empty"} ELSE {"good", "bad"}

AnswerBody(c, quality) ==
    IF quality = "good" THEN c.upstream.format ELSE "invalid"

AnswerChunks(c, quality) ==
    IF quality = "good" THEN c.upstream.format
    ELSE IF quality = "empty" THEN "none" ELSE "cut"

(***************************************************************************)
(* extract_response_usage and extract_stream_usage know Anthropic's names  *)
(* of the counters only: an OpenAI usage object is read as zeros.          *)
(***************************************************************************)
ExtractUsage(c, quality) ==
    IF quality \notin {"good", "late"} THEN "none"
    ELSE IF c.upstream.format = "anthropic" THEN "counted" ELSE "zero"

Accepted(c, quality) ==
    IF c.streaming
    THEN [c EXCEPT !.status   = "ok",
                   !.chunks   = AnswerChunks(c, quality),
                   !.usage    = ExtractUsage(c, quality),
                   !.answered = c.retries]
    ELSE [c EXCEPT !.status   = "ok",
                   !.body     = AnswerBody(c, quality),
                   !.usage    = ExtractUsage(c, quality),
                   !.answered = c.retries]

Refused(c) ==
    [c EXCEPT !.status = "error", !.body = "error", !.answered = c.retries]

Answered(calls, result) == [calls EXCEPT ![Len(calls)].result = result]

UpstreamAnswers(r, quality) ==
    /\ pc[r] = "upstream"
    /\ quality \in Qualities(ctx[r])
    /\ ctx' = [ctx EXCEPT ![r] = Accepted(@, quality)]
    /\ sent' = [sent EXCEPT ![r] = Answered(@, "ok")]
    /\ Goto(r, "tracker")
    /\ UNCHANGED <<circuits, catalogVars, outcome, reply, ledger, lost>>

UpstreamRefuses(r) ==
    /\ pc[r] = "upstream"
    /\ ctx' = [ctx EXCEPT ![r] = Refused(@)]
    /\ sent' = [sent EXCEPT ![r] = Answered(@, "failed")]
    /\ Fail(r, "aborted", "report")
    /\ UNCHANGED <<circuits, catalogVars, reply, ledger, lost>>

ConnectionFails(r) ==
    /\ pc[r] = "upstream"
    /\ sent' = [sent EXCEPT ![r] = Answered(@, "failed")]
    /\ Fail(r, "aborted", "report")
    /\ UNCHANGED <<circuits, catalogVars, ctx, reply, ledger, lost>>

(***************************************************************************)
(* The client hangs up while the request waits: its task is dropped.       *)
(***************************************************************************)
Disconnect(r) ==
    /\ pc[r] = "upstream"
    /\ Goto(r, "gone")
    /\ UNCHANGED <<circuits, catalogVars, ctx, outcome, reply, sent, ledger, lost>>

(***************************************************************************)
(* UsageTracker::handle, the last of the chain: it runs only when the      *)
(* Forwarder got a 2xx answer.  An error of the database is only logged.   *)
(***************************************************************************)
UsageRecord(c) == [provider |-> c.config.name, usage |-> c.usage]

SkipsWithoutUsage(r) ==   \* mutant: if let Some(usage) = &ctx.usage
    /\ pc[r] = "tracker"
    /\ ledger' = [ledger EXCEPT ![r] =
                     IF ctx[r].usage = "none" THEN @ ELSE Append(@, UsageRecord(ctx[r]))]
    /\ outcome' = [outcome EXCEPT ![r] = "ok"]
    /\ Goto(r, "report")
    /\ UNCHANGED <<circuits, catalogVars, ctx, reply, sent, lost>>

Track(r) ==
    /\ pc[r] = "tracker"
    /\ ledger' = [ledger EXCEPT ![r] = Append(@, UsageRecord(ctx[r]))]
    /\ outcome' = [outcome EXCEPT ![r] = "ok"]
    /\ Goto(r, "report")
    /\ UNCHANGED <<circuits, catalogVars, ctx, reply, sent, lost>>

TrackFails(r) ==
    /\ pc[r] = "tracker"
    /\ lost' = [lost EXCEPT ![r] = TRUE]
    /\ outcome' = [outcome EXCEPT ![r] = "ok"]
    /\ Goto(r, "report")
    /\ UNCHANGED <<circuits, catalogVars, ctx, reply, sent, ledger>>

(***************************************************************************)
(* CircuitBreaker::handle, after next.run().                               *)
(***************************************************************************)
ReportSuccess(r) ==
    /\ pc[r] = "report"
    /\ outcome[r] = "ok"
    /\ RecordSuccess(ctx[r].config.name)
    /\ Goto(r, "back")
    /\ UNCHANGED <<catalogVars, ctx, outcome, reply, sent, ledger, lost>>

ReportFailure(r) ==
    /\ pc[r] = "report"
    /\ outcome[r] # "ok"
    /\ RecordFailure(ctx[r].config.name)
    /\ Goto(r, "execute")
    /\ UNCHANGED <<catalogVars, ctx, outcome, reply, sent, ledger, lost>>

(***************************************************************************)
(* ConverterMiddleware::handle, after next.run() = Ok.  A streamed answer  *)
(* is left as it is; openai_to_anthropic fails on what is not JSON, and    *)
(* response_body has been taken by then.                                   *)
(***************************************************************************)
LeavesAnswer(c) == c   \* mutant: convert_response is not called

Restored(c) ==
    IF c.streaming \/ c.upstream.format = "anthropic" THEN c
    ELSE [c EXCEPT !.body = IF @ = "openai" THEN "anthropic" ELSE "none"]

ConversionFails(c) ==
    ~c.streaming /\ c.upstream.format = "openai" /\ c.body = "invalid"

ConvertResponse(r) ==
    /\ pc[r] = "back"
    /\ ctx' = [ctx EXCEPT ![r] = Restored(@)]
    /\ outcome' = [outcome EXCEPT ![r] =
                       IF ConversionFails(ctx[r]) THEN "internal" ELSE "ok"]
    /\ Goto(r, "execute")
    /\ UNCHANGED <<circuits, catalogVars, reply, sent, ledger, lost>>

(***************************************************************************)
(* Pipeline::execute.                                                      *)
(***************************************************************************)
RetriesOnceMore(c, result) ==   \* mutant: the bound is off by one
    result = "aborted" /\ c.fallbacks # <<>> /\ c.retries <= MaxRetries

RetriesAnyError(c, result) ==   \* mutant: Internal is retried as well
    result # "ok" /\ c.fallbacks # <<>> /\ c.retries < MaxRetries

CanRetry(c, result) ==
    result = "aborted" /\ c.fallbacks # <<>> /\ c.retries < MaxRetries

KeepsConfig(c) ==   \* mutant: provider_config is not reset
    [c EXCEPT !.upstream = NoUpstream,
              !.status = "none", !.body = "none", !.usage = "none"]

KeepsAnswer(c) ==   \* mutant: response_status and response_body are not reset
    [c EXCEPT !.config = NoConfig, !.upstream = NoUpstream, !.usage = "none"]

Cleared(c) ==
    [c EXCEPT !.config = NoConfig, !.upstream = NoUpstream,
              !.status = "none", !.body = "none", !.usage = "none"]

KeepsRetryCount(c) ==   \* mutant: retry_count is not incremented
    [Cleared(c) EXCEPT !.target = Head(c.fallbacks), !.fallbacks = Tail(c.fallbacks)]

NextAttempt(c) ==
    [Cleared(c) EXCEPT !.target    = Head(c.fallbacks),
                       !.fallbacks = Tail(c.fallbacks),
                       !.retries   = c.retries + 1]

Retry(r) ==
    /\ pc[r] = "execute"
    /\ CanRetry(ctx[r], outcome[r])
    /\ ctx' = [ctx EXCEPT ![r] = NextAttempt(@)]
    /\ Goto(r, "router")
    /\ UNCHANGED <<circuits, catalogVars, outcome, reply, sent, ledger, lost>>

(***************************************************************************)
(* ProxyServer::build_response for Ok and Aborted, json_error for Internal.*)
(***************************************************************************)
BuildResponse(c, result) ==
    IF result = "internal" THEN [status |-> "500", body |-> "message"]
    ELSE IF c.chunks # "none" THEN [status |-> c.status, body |-> c.chunks]
    ELSE [status |-> IF c.status = "none" THEN "502" ELSE c.status,
          body   |-> c.body]

Respond(r) ==
    /\ pc[r] = "execute"
    /\ ~CanRetry(ctx[r], outcome[r])
    /\ reply' = [reply EXCEPT ![r] = BuildResponse(ctx[r], outcome[r])]
    /\ Goto(r, "done")
    /\ UNCHANGED <<circuits, catalogVars, ctx, outcome, sent, ledger, lost>>

-----------------------------------------------------------------------------
(***************************************************************************)
(* The administrator: a call of ProviderService changes the provider cache *)
(* and then rebuilds the route cache, two locks one after the other.  One  *)
(* call at a time; calls that overlap are in ProviderRegistry.             *)
(***************************************************************************)
SaveProvider(p, config) ==
    /\ ~stale /\ edits < MaxEdits
    /\ providers' = [providers EXCEPT ![p] = config]
    /\ stale' = TRUE
    /\ edits' = edits + 1
    /\ UNCHANGED <<circuits, routes, requestVars>>

RemoveProvider(p) ==
    /\ ~stale /\ edits < MaxEdits
    /\ providers[p] # Absent
    /\ providers' = [providers EXCEPT ![p] = Absent]
    /\ stale' = TRUE
    /\ edits' = edits + 1
    /\ UNCHANGED <<circuits, routes, requestVars>>

Rebuild ==
    /\ stale
    /\ routes' \in RoutesFrom(providers)
    /\ stale' = FALSE
    /\ UNCHANGED <<circuits, providers, edits, requestVars>>

Elapse ==
    /\ ElapseCircuits
    /\ UNCHANGED <<catalogVars, requestVars>>

-----------------------------------------------------------------------------
Router(r) ==
    \/ RejectWithoutModel(r)
    \/ FindExact(r)
    \/ FindStripped(r)
    \/ RejectWithoutRoute(r)
    \/ LoadProvider(r)
    \/ RejectMissingProvider(r)

Upward(r) ==
    \/ Track(r)
    \/ TrackFails(r)
    \/ ReportSuccess(r)
    \/ ReportFailure(r)
    \/ ConvertResponse(r)
    \/ Retry(r)
    \/ Respond(r)

(***************************************************************************)
(* The steps the executor takes by itself once a request is received.      *)
(***************************************************************************)
Gateway(r) ==
    \/ Router(r)
    \/ ConvertRequest(r)
    \/ PassBreaker(r)
    \/ RefuseByBreaker(r)
    \/ Forward(r)
    \/ Upward(r)

UpstreamStep(r) ==
    \/ \E quality \in {"good", "late", "bad", "empty"} : UpstreamAnswers(r, quality)
    \/ UpstreamRefuses(r)
    \/ ConnectionFails(r)

Administrator ==
    \/ \E p \in Providers :
           (\E config \in Configs : SaveProvider(p, config)) \/ RemoveProvider(p)
    \/ Rebuild

Next ==
    \/ \E r \in Requests :
           \/ \E m \in Models \union {NoModel}, s \in BOOLEAN : Receive(r, m, s)
           \/ Gateway(r)
           \/ UpstreamStep(r)
           \/ Disconnect(r)
    \/ Administrator
    \/ Elapse

Spec == Init /\ [][Next]_vars

(***************************************************************************)
(* The executor keeps running tasks that can run.  GatewayFair says no     *)
(* more than that; FairSpec adds that upstreams answer in the end.         *)
(***************************************************************************)
GatewayFair == Spec /\ \A r \in Requests : WF_vars(Gateway(r))

FairSpec == GatewayFair /\ \A r \in Requests : WF_vars(UpstreamStep(r))

-----------------------------------------------------------------------------
(***************************************************************************)
(* Across retries, and while providers are saved and removed between the   *)
(* lookups, no call ever carries one provider's URL and token with a model *)
(* chosen for another (middleware.rs 79-81, router.rs 43-61).              *)
(***************************************************************************)
CallsMatchTarget ==
    \A r \in Requests : \A i \in DOMAIN sent[r] : sent[r][i].to = sent[r][i].model

(***************************************************************************)
(* What the client gets was received in the last attempt: an attempt that  *)
(* ends without an answer (circuit open, provider gone, connection lost)   *)
(* does not deliver what an earlier one left in the context (middleware.rs *)
(* 81-87, proxy_server.rs 52-74; stream_chunks is not among the fields     *)
(* that execute resets).                                                   *)
(***************************************************************************)
ReplyFromLastAttempt ==
    \A r \in Requests :
        reply[r].status \in {"ok", "error"} \/ reply[r].body \notin {"none", "message"}
            => ctx[r].answered = ctx[r].retries

(***************************************************************************)
(* A request stops at the first 2xx answer, even one that cannot be        *)
(* converted: no provider is called, and charges, after it.                *)
(***************************************************************************)
NoCallAfterAnswer ==
    \A r \in Requests : \A i \in DOMAIN sent[r] :
        i < Len(sent[r]) => sent[r][i].result = "failed"

(***************************************************************************)
(* However routes are found again, a request costs at most max_retries + 1 *)
(* calls.                                                                  *)
(***************************************************************************)
CallsBounded == \A r \in Requests : Len(sent[r]) <= MaxRetries + 1

(***************************************************************************)
(* What an upstream answered is accounted for, over all retries: by the    *)
(* time the client has its reply, with a 500 even or after a stream that   *)
(* broke off, the last row of the request names the provider that answered,*)
(* unless the database refused the row; and tokens are on no other row, so *)
(* that nobody is charged twice, for a failed call, or for another's       *)
(* answer.  Whether failed calls leave rows without tokens is left open    *)
(* (usage_tracker.rs 27 wants them, the code has none).                    *)
(***************************************************************************)
LastCall(r) == sent[r][Len(sent[r])]

WasAnswered(r) == sent[r] # <<>> /\ LastCall(r).result = "ok"

LastRowNamesAnswerer(r) ==
    ledger[r] # <<>> /\ ledger[r][Len(ledger[r])].provider = LastCall(r).to

AnswersAccounted ==
    \A r \in Requests :
        /\ \A i \in DOMAIN ledger[r] : ledger[r][i].usage # "none" =>
               i = Len(ledger[r]) /\ WasAnswered(r) /\ LastRowNamesAnswerer(r)
        /\ pc[r] = "done" /\ WasAnswered(r) => LastRowNamesAnswerer(r) \/ lost[r]

Reports(r, p, result) ==
    /\ pc[r] = "report" /\ pc'[r] # "report"
    /\ sent[r] # <<>>
    /\ LastCall(r).to = p
    /\ LastCall(r).result = result

Rearmed(p) == circuits[p].since # 0 /\ circuits'[p].since = 0

MovedByReports(p) ==
    /\ circuits'[p].failures > circuits[p].failures \/ Rearmed(p) =>
           \E r \in Requests : Reports(r, p, "failed")
    /\ circuits'[p].failures < circuits[p].failures =>
           \E r \in Requests : Reports(r, p, "ok")

CircuitsMoveByReports == \A p \in Providers : MovedByReports(p)

(***************************************************************************)
(* Only the outcomes of calls move a circuit, and truthfully: what another *)
(* stage rejects, or the open circuit itself refuses, is not held against  *)
(* the provider and does not restart its cooldown, and only a 2xx answer   *)
(* clears its failures, even one that cannot be converted for the client.  *)
(***************************************************************************)
CircuitsFollowCalls == [][CircuitsMoveByReports]_vars

(***************************************************************************)
(* Inside the pipeline, with retries, rejections by other stages, changing *)
(* providers and clients that hang up, the breaker still keeps the         *)
(* contract of BreakerContract: the requests past its gate are the ones    *)
(* between CircuitBreaker::handle's check and its report.                  *)
(***************************************************************************)
Inside ==
    [r \in Requests |->
        IF pc[r] \in {"forwarder", "upstream", "tracker", "report"}
        THEN ctx[r].config.name ELSE "nowhere"]

Contract ==
    INSTANCE BreakerContract WITH
        Callers <- Requests, gate <- Gate, streak <- Streak, inside <- Inside

KeepsBreakerContract == Contract!Spec

(***************************************************************************)
(* A complete answer reaches a client that did not ask for a stream in the *)
(* client's own protocol, whatever the provider speaks.                    *)
(***************************************************************************)
AnswersInClientFormat ==
    \A r \in Requests :
        reply[r].status = "ok" /\ ~ctx[r].streaming => reply[r].body # "openai"

(***************************************************************************)
(* Every request received is answered, or its client has gone, if upstreams*)
(* answer: retries end although each one looks the routes up again.        *)
(***************************************************************************)
EveryRequestEnds ==
    \A r \in Requests : pc[r] = "router" ~> pc[r] \in {"done", "gone"}

(***************************************************************************)
(* How many more steps a request can take, at most: those of this attempt, *)
(* and eleven for each retry that is left.                                 *)
(***************************************************************************)
StepsOfAttempt(stage) ==
    CASE stage = "router"    -> 11
      [] stage = "stripped"  -> 10
      [] stage = "load"      -> 9
      [] stage = "converter" -> 8
      [] stage = "breaker"   -> 7
      [] stage = "forwarder" -> 6
      [] stage = "upstream"  -> 5
      [] stage = "tracker"   -> 4
      [] stage = "report"    -> 3
      [] stage = "back"      -> 2
      [] stage = "execute"   -> 1
      [] OTHER               -> 0

StepsLeft(r) ==
    IF StepsOfAttempt(pc[r]) = 0
    THEN 0
    ELSE 11 * (MaxRetries - ctx[r].retries) + StepsOfAttempt(pc[r])

OfRequest(r) == <<ctx[r], pc[r], outcome[r], reply[r], sent[r], ledger[r], lost[r]>>

StepsLeftFall ==
    \A r \in Requests :
        pc[r] # "new" /\ OfRequest(r)' # OfRequest(r) =>
            /\ StepsLeft(r)' < StepsLeft(r)
            /\ StepsLeft(r)' >= 0

(***************************************************************************)
(* Why that is so: whatever is called again, routed again or refused, and  *)
(* whatever other requests and the administrator do meanwhile, every step  *)
(* of a request leaves it fewer to take, so that only an executor or an    *)
(* upstream that does nothing could keep it from its end.  Once answered it*)
(* never changes again.                                                    *)
(***************************************************************************)
RequestsDescend == [][StepsLeftFall]_vars

-----------------------------------------------------------------------------
(***************************************************************************)
(* The inductive invariant: what holds of one request, given its context,  *)
(* stage, result, reply, calls and rows, at each point of the chain.       *)
(***************************************************************************)
BeforeCall == {"router", "stripped", "load", "converter", "breaker", "forwarder"}

AfterConversion == {"breaker", "forwarder", "upstream", "tracker", "report", "back"}

Blank(c) == c.status = "none" /\ c.body = "none" /\ c.chunks = "none"

Routed(c) ==
    /\ c.config.name \in Providers
    /\ c.config.name = c.target
    /\ c.config.protocol \in Protocols

Unsuccessful(c, calls, rows) ==
    /\ \A i \in DOMAIN calls : calls[i].result = "failed"
    /\ rows = <<>>
    /\ c.chunks = "none"
    /\ c.body # "openai"

Successful(calls, rows, isLost) ==
    /\ calls # <<>>
    /\ calls[Len(calls)].result = "ok"
    /\ \/ rows = <<>> /\ isLost
       \/ Len(rows) = 1 /\ rows[1].provider = calls[Len(calls)].to

(***************************************************************************)
(* Whatever the stage, and what retries, rejections and answers leave.     *)
(***************************************************************************)
CallsInv(c, calls) ==
    /\ \A i \in DOMAIN calls : calls[i].to = calls[i].model
    /\ \A i \in DOMAIN calls : i < Len(calls) => calls[i].result = "failed"
    /\ Len(calls) <= c.retries + 1

ContextInv(c) ==
    /\ Blank(c) \/ c.answered = c.retries
    /\ c.chunks # "none" => c.streaming

ReplyInv(c, rep) ==
    /\ rep.status = "ok" /\ ~c.streaming => rep.body # "openai"
    /\ rep.status \in {"ok", "error"} \/ rep.body \notin {"none", "message"}
           => c.answered = c.retries

DownwardInv(c, stage, calls, rows) ==
    /\ stage = "new" => calls = <<>> /\ rows = <<>>
    /\ stage \in BeforeCall =>
           Unsuccessful(c, calls, rows) /\ Blank(c) /\ Len(calls) <= c.retries
    /\ stage \in {"router", "stripped", "load"} => c.config = NoConfig
    /\ stage = "stripped" => c.model # NoModel
    /\ stage = "load" => c.primary \in Providers
    /\ stage = "converter" => Routed(c)
    /\ stage \in AfterConversion => Routed(c) /\ c.upstream = ConvertedRequest(c)

UpwardInv(c, stage, result, rep, calls, rows, isLost) ==
    /\ stage \in {"upstream", "tracker", "report"} =>
           calls # <<>> /\ calls[Len(calls)].to = c.config.name
    /\ stage = "upstream" => Blank(c) /\ rows = <<>>
    /\ stage = "tracker" => rows = <<>> /\ calls[Len(calls)].result = "ok"
    /\ stage = "report" =>
           \/ result = "ok" /\ Successful(calls, rows, isLost)
           \/ result = "aborted" /\ Unsuccessful(c, calls, rows)
    /\ stage \in {"tracker", "report", "back"} =>
           c.streaming \/ c.body # "openai" \/ c.upstream.format = "openai"
    /\ stage = "back" => result = "ok" /\ Successful(calls, rows, isLost)
    /\ stage = "execute" =>
           \/ result = "aborted" /\ Unsuccessful(c, calls, rows)
           \/ /\ result \in {"ok", "internal"} /\ Successful(calls, rows, isLost)
              /\ c.streaming \/ c.body # "openai"
    /\ stage = "done" =>
           Unsuccessful(c, calls, rows) \/ Successful(calls, rows, isLost)
    /\ stage = "gone" => rows = <<>>
    /\ stage # "done" => rep = NoReply

RequestInv(c, stage, result, rep, calls, rows, isLost) ==
    /\ CallsInv(c, calls)
    /\ ContextInv(c)
    /\ ReplyInv(c, rep)
    /\ DownwardInv(c, stage, calls, rows)
    /\ UpwardInv(c, stage, result, rep, calls, rows, isLost)

RequestsInv ==
    \A r \in Requests :
        RequestInv(ctx[r], pc[r], outcome[r], reply[r], sent[r], ledger[r], lost[r])

-----------------------------------------------------------------------------
(***************************************************************************)
(* What documents and comments say, and the code does not do.              *)
(***************************************************************************)

(***************************************************************************)
(* router.rs 24: "Skip route lookup on retry -- resolved_target already set*)
(* by Pipeline::execute"; ARCHITECTURE-ecc-v2.md 179: when a target fails  *)
(* the next priority is tried.  A failed provider is not called again.     *)
(***************************************************************************)
FailoverMovesOn ==
    \A r \in Requests : \A i, j \in DOMAIN sent[r] :
        i < j => sent[r][i].to # sent[r][j].to
=============================================================================
