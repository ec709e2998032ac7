------------------------- MODULE ProxyPipelineProofs ------------------------
(***************************************************************************)
(* The request path, for any number of requests, providers, models and     *)
(* retries: type correctness, the inductive invariant RequestsInv, and the *)
(* safety properties that follow from it.                                  *)
(***************************************************************************)
EXTENDS ProxyPipeline, CircuitBreakerProofs, SequenceTheorems

-----------------------------------------------------------------------------
(***************************************************************************)
(* A route is a sequence of providers; a route that is not empty has a     *)
(* primary and fallbacks.                                                  *)
(***************************************************************************)
LEMMA RoutesAreSequences ==
    ASSUME NEW targets \in RouteSeqs
    PROVE  /\ targets \in Seq(Providers)
           /\ targets # <<>> => Head(targets) \in Providers
                                /\ Tail(targets) \in Seq(Providers)
<1>1. PICK n \in 0..Cardinality(Providers) : targets \in [1..n -> Providers]
  BY DEF RouteSeqs
<1>2. n \in Nat
  OBVIOUS
<1>3. targets \in Seq(Providers)
  BY <1>1, <1>2
<1>4. QED
  BY <1>3, HeadTailProperties

(***************************************************************************)
(* What each piece of code does to the context leaves a context.           *)
(***************************************************************************)
LEMMA ContextFields ==
    ASSUME NEW c \in RequestContext
    PROVE  /\ c.model \in Models \union {NoModel}
           /\ c.streaming \in BOOLEAN
           /\ c.target \in Providers \union {NoProvider}
           /\ c.primary \in Providers \union {NoProvider}
           /\ c.fallbacks \in Seq(Providers)
           /\ c.config \in ProviderRef
           /\ c.upstream \in Upstream
           /\ c.status \in {"none", "ok", "error"}
           /\ c.body \in Bodies
           /\ c.chunks \in Streams
           /\ c.usage \in {"none", "zero", "counted"}
           /\ c.retries \in 0..MaxRetries
           /\ c.answered \in 0..MaxRetries
  BY DEF RequestContext

(***************************************************************************)
(* RequestContext::new gives a context of the declared type.               *)
(***************************************************************************)
LEMMA NewContextType ==
    ASSUME NEW m \in Models \union {NoModel}, NEW s \in BOOLEAN
    PROVE  NewContext(m, s) \in RequestContext
<1>1. NoConfig \in ProviderRef /\ NoUpstream \in Upstream
  BY DEF NoConfig, ProviderRef, NoUpstream, Upstream
<1>2. 0 \in 0..MaxRetries
  BY PipelineAssumption
<1>3. <<>> \in Seq(Providers)
  OBVIOUS
<1>4. QED
  BY <1>1, <1>2, <1>3 DEF NewContext, RequestContext, Bodies, Streams

(***************************************************************************)
(* The router keeps it when it notes a non-empty list of targets.          *)
(***************************************************************************)
LEMMA TakeTargetsType ==
    ASSUME NEW c \in RequestContext, NEW targets \in RouteSeqs, targets # <<>>
    PROVE  /\ TakeTargets(c, targets) \in RequestContext
           /\ TakeTargets(c, targets).primary \in Providers
<1>1. Head(targets) \in Providers /\ Tail(targets) \in Seq(Providers)
  BY RoutesAreSequences
<1>2. QED
  BY <1>1 DEF TakeTargets, RequestContext

(***************************************************************************)
(* The router keeps it when it notes the provider it found.                *)
(***************************************************************************)
LEMMA ResolveType ==
    ASSUME NEW c \in RequestContext, c.primary \in Providers, NEW p \in Configs
    PROVE  /\ Resolve(c, p) \in RequestContext
           /\ Routed(Resolve(c, p))
<1>1. p.protocol \in Protocols
  BY PipelineAssumption DEF Protocols
<1>2. [name |-> c.primary, protocol |-> p.protocol] \in ProviderRef
  BY <1>1 DEF ProviderRef
<1>3. QED
  BY <1>1, <1>2 DEF Resolve, RequestContext, Routed

(***************************************************************************)
(* The converter keeps it when it sets the upstream fields.                *)
(***************************************************************************)
LEMMA ConvertedRequestType ==
    ASSUME NEW c \in RequestContext
    PROVE  [c EXCEPT !.upstream = ConvertedRequest(c)] \in RequestContext
<1>1. ConvertedRequest(c) \in Upstream
  BY ContextFields DEF ConvertedRequest, Upstream, ProviderRef
<1>2. QED
  BY <1>1 DEF RequestContext

(***************************************************************************)
(* The forwarder keeps it when it notes a 2xx answer.                      *)
(***************************************************************************)
LEMMA AcceptedType ==
    ASSUME NEW c \in RequestContext, c.upstream.format \in Protocols, NEW quality
    PROVE  Accepted(c, quality) \in RequestContext
<1>1. /\ AnswerBody(c, quality) \in Bodies
      /\ AnswerChunks(c, quality) \in Streams
  BY DEF AnswerBody, AnswerChunks, Bodies, Streams, Protocols
<1>2. ExtractUsage(c, quality) \in {"none", "zero", "counted"}
  BY DEF ExtractUsage
<1>3. QED
  BY <1>1, <1>2 DEF Accepted, RequestContext

(***************************************************************************)
(* The forwarder keeps it when it notes another status.                    *)
(***************************************************************************)
LEMMA RefusedType ==
    ASSUME NEW c \in RequestContext PROVE Refused(c) \in RequestContext
  BY DEF Refused, RequestContext, Bodies

(***************************************************************************)
(* The converter keeps it when it converts the answer.                     *)
(***************************************************************************)
LEMMA RestoredType ==
    ASSUME NEW c \in RequestContext PROVE Restored(c) \in RequestContext
  BY DEF Restored, RequestContext, Bodies

(***************************************************************************)
(* Pipeline::execute keeps it when it takes the next fallback.             *)
(***************************************************************************)
LEMMA NextAttemptType ==
    ASSUME NEW c \in RequestContext, c.fallbacks # <<>>, c.retries < MaxRetries
    PROVE  NextAttempt(c) \in RequestContext
<1>1. Head(c.fallbacks) \in Providers /\ Tail(c.fallbacks) \in Seq(Providers)
  BY ContextFields, HeadTailProperties
<1>2. c.retries + 1 \in 0..MaxRetries
  BY ContextFields, PipelineAssumption
<1>3. NoConfig \in ProviderRef /\ NoUpstream \in Upstream
  BY DEF NoConfig, ProviderRef, NoUpstream, Upstream
<1>4. Cleared(c) \in RequestContext
  BY <1>3 DEF Cleared, RequestContext, Bodies
<1>5. QED
  BY <1>1, <1>2, <1>4 DEF NextAttempt, RequestContext

(***************************************************************************)
(* What the last call of a request's history becomes when it ends.         *)
(***************************************************************************)
LEMMA AnsweredCalls ==
    ASSUME NEW calls \in Seq(Call), calls # <<>>, NEW result \in {"ok", "failed"}
    PROVE  /\ Answered(calls, result) \in Seq(Call)
           /\ Len(Answered(calls, result)) = Len(calls)
           /\ Answered(calls, result) # <<>>
           /\ Answered(calls, result)[Len(calls)].result = result
           /\ Answered(calls, result)[Len(calls)].to = calls[Len(calls)].to
           /\ Answered(calls, result)[Len(calls)].model = calls[Len(calls)].model
           /\ \A i \in 1..Len(calls) :
                  i # Len(calls) => Answered(calls, result)[i] = calls[i]
<1>1. Len(calls) \in 1..Len(calls)
  BY EmptySeq
<1>2. calls[Len(calls)] \in Call
  BY <1>1, ElementOfSeq
<1>3. [calls[Len(calls)] EXCEPT !.result = result] \in Call
  BY <1>2 DEF Call
<1>4. Answered(calls, result)
        = [calls EXCEPT ![Len(calls)] = [calls[Len(calls)] EXCEPT !.result = result]]
  BY DEF Answered
<1>5. Answered(calls, result) \in Seq(Call) /\ Len(Answered(calls, result)) = Len(calls)
  BY <1>1, <1>3, <1>4, ExceptSeq
<1>6. QED
  BY <1>1, <1>2, <1>4, <1>5 DEF Call

-----------------------------------------------------------------------------
Results == {"ok", "aborted", "internal"}

RequestTypes ==
    /\ ctx \in [Requests -> RequestContext]
    /\ pc \in [Requests -> Stage]
    /\ outcome \in [Requests -> Results]
    /\ reply \in [Requests -> Reply]
    /\ sent \in [Requests -> Seq(Call)]
    /\ ledger \in [Requests -> Seq(Row)]
    /\ lost \in [Requests -> BOOLEAN]

ReqInv == RequestTypes /\ RequestsInv

(***************************************************************************)
(* The state of one request, and the invariant about it.                   *)
(***************************************************************************)
LEMMA OneRequest ==
    ASSUME ReqInv, NEW r \in Requests
    PROVE  /\ ctx[r] \in RequestContext
           /\ pc[r] \in Stage
           /\ outcome[r] \in Results
           /\ reply[r] \in Reply
           /\ sent[r] \in Seq(Call)
           /\ ledger[r] \in Seq(Row)
           /\ lost[r] \in BOOLEAN
           /\ RequestInv(ctx[r], pc[r], outcome[r], reply[r], sent[r], ledger[r], lost[r])
  BY DEF ReqInv, RequestTypes, RequestsInv

(***************************************************************************)
(* A step of one request leaves the others alone.                          *)
(***************************************************************************)
OthersFramed(r) ==
    \A q \in Requests : q # r =>
        /\ ctx'[q] = ctx[q] /\ pc'[q] = pc[q] /\ outcome'[q] = outcome[q]
        /\ reply'[q] = reply[q] /\ sent'[q] = sent[q] /\ ledger'[q] = ledger[q]
        /\ lost'[q] = lost[q]

(***************************************************************************)
(* If one request moves, the others keep their state, and the new state of *)
(* that one is as the invariant says, the invariant is kept.               *)
(***************************************************************************)
LEMMA OnlyThisRequest ==
    ASSUME ReqInv, RequestTypes', NEW r \in Requests, OthersFramed(r),
           RequestInv(ctx'[r], pc'[r], outcome'[r], reply'[r], sent'[r], ledger'[r],
                      lost'[r])
    PROVE  ReqInv'
<1>1. ASSUME NEW q \in Requests
      PROVE  RequestInv(ctx'[q], pc'[q], outcome'[q], reply'[q], sent'[q], ledger'[q],
                        lost'[q])
  <2>1. CASE q = r
    BY <2>1
  <2>2. CASE q # r
    <3>1. RequestInv(ctx[q], pc[q], outcome[q], reply[q], sent[q], ledger[q], lost[q])
      BY OneRequest
    <3>2. QED
      BY <2>2, <3>1 DEF OthersFramed
  <2>3. QED
    BY <2>1, <2>2
<1>2. QED
  BY <1>1 DEF ReqInv, RequestsInv

-----------------------------------------------------------------------------
(***************************************************************************)
(* One lemma for each action of a request.                                 *)
(***************************************************************************)
LEMMA ReceiveKeeps ==
    ASSUME ReqInv, NEW r \in Requests,
           NEW m \in Models \union {NoModel}, NEW s \in BOOLEAN, Receive(r, m, s)
    PROVE  ReqInv'
<1>1. RequestInv(ctx[r], "new", outcome[r], reply[r], sent[r], ledger[r], lost[r])
  BY OneRequest DEF Receive
<1>2. RequestInv(NewContext(m, s), "router", outcome[r], reply[r], sent[r], ledger[r], lost[r])
  <2>1. sent[r] = <<>> /\ ledger[r] = <<>> /\ reply[r] = NoReply
    BY <1>1 DEF RequestInv, DownwardInv, UpwardInv
  <2>2. /\ CallsInv(NewContext(m, s), <<>>)
        /\ ContextInv(NewContext(m, s))
        /\ ReplyInv(NewContext(m, s), NoReply)
    BY DEF CallsInv, ContextInv, ReplyInv, NewContext, Blank, NoReply
  <2>3. DownwardInv(NewContext(m, s), "router", <<>>, <<>>)
    BY DEF DownwardInv, NewContext, Unsuccessful, Blank, BeforeCall, AfterConversion
  <2>4. UpwardInv(NewContext(m, s), "router", outcome[r], NoReply, <<>>, <<>>, lost[r])
    BY DEF UpwardInv
  <2>5. QED
    BY <2>1, <2>2, <2>3, <2>4 DEF RequestInv
<1>3. NewContext(m, s) \in RequestContext
  BY NewContextType
<1>4. RequestTypes' /\ OthersFramed(r)
  BY <1>3 DEF ReqInv, RequestTypes, OthersFramed, Receive, Goto, Stage
<1>5. /\ ctx'[r] = NewContext(m, s) /\ pc'[r] = "router" /\ outcome'[r] = outcome[r]
      /\ reply'[r] = reply[r] /\ sent'[r] = sent[r] /\ ledger'[r] = ledger[r]
      /\ lost'[r] = lost[r]
  BY DEF ReqInv, RequestTypes, Receive, Goto
<1>6. QED
  BY <1>2, <1>4, <1>5, OnlyThisRequest

(***************************************************************************)
(* Aborting before a call was made: nothing is left but the result.        *)
(***************************************************************************)
LEMMA AbortBeforeCall ==
    ASSUME NEW c \in RequestContext, NEW s \in BeforeCall, NEW o \in Results,
           NEW rep \in Reply, NEW calls \in Seq(Call), NEW rows \in Seq(Row),
           NEW l \in BOOLEAN, RequestInv(c, s, o, rep, calls, rows, l)
    PROVE  RequestInv(c, "execute", "aborted", rep, calls, rows, l)
<1>1. s # "done"
  BY DEF BeforeCall
<1>2. /\ CallsInv(c, calls) /\ ContextInv(c) /\ ReplyInv(c, rep) /\ rep = NoReply
      /\ Unsuccessful(c, calls, rows)
  BY <1>1 DEF RequestInv, DownwardInv, UpwardInv
<1>3. DownwardInv(c, "execute", calls, rows)
  BY DEF DownwardInv, BeforeCall, AfterConversion
<1>4. UpwardInv(c, "execute", "aborted", rep, calls, rows, l)
  BY <1>2 DEF UpwardInv
<1>5. QED
  BY <1>2, <1>3, <1>4 DEF RequestInv

(***************************************************************************)
(* A step that only turns the result of a request before its call into     *)
(* Aborted keeps the invariant (router, breaker).                          *)
(***************************************************************************)
LEMMA AbortKeeps ==
    ASSUME ReqInv, NEW r \in Requests, pc[r] \in BeforeCall,
           Fail(r, "aborted", "execute"), UNCHANGED <<ctx, reply, sent, ledger, lost>>
    PROVE  ReqInv'
<1>1. RequestInv(ctx[r], "execute", "aborted", reply[r], sent[r], ledger[r], lost[r])
  BY OneRequest, AbortBeforeCall
<1>2. RequestTypes' /\ OthersFramed(r)
  BY DEF ReqInv, RequestTypes, OthersFramed, Fail, Goto, Stage, Results
<1>3. /\ ctx'[r] = ctx[r] /\ pc'[r] = "execute" /\ outcome'[r] = "aborted"
      /\ reply'[r] = reply[r] /\ sent'[r] = sent[r] /\ ledger'[r] = ledger[r]
      /\ lost'[r] = lost[r]
  BY DEF ReqInv, RequestTypes, Fail, Goto
<1>4. QED
  BY <1>1, <1>2, <1>3, OnlyThisRequest

(***************************************************************************)
(* Going on from one stage before the call to another, with routes found,  *)
(* a provider loaded, or a request converted on the way.                   *)
(***************************************************************************)
LEMMA DownwardStep ==
    ASSUME NEW c \in RequestContext, NEW s \in BeforeCall, NEW o \in Results,
           NEW rep \in Reply, NEW calls \in Seq(Call), NEW rows \in Seq(Row),
           NEW l \in BOOLEAN, RequestInv(c, s, o, rep, calls, rows, l),
           NEW d \in RequestContext, NEW t \in BeforeCall,
           d.status = c.status, d.body = c.body, d.chunks = c.chunks,
           d.retries = c.retries, d.answered = c.answered, d.streaming = c.streaming,
           t \in {"router", "stripped", "load"} => d.config = NoConfig,
           t = "stripped" => d.model # NoModel,
           t = "load" => d.primary \in Providers,
           t = "converter" => Routed(d),
           t \in AfterConversion => Routed(d) /\ d.upstream = ConvertedRequest(d)
    PROVE  RequestInv(d, t, o, rep, calls, rows, l)
<1>1. s \notin {"done", "new"} /\ t \notin {"done", "new"}
  BY DEF BeforeCall
<1>2. /\ CallsInv(c, calls) /\ ContextInv(c) /\ ReplyInv(c, rep) /\ rep = NoReply
      /\ Unsuccessful(c, calls, rows) /\ Blank(c) /\ Len(calls) <= c.retries
  BY <1>1 DEF RequestInv, DownwardInv, UpwardInv
<1>3. /\ CallsInv(d, calls) /\ ContextInv(d) /\ ReplyInv(d, rep)
      /\ Unsuccessful(d, calls, rows) /\ Blank(d) /\ Len(calls) <= d.retries
  BY <1>2 DEF CallsInv, ContextInv, ReplyInv, Unsuccessful, Blank
<1>4. DownwardInv(d, t, calls, rows)
  BY <1>1, <1>3 DEF DownwardInv
<1>5. UpwardInv(d, t, o, rep, calls, rows, l)
  BY <1>2 DEF UpwardInv, BeforeCall
<1>6. QED
  BY <1>3, <1>4, <1>5 DEF RequestInv

(***************************************************************************)
(* So does finding a non-empty list of targets, by whichever lookup.       *)
(***************************************************************************)
LEMMA FoundKeeps ==
    ASSUME ReqInv, NEW r \in Requests, pc[r] \in {"router", "stripped"},
           NEW targets \in RouteSeqs, targets # <<>>,
           ctx' = [ctx EXCEPT ![r] = TakeTargets(@, targets)], Goto(r, "load"),
           UNCHANGED <<outcome, reply, sent, ledger, lost>>
    PROVE  ReqInv'
<1> DEFINE d == TakeTargets(ctx[r], targets)
<1>1. d \in RequestContext /\ d.primary \in Providers
  BY OneRequest, TakeTargetsType
<1>2. ctx[r].config = NoConfig
  BY OneRequest DEF RequestInv, DownwardInv
<1>3. /\ d.status = ctx[r].status /\ d.body = ctx[r].body /\ d.chunks = ctx[r].chunks
      /\ d.retries = ctx[r].retries /\ d.answered = ctx[r].answered
      /\ d.streaming = ctx[r].streaming /\ d.config = ctx[r].config
  BY OneRequest DEF TakeTargets, RequestContext
<1>4. pc[r] \in BeforeCall /\ "load" \in BeforeCall /\ "load" \notin AfterConversion
  BY DEF BeforeCall, AfterConversion
<1>5. RequestInv(d, "load", outcome[r], reply[r], sent[r], ledger[r], lost[r])
  BY <1>1, <1>2, <1>3, <1>4, OneRequest, DownwardStep
<1>6. RequestTypes' /\ OthersFramed(r)
  BY <1>1 DEF ReqInv, RequestTypes, OthersFramed, Goto, Stage
<1>7. /\ ctx'[r] = d /\ pc'[r] = "load" /\ outcome'[r] = outcome[r]
      /\ reply'[r] = reply[r] /\ sent'[r] = sent[r] /\ ledger'[r] = ledger[r]
      /\ lost'[r] = lost[r]
  BY DEF ReqInv, RequestTypes, Goto
<1>8. QED
  BY <1>5, <1>6, <1>7, OnlyThisRequest

(***************************************************************************)
(* Router::handle, the guard and the exact lookup.                         *)
(***************************************************************************)
LEMMA FindExactKeeps ==
    ASSUME ReqInv, routes \in [Models -> RouteSeqs], NEW r \in Requests, FindExact(r)
    PROVE  ReqInv'
<1>1. pc[r] = "router" /\ ctx[r].model \in Models
  BY OneRequest, ContextFields DEF FindExact
<1>2. ctx[r].config = NoConfig
  BY <1>1, OneRequest DEF RequestInv, DownwardInv
<1>3. CASE routes[ctx[r].model] # <<>>
  BY <1>1, <1>2, <1>3, FoundKeeps DEF FindExact
<1>4. CASE routes[ctx[r].model] = <<>>
  <2>1. /\ "router" \in BeforeCall /\ "stripped" \in BeforeCall
        /\ "stripped" \notin AfterConversion
    BY DEF BeforeCall, AfterConversion
  <2>2. RequestInv(ctx[r], "stripped", outcome[r], reply[r], sent[r], ledger[r], lost[r])
    <3>1. RequestInv(ctx[r], "router", outcome[r], reply[r], sent[r], ledger[r], lost[r])
      BY <1>1, OneRequest
    <3>2. ctx[r].model # NoModel
      BY <1>1, PipelineAssumption
    <3>3. QED
      BY <1>2, <2>1, <3>1, <3>2, OneRequest, DownwardStep
  <2>3. UNCHANGED <<ctx, outcome, reply, sent, ledger, lost>> /\ Goto(r, "stripped")
    BY <1>2, <1>4 DEF FindExact
  <2>4. RequestTypes' /\ OthersFramed(r)
    BY <2>3 DEF ReqInv, RequestTypes, OthersFramed, Goto, Stage
  <2>5. /\ ctx'[r] = ctx[r] /\ pc'[r] = "stripped" /\ outcome'[r] = outcome[r]
        /\ reply'[r] = reply[r] /\ sent'[r] = sent[r] /\ ledger'[r] = ledger[r]
        /\ lost'[r] = lost[r]
    BY <2>3 DEF ReqInv, RequestTypes, Goto
  <2>6. QED
    BY <2>2, <2>4, <2>5, OnlyThisRequest
<1>5. QED
  BY <1>3, <1>4

(***************************************************************************)
(* Router::handle, the lookup without the date.                            *)
(***************************************************************************)
LEMMA FindStrippedKeeps ==
    ASSUME ReqInv, routes \in [Models -> RouteSeqs], NEW r \in Requests, FindStripped(r)
    PROVE  ReqInv'
<1>1. PICK targets \in RouteSeqs : targets = BaseRoutes(ctx[r].model)
  <2>1. StripSuffix[ctx[r].model] # NoModel
    BY DEF FindStripped, BaseRoutes
  <2>2. ctx[r].model \in Models
    BY OneRequest, ContextFields DEF FindStripped, RequestInv, DownwardInv
  <2>3. StripSuffix[ctx[r].model] \in Models
    BY <2>1, <2>2, PipelineAssumption
  <2>4. QED
    BY <2>1, <2>3 DEF BaseRoutes
<1>2. QED
  BY <1>1, FoundKeeps DEF FindStripped

(***************************************************************************)
(* Router::handle: from here on name and target are the same provider.     *)
(***************************************************************************)
LEMMA LoadProviderKeeps ==
    ASSUME ReqInv, providers \in [Providers -> Configs \union {Absent}],
           NEW r \in Requests, LoadProvider(r)
    PROVE  ReqInv'
<1> DEFINE d == Resolve(ctx[r], providers[ctx[r].primary])
<1>1. /\ RequestInv(ctx[r], "load", outcome[r], reply[r], sent[r], ledger[r], lost[r])
      /\ ctx[r].primary \in Providers
  BY OneRequest DEF LoadProvider, RequestInv, DownwardInv
<1>2. d \in RequestContext /\ Routed(d)
  BY <1>1, OneRequest, ResolveType DEF LoadProvider
<1>3. /\ d.status = ctx[r].status /\ d.body = ctx[r].body /\ d.chunks = ctx[r].chunks
      /\ d.retries = ctx[r].retries /\ d.answered = ctx[r].answered
      /\ d.streaming = ctx[r].streaming
  BY OneRequest DEF Resolve, RequestContext
<1>4. "load" \in BeforeCall /\ "converter" \in BeforeCall /\ "converter" \notin AfterConversion
  BY DEF BeforeCall, AfterConversion
<1>5. RequestInv(d, "converter", outcome[r], reply[r], sent[r], ledger[r], lost[r])
  BY <1>1, <1>2, <1>3, <1>4, OneRequest, DownwardStep
<1>6. RequestTypes' /\ OthersFramed(r)
  BY <1>2 DEF ReqInv, RequestTypes, OthersFramed, LoadProvider, Goto, Stage
<1>7. /\ ctx'[r] = d /\ pc'[r] = "converter" /\ outcome'[r] = outcome[r]
      /\ reply'[r] = reply[r] /\ sent'[r] = sent[r] /\ ledger'[r] = ledger[r]
      /\ lost'[r] = lost[r]
  BY DEF ReqInv, RequestTypes, LoadProvider, Goto
<1>8. QED
  BY <1>5, <1>6, <1>7, OnlyThisRequest

(***************************************************************************)
(* ConverterMiddleware::handle: URL and model are of one provider.         *)
(***************************************************************************)
LEMMA ConvertRequestKeeps ==
    ASSUME ReqInv, NEW r \in Requests, ConvertRequest(r)
    PROVE  ReqInv'
<1> DEFINE d == [ctx[r] EXCEPT !.upstream = ConvertedRequest(ctx[r])]
<1>1. /\ RequestInv(ctx[r], "converter", outcome[r], reply[r], sent[r], ledger[r], lost[r])
      /\ Routed(ctx[r])
  BY OneRequest DEF ConvertRequest, RequestInv, DownwardInv
<1>2. d \in RequestContext
  BY OneRequest, ConvertedRequestType
<1>3. /\ d.status = ctx[r].status /\ d.body = ctx[r].body /\ d.chunks = ctx[r].chunks
      /\ d.retries = ctx[r].retries /\ d.answered = ctx[r].answered
      /\ d.streaming = ctx[r].streaming /\ d.config = ctx[r].config
      /\ d.target = ctx[r].target /\ d.upstream = ConvertedRequest(ctx[r])
  BY OneRequest DEF RequestContext
<1>4. Routed(d) /\ d.upstream = ConvertedRequest(d)
  BY <1>1, <1>3 DEF Routed, ConvertedRequest
<1>5. "converter" \in BeforeCall /\ "breaker" \in BeforeCall
  BY DEF BeforeCall
<1>6. RequestInv(d, "breaker", outcome[r], reply[r], sent[r], ledger[r], lost[r])
  <2> HIDE DEF d
  <2>1. \A t \in {"breaker"} : t \notin {"router", "stripped", "load", "converter"}
    OBVIOUS
  <2>2. QED
    BY <1>1, <1>2, <1>3, <1>4, <1>5, <2>1, OneRequest, DownwardStep
<1>7. RequestTypes' /\ OthersFramed(r)
  BY <1>2 DEF ReqInv, RequestTypes, OthersFramed, ConvertRequest, Goto, Stage
<1>8. /\ ctx'[r] = d /\ pc'[r] = "breaker" /\ outcome'[r] = outcome[r]
      /\ reply'[r] = reply[r] /\ sent'[r] = sent[r] /\ ledger'[r] = ledger[r]
      /\ lost'[r] = lost[r]
  BY DEF ReqInv, RequestTypes, ConvertRequest, Goto
<1>9. QED
  BY <1>6, <1>7, <1>8, OnlyThisRequest

(***************************************************************************)
(* CircuitBreaker::handle lets a request in.                               *)
(***************************************************************************)
LEMMA PassBreakerKeeps ==
    ASSUME ReqInv, NEW r \in Requests, PassBreaker(r)
    PROVE  ReqInv'
<1>1. /\ RequestInv(ctx[r], "breaker", outcome[r], reply[r], sent[r], ledger[r], lost[r])
      /\ Routed(ctx[r]) /\ ctx[r].upstream = ConvertedRequest(ctx[r])
  BY OneRequest DEF PassBreaker, RequestInv, DownwardInv, AfterConversion
<1>2. "breaker" \in BeforeCall /\ "forwarder" \in BeforeCall
  BY DEF BeforeCall
<1>3. RequestInv(ctx[r], "forwarder", outcome[r], reply[r], sent[r], ledger[r], lost[r])
  BY <1>1, <1>2, OneRequest, DownwardStep
<1>4. RequestTypes' /\ OthersFramed(r)
  BY DEF ReqInv, RequestTypes, OthersFramed, PassBreaker, Goto, Stage
<1>5. /\ ctx'[r] = ctx[r] /\ pc'[r] = "forwarder" /\ outcome'[r] = outcome[r]
      /\ reply'[r] = reply[r] /\ sent'[r] = sent[r] /\ ledger'[r] = ledger[r]
      /\ lost'[r] = lost[r]
  BY DEF ReqInv, RequestTypes, PassBreaker, Goto
<1>6. QED
  BY <1>3, <1>4, <1>5, OnlyThisRequest

(***************************************************************************)
(* Forwarder::handle: the call is counted against retries + 1.             *)
(***************************************************************************)
LEMMA ForwardKeeps ==
    ASSUME ReqInv, NEW r \in Requests, Forward(r)
    PROVE  ReqInv'
<1> DEFINE c == ctx[r]
           call == [to |-> c.upstream.to, model |-> c.upstream.model, result |-> "pending"]
           calls == Append(sent[r], call)
<1>1. /\ RequestInv(c, "forwarder", outcome[r], reply[r], sent[r], ledger[r], lost[r])
      /\ sent[r] \in Seq(Call) /\ c \in RequestContext
  BY OneRequest DEF Forward
<1>2. /\ Unsuccessful(c, sent[r], ledger[r]) /\ Blank(c) /\ Len(sent[r]) <= c.retries
      /\ Routed(c) /\ c.upstream = ConvertedRequest(c) /\ reply[r] = NoReply
      /\ CallsInv(c, sent[r])
  BY <1>1 DEF RequestInv, DownwardInv, UpwardInv, BeforeCall, AfterConversion
<1>3. /\ call \in Call /\ call.to = c.config.name /\ call.model = call.to
      /\ call.result = "pending"
  BY <1>2 DEF Call, Routed, ConvertedRequest
<1>4. /\ calls \in Seq(Call) /\ Len(calls) = Len(sent[r]) + 1
      /\ calls[Len(calls)] = call
      /\ \A i \in 1..Len(sent[r]) : calls[i] = sent[r][i]
  BY <1>1, <1>3, AppendProperties
<1>5. Len(sent[r]) \in Nat /\ DOMAIN sent[r] = 1..Len(sent[r]) /\ DOMAIN calls = 1..Len(calls)
  BY <1>1, <1>4, LenProperties
<1>6. CallsInv(c, calls)
  <2>1. c.retries \in Nat
    BY <1>1, ContextFields
  <2>2. ASSUME NEW i \in DOMAIN calls PROVE calls[i].to = calls[i].model
    BY <1>2, <1>3, <1>4, <1>5, <2>2 DEF CallsInv
  <2>3. ASSUME NEW i \in DOMAIN calls, i < Len(calls) PROVE calls[i].result = "failed"
    BY <1>2, <1>4, <1>5, <2>3 DEF Unsuccessful
  <2>4. Len(calls) <= c.retries + 1
    BY <1>2, <1>4, <1>5, <2>1
  <2>5. QED
    BY <2>2, <2>3, <2>4 DEF CallsInv
<1>7. calls # <<>>
  BY <1>1, <1>3, AppendProperties
<1>8. RequestInv(c, "upstream", outcome[r], reply[r], calls, ledger[r], lost[r])
  <2>1. ContextInv(c) /\ ReplyInv(c, reply[r])
    BY <1>1 DEF RequestInv
  <2>2. DownwardInv(c, "upstream", calls, ledger[r])
    BY <1>2 DEF DownwardInv, BeforeCall
  <2>3. UpwardInv(c, "upstream", outcome[r], reply[r], calls, ledger[r], lost[r])
    BY <1>2, <1>3, <1>4, <1>7 DEF UpwardInv, Unsuccessful
  <2>4. QED
    BY <1>6, <2>1, <2>2, <2>3 DEF RequestInv
<1>9. RequestTypes' /\ OthersFramed(r)
  BY <1>4 DEF ReqInv, RequestTypes, OthersFramed, Forward, Goto, Stage
<1>10. /\ ctx'[r] = ctx[r] /\ pc'[r] = "upstream" /\ outcome'[r] = outcome[r]
       /\ reply'[r] = reply[r] /\ sent'[r] = calls /\ ledger'[r] = ledger[r]
       /\ lost'[r] = lost[r]
  BY DEF ReqInv, RequestTypes, Forward, Goto
<1>11. QED
  BY <1>8, <1>9, <1>10, OnlyThisRequest

(***************************************************************************)
(* What an answer to the last call leaves of the invariant on the calls.   *)
(***************************************************************************)
LEMMA AnsweredCallsInv ==
    ASSUME NEW calls \in Seq(Call), calls # <<>>, NEW result \in {"ok", "failed"},
           NEW c, CallsInv(c, calls), NEW d, d.retries = c.retries
    PROVE  CallsInv(d, Answered(calls, result))
<1> DEFINE new == Answered(calls, result)
<1>1. /\ new \in Seq(Call) /\ Len(new) = Len(calls)
      /\ new[Len(calls)].to = calls[Len(calls)].to
      /\ new[Len(calls)].model = calls[Len(calls)].model
      /\ \A i \in 1..Len(calls) : i # Len(calls) => new[i] = calls[i]
  BY AnsweredCalls
<1>2. DOMAIN new = DOMAIN calls /\ DOMAIN calls = 1..Len(calls) /\ Len(calls) \in Nat
  BY <1>1, LenProperties
<1> HIDE DEF new
<1>3. ASSUME NEW i \in DOMAIN new PROVE new[i].to = new[i].model
  BY <1>1, <1>2, <1>3 DEF CallsInv
<1>4. ASSUME NEW i \in DOMAIN new, i < Len(new) PROVE new[i].result = "failed"
  <2>1. i \in 1..Len(calls) /\ i < Len(calls)
    BY <1>1, <1>2, <1>4
  <2>2. i # Len(calls)
    BY <1>2, <2>1
  <2>3. new[i] = calls[i]
    BY <1>1, <2>1, <2>2
  <2>4. QED
    BY <1>2, <2>1, <2>3 DEF CallsInv
<1>5. Len(new) <= d.retries + 1
  BY <1>1 DEF CallsInv
<1>6. QED
  BY <1>3, <1>4, <1>5 DEF CallsInv, new

(***************************************************************************)
(* What is known of a request whose call is at the upstream.               *)
(***************************************************************************)
LEMMA AtUpstream ==
    ASSUME ReqInv, NEW r \in Requests, pc[r] = "upstream"
    PROVE  /\ Routed(ctx[r]) /\ ctx[r].upstream = ConvertedRequest(ctx[r])
           /\ Blank(ctx[r]) /\ CallsInv(ctx[r], sent[r])
           /\ sent[r] # <<>> /\ sent[r][Len(sent[r])].to = ctx[r].config.name
           /\ ledger[r] = <<>> /\ reply[r] = NoReply
           /\ ctx[r].upstream.format \in Protocols
<1>1. RequestInv(ctx[r], "upstream", outcome[r], reply[r], sent[r], ledger[r], lost[r])
  BY OneRequest
<1>2. Routed(ctx[r]) /\ ctx[r].upstream = ConvertedRequest(ctx[r])
  BY <1>1 DEF RequestInv, DownwardInv, AfterConversion
<1>3. QED
  BY <1>1, <1>2 DEF RequestInv, UpwardInv, Routed, ConvertedRequest

(***************************************************************************)
(* A 2xx answer of any quality: the calls end with it.                     *)
(***************************************************************************)
LEMMA UpstreamAnswersKeeps ==
    ASSUME ReqInv, NEW r \in Requests, NEW quality, UpstreamAnswers(r, quality)
    PROVE  ReqInv'
<1> DEFINE c == ctx[r]
           d == Accepted(c, quality)
           calls == Answered(sent[r], "ok")
<1>1. /\ Routed(c) /\ c.upstream = ConvertedRequest(c) /\ Blank(c) /\ CallsInv(c, sent[r])
      /\ sent[r] # <<>> /\ sent[r][Len(sent[r])].to = c.config.name
      /\ ledger[r] = <<>> /\ reply[r] = NoReply /\ c.upstream.format \in Protocols
      /\ sent[r] \in Seq(Call) /\ c \in RequestContext
  BY AtUpstream, OneRequest DEF UpstreamAnswers
<1>2. d \in RequestContext
  BY <1>1, AcceptedType
<1>3. /\ d.config = c.config /\ d.target = c.target /\ d.upstream = c.upstream
      /\ d.streaming = c.streaming /\ d.retries = c.retries /\ d.answered = c.retries
      /\ ~c.streaming => d.chunks = c.chunks /\ d.body = AnswerBody(c, quality)
  BY <1>1 DEF Accepted, RequestContext
<1>4. /\ calls \in Seq(Call) /\ Len(calls) = Len(sent[r]) /\ calls # <<>>
      /\ calls[Len(calls)].result = "ok" /\ calls[Len(calls)].to = d.config.name
  <2>1. /\ calls \in Seq(Call) /\ Len(calls) = Len(sent[r]) /\ calls # <<>>
        /\ calls[Len(sent[r])].result = "ok"
        /\ calls[Len(sent[r])].to = sent[r][Len(sent[r])].to
    BY <1>1, AnsweredCalls
  <2> HIDE DEF calls, d
  <2>2. QED
    BY <1>1, <1>3, <2>1
<1>5. CallsInv(d, calls)
  BY <1>1, <1>3, AnsweredCallsInv
<1>6. c.streaming \in BOOLEAN
  BY <1>1, ContextFields
<1> HIDE DEF calls, d
<1>7. RequestInv(d, "tracker", outcome[r], NoReply, calls, <<>>, lost[r])
  <2>1. ContextInv(d)
    BY <1>1, <1>3, <1>6 DEF ContextInv, Blank
  <2>2. ReplyInv(d, NoReply)
    BY DEF ReplyInv, NoReply
  <2>3. DownwardInv(d, "tracker", calls, <<>>)
    BY <1>1, <1>3 DEF DownwardInv, BeforeCall, Routed, ConvertedRequest
  <2>4. d.streaming \/ d.body # "openai" \/ d.upstream.format = "openai"
    BY <1>3, <1>6 DEF AnswerBody
  <2>5. UpwardInv(d, "tracker", outcome[r], NoReply, calls, <<>>, lost[r])
    BY <1>4, <2>4 DEF UpwardInv
  <2>6. QED
    BY <1>5, <2>1, <2>2, <2>3, <2>5 DEF RequestInv
<1>8. /\ ctx' = [ctx EXCEPT ![r] = d] /\ sent' = [sent EXCEPT ![r] = calls]
      /\ Goto(r, "tracker") /\ UNCHANGED <<outcome, reply, ledger, lost>>
  BY DEF UpstreamAnswers, d, calls
<1>9. RequestTypes' /\ OthersFramed(r)
  BY <1>2, <1>4, <1>8 DEF ReqInv, RequestTypes, OthersFramed, Goto, Stage
<1>10. /\ ctx'[r] = d /\ pc'[r] = "tracker" /\ outcome'[r] = outcome[r]
       /\ reply'[r] = NoReply /\ sent'[r] = calls /\ ledger'[r] = <<>>
       /\ lost'[r] = lost[r]
  BY <1>1, <1>8 DEF ReqInv, RequestTypes, Goto
<1>11. QED
  BY <1>7, <1>9, <1>10, OnlyThisRequest

(***************************************************************************)
(* A call that failed, with an error answer or with no answer.             *)
(***************************************************************************)
LEMMA FailedCallKeeps ==
    ASSUME ReqInv, NEW r \in Requests, pc[r] = "upstream",
           NEW d \in RequestContext,
           d.config = ctx[r].config, d.target = ctx[r].target,
           d.upstream = ctx[r].upstream, d.streaming = ctx[r].streaming,
           d.retries = ctx[r].retries, d.chunks = ctx[r].chunks,
           d.body # "openai", Blank(d) \/ d.answered = d.retries,
           ctx' = [ctx EXCEPT ![r] = d], sent' = [sent EXCEPT ![r] = Answered(@, "failed")],
           Fail(r, "aborted", "report"), UNCHANGED <<reply, ledger, lost>>
    PROVE  ReqInv'
<1> DEFINE calls == Answered(sent[r], "failed")
<1>1. /\ Routed(ctx[r]) /\ ctx[r].upstream = ConvertedRequest(ctx[r])
      /\ Blank(ctx[r]) /\ CallsInv(ctx[r], sent[r])
      /\ sent[r] # <<>> /\ sent[r][Len(sent[r])].to = ctx[r].config.name
      /\ ledger[r] = <<>> /\ reply[r] = NoReply
      /\ sent[r] \in Seq(Call) /\ ctx[r] \in RequestContext
  BY AtUpstream, OneRequest
<1>2. /\ calls \in Seq(Call) /\ Len(calls) = Len(sent[r]) /\ calls # <<>>
      /\ calls[Len(calls)].result = "failed" /\ calls[Len(calls)].to = d.config.name
  <2>1. /\ calls \in Seq(Call) /\ Len(calls) = Len(sent[r]) /\ calls # <<>>
        /\ calls[Len(sent[r])].result = "failed"
        /\ calls[Len(sent[r])].to = sent[r][Len(sent[r])].to
    BY <1>1, AnsweredCalls
  <2> HIDE DEF calls
  <2>2. QED
    BY <1>1, <2>1
<1>3. CallsInv(d, calls)
  BY <1>1, AnsweredCallsInv
<1> HIDE DEF calls
<1>4. Unsuccessful(d, calls, <<>>)
  <2>1. DOMAIN calls = 1..Len(calls) /\ Len(calls) \in Nat
    BY <1>2, LenProperties
  <2>2. ASSUME NEW i \in DOMAIN calls PROVE calls[i].result = "failed"
    <3>1. i = Len(calls) \/ i < Len(calls)
      BY <2>1
    <3>2. QED
      BY <1>2, <1>3, <3>1 DEF CallsInv
  <2>3. QED
    BY <1>1, <2>2 DEF Unsuccessful, Blank
<1>5. RequestInv(d, "report", "aborted", NoReply, calls, <<>>, lost[r])
  <2>1. ContextInv(d)
    BY <1>1 DEF ContextInv, Blank
  <2>2. ReplyInv(d, NoReply)
    BY DEF ReplyInv, NoReply
  <2>3. DownwardInv(d, "report", calls, <<>>)
    BY <1>1 DEF DownwardInv, BeforeCall, Routed, ConvertedRequest
  <2>4. UpwardInv(d, "report", "aborted", NoReply, calls, <<>>, lost[r])
    BY <1>2, <1>4 DEF UpwardInv
  <2>5. QED
    BY <1>3, <2>1, <2>2, <2>3, <2>4 DEF RequestInv
<1>6. sent' = [sent EXCEPT ![r] = calls]
  BY DEF calls
<1>7. RequestTypes' /\ OthersFramed(r)
  BY <1>2, <1>6 DEF ReqInv, RequestTypes, OthersFramed, Fail, Goto, Stage, Results
<1>8. /\ ctx'[r] = d /\ pc'[r] = "report" /\ outcome'[r] = "aborted"
      /\ reply'[r] = NoReply /\ sent'[r] = calls /\ ledger'[r] = <<>>
      /\ lost'[r] = lost[r]
  BY <1>1, <1>6 DEF ReqInv, RequestTypes, Fail, Goto
<1>9. QED
  BY <1>5, <1>7, <1>8, OnlyThisRequest

(***************************************************************************)
(* Another status: its text becomes the body of this attempt.              *)
(***************************************************************************)
LEMMA UpstreamRefusesKeeps ==
    ASSUME ReqInv, NEW r \in Requests, UpstreamRefuses(r)
    PROVE  ReqInv'
<1> DEFINE d == Refused(ctx[r])
<1>1. d \in RequestContext
  BY OneRequest, RefusedType
<1>2. /\ d.config = ctx[r].config /\ d.target = ctx[r].target
      /\ d.upstream = ctx[r].upstream /\ d.streaming = ctx[r].streaming
      /\ d.retries = ctx[r].retries /\ d.chunks = ctx[r].chunks
      /\ d.body = "error" /\ d.answered = d.retries
  BY OneRequest DEF Refused, RequestContext
<1>3. ctx' = [ctx EXCEPT ![r] = d] /\ pc[r] = "upstream"
  BY DEF UpstreamRefuses
<1> HIDE DEF d
<1>4. QED
  BY <1>1, <1>2, <1>3, FailedCallKeeps DEF UpstreamRefuses

(***************************************************************************)
(* No answer at all: the context stays blank.                              *)
(***************************************************************************)
LEMMA ConnectionFailsKeeps ==
    ASSUME ReqInv, NEW r \in Requests, ConnectionFails(r)
    PROVE  ReqInv'
<1>1. Blank(ctx[r]) /\ ctx[r] \in RequestContext
  BY AtUpstream, OneRequest DEF ConnectionFails
<1>2. ctx' = [ctx EXCEPT ![r] = ctx[r]]
  BY DEF ReqInv, RequestTypes, ConnectionFails
<1>3. ctx[r].body # "openai"
  BY <1>1 DEF Blank
<1>4. QED
  BY <1>1, <1>2, <1>3, FailedCallKeeps DEF ConnectionFails

(***************************************************************************)
(* A dropped task leaves no row and no reply.                              *)
(***************************************************************************)
LEMMA DisconnectKeeps ==
    ASSUME ReqInv, NEW r \in Requests, Disconnect(r)
    PROVE  ReqInv'
<1>1. RequestInv(ctx[r], "upstream", outcome[r], reply[r], sent[r], ledger[r], lost[r])
  BY OneRequest DEF Disconnect
<1>2. /\ CallsInv(ctx[r], sent[r]) /\ ContextInv(ctx[r]) /\ ReplyInv(ctx[r], reply[r])
      /\ reply[r] = NoReply /\ ledger[r] = <<>>
  BY <1>1 DEF RequestInv, UpwardInv
<1>3. RequestInv(ctx[r], "gone", outcome[r], reply[r], sent[r], ledger[r], lost[r])
  <2>1. DownwardInv(ctx[r], "gone", sent[r], ledger[r])
    BY DEF DownwardInv, BeforeCall, AfterConversion
  <2>2. UpwardInv(ctx[r], "gone", outcome[r], reply[r], sent[r], ledger[r], lost[r])
    BY <1>2 DEF UpwardInv
  <2>3. QED
    BY <1>2, <2>1, <2>2 DEF RequestInv
<1>4. RequestTypes' /\ OthersFramed(r)
  BY DEF ReqInv, RequestTypes, OthersFramed, Disconnect, Goto, Stage
<1>5. /\ ctx'[r] = ctx[r] /\ pc'[r] = "gone" /\ outcome'[r] = outcome[r]
      /\ reply'[r] = reply[r] /\ sent'[r] = sent[r] /\ ledger'[r] = ledger[r]
      /\ lost'[r] = lost[r]
  BY DEF ReqInv, RequestTypes, Disconnect, Goto
<1>6. QED
  BY <1>3, <1>4, <1>5, OnlyThisRequest

(***************************************************************************)
(* The tracker has written its row, or lost it.                            *)
(***************************************************************************)
LEMMA TrackedRequest ==
    ASSUME ReqInv, NEW r \in Requests, pc[r] = "tracker",
           NEW rows \in Seq(Row), NEW l \in BOOLEAN,
           \/ rows = <<>> /\ l
           \/ Len(rows) = 1 /\ rows[1].provider = ctx[r].config.name
    PROVE  RequestInv(ctx[r], "report", "ok", reply[r], sent[r], rows, l)
<1>1. RequestInv(ctx[r], "tracker", outcome[r], reply[r], sent[r], ledger[r], lost[r])
  BY OneRequest
<1>2. /\ CallsInv(ctx[r], sent[r]) /\ ContextInv(ctx[r]) /\ ReplyInv(ctx[r], reply[r])
      /\ reply[r] = NoReply /\ Routed(ctx[r])
      /\ ctx[r].upstream = ConvertedRequest(ctx[r])
      /\ sent[r] # <<>> /\ sent[r][Len(sent[r])].to = ctx[r].config.name
      /\ sent[r][Len(sent[r])].result = "ok"
      /\ ctx[r].streaming \/ ctx[r].body # "openai" \/ ctx[r].upstream.format = "openai"
  BY <1>1 DEF RequestInv, DownwardInv, UpwardInv, AfterConversion
<1>3. Successful(sent[r], rows, l)
  BY <1>2 DEF Successful
<1>4. DownwardInv(ctx[r], "report", sent[r], rows)
  BY <1>2 DEF DownwardInv, BeforeCall
<1>5. UpwardInv(ctx[r], "report", "ok", reply[r], sent[r], rows, l)
  BY <1>2, <1>3 DEF UpwardInv
<1>6. QED
  BY <1>2, <1>4, <1>5 DEF RequestInv

(***************************************************************************)
(* UsageTracker::handle writes the one row of the request.                 *)
(***************************************************************************)
LEMMA TrackKeeps ==
    ASSUME ReqInv, NEW r \in Requests, Track(r)
    PROVE  ReqInv'
<1> DEFINE rows == Append(ledger[r], UsageRecord(ctx[r]))
<1>1. RequestInv(ctx[r], "tracker", outcome[r], reply[r], sent[r], ledger[r], lost[r])
  BY OneRequest DEF Track
<1>2. Routed(ctx[r]) /\ ledger[r] = <<>>
  BY <1>1 DEF RequestInv, DownwardInv, UpwardInv, AfterConversion
<1>3. UsageRecord(ctx[r]) \in Row /\ UsageRecord(ctx[r]).provider = ctx[r].config.name
  BY <1>2, OneRequest, ContextFields DEF UsageRecord, Row, Routed
<1>4. rows \in Seq(Row) /\ Len(rows) = 1 /\ rows[1] = UsageRecord(ctx[r])
  BY <1>2, <1>3
<1> HIDE DEF rows
<1>5. RequestInv(ctx[r], "report", "ok", reply[r], sent[r], rows, lost[r])
  BY <1>3, <1>4, OneRequest, TrackedRequest DEF Track
<1>6. ledger' = [ledger EXCEPT ![r] = rows]
  BY DEF Track, rows
<1>7. RequestTypes' /\ OthersFramed(r)
  BY <1>4, <1>6 DEF ReqInv, RequestTypes, OthersFramed, Track, Goto, Stage, Results
<1>8. /\ ctx'[r] = ctx[r] /\ pc'[r] = "report" /\ outcome'[r] = "ok"
      /\ reply'[r] = reply[r] /\ sent'[r] = sent[r] /\ ledger'[r] = rows
      /\ lost'[r] = lost[r]
  BY <1>6 DEF ReqInv, RequestTypes, Track, Goto
<1>9. QED
  BY <1>5, <1>7, <1>8, OnlyThisRequest

(***************************************************************************)
(* The database refuses it: the loss is noted.                             *)
(***************************************************************************)
LEMMA TrackFailsKeeps ==
    ASSUME ReqInv, NEW r \in Requests, TrackFails(r)
    PROVE  ReqInv'
<1>1. RequestInv(ctx[r], "tracker", outcome[r], reply[r], sent[r], ledger[r], lost[r])
  BY OneRequest DEF TrackFails
<1>2. ledger[r] = <<>>
  BY <1>1 DEF RequestInv, UpwardInv
<1>3. RequestInv(ctx[r], "report", "ok", reply[r], sent[r], ledger[r], TRUE)
  BY <1>2, OneRequest, TrackedRequest DEF TrackFails
<1>4. RequestTypes' /\ OthersFramed(r)
  BY DEF ReqInv, RequestTypes, OthersFramed, TrackFails, Goto, Stage, Results
<1>5. /\ ctx'[r] = ctx[r] /\ pc'[r] = "report" /\ outcome'[r] = "ok"
      /\ reply'[r] = reply[r] /\ sent'[r] = sent[r] /\ ledger'[r] = ledger[r]
      /\ lost'[r] = TRUE
  BY DEF ReqInv, RequestTypes, TrackFails, Goto
<1>6. QED
  BY <1>3, <1>4, <1>5, OnlyThisRequest

(***************************************************************************)
(* The breaker records a success and passes the result on.                 *)
(***************************************************************************)
LEMMA ReportSuccessKeeps ==
    ASSUME ReqInv, NEW r \in Requests, ReportSuccess(r)
    PROVE  ReqInv'
<1>1. RequestInv(ctx[r], "report", "ok", reply[r], sent[r], ledger[r], lost[r])
  BY OneRequest DEF ReportSuccess
<1>2. /\ CallsInv(ctx[r], sent[r]) /\ ContextInv(ctx[r]) /\ ReplyInv(ctx[r], reply[r])
      /\ reply[r] = NoReply /\ Routed(ctx[r])
      /\ ctx[r].upstream = ConvertedRequest(ctx[r])
      /\ Successful(sent[r], ledger[r], lost[r])
      /\ ctx[r].streaming \/ ctx[r].body # "openai" \/ ctx[r].upstream.format = "openai"
  BY <1>1 DEF RequestInv, DownwardInv, UpwardInv, AfterConversion
<1>3. RequestInv(ctx[r], "back", "ok", reply[r], sent[r], ledger[r], lost[r])
  <2>1. DownwardInv(ctx[r], "back", sent[r], ledger[r])
    BY <1>2 DEF DownwardInv, BeforeCall
  <2>2. UpwardInv(ctx[r], "back", "ok", reply[r], sent[r], ledger[r], lost[r])
    BY <1>2 DEF UpwardInv
  <2>3. QED
    BY <1>2, <2>1, <2>2 DEF RequestInv
<1>4. RequestTypes' /\ OthersFramed(r)
  BY DEF ReqInv, RequestTypes, OthersFramed, ReportSuccess, Goto, Stage
<1>5. /\ ctx'[r] = ctx[r] /\ pc'[r] = "back" /\ outcome'[r] = "ok"
      /\ reply'[r] = reply[r] /\ sent'[r] = sent[r] /\ ledger'[r] = ledger[r]
      /\ lost'[r] = lost[r]
  BY DEF ReqInv, RequestTypes, ReportSuccess, Goto
<1>6. QED
  BY <1>3, <1>4, <1>5, OnlyThisRequest

(***************************************************************************)
(* The breaker records a failure and passes the error on.                  *)
(***************************************************************************)
LEMMA ReportFailureKeeps ==
    ASSUME ReqInv, NEW r \in Requests, ReportFailure(r)
    PROVE  ReqInv'
<1>1. /\ RequestInv(ctx[r], "report", outcome[r], reply[r], sent[r], ledger[r], lost[r])
      /\ outcome[r] # "ok"
  BY OneRequest DEF ReportFailure
<1>2. /\ CallsInv(ctx[r], sent[r]) /\ ContextInv(ctx[r]) /\ ReplyInv(ctx[r], reply[r])
      /\ reply[r] = NoReply /\ outcome[r] = "aborted"
      /\ Unsuccessful(ctx[r], sent[r], ledger[r])
  BY <1>1 DEF RequestInv, UpwardInv
<1>3. RequestInv(ctx[r], "execute", outcome[r], reply[r], sent[r], ledger[r], lost[r])
  <2>1. DownwardInv(ctx[r], "execute", sent[r], ledger[r])
    BY DEF DownwardInv, BeforeCall, AfterConversion
  <2>2. UpwardInv(ctx[r], "execute", outcome[r], reply[r], sent[r], ledger[r], lost[r])
    BY <1>2 DEF UpwardInv
  <2>3. QED
    BY <1>2, <2>1, <2>2 DEF RequestInv
<1>4. RequestTypes' /\ OthersFramed(r)
  BY DEF ReqInv, RequestTypes, OthersFramed, ReportFailure, Goto, Stage
<1>5. /\ ctx'[r] = ctx[r] /\ pc'[r] = "execute" /\ outcome'[r] = outcome[r]
      /\ reply'[r] = reply[r] /\ sent'[r] = sent[r] /\ ledger'[r] = ledger[r]
      /\ lost'[r] = lost[r]
  BY DEF ReqInv, RequestTypes, ReportFailure, Goto
<1>6. QED
  BY <1>3, <1>4, <1>5, OnlyThisRequest

(***************************************************************************)
(* No OpenAI body is left behind by the converter unless streamed.         *)
(***************************************************************************)
LEMMA ConvertResponseKeeps ==
    ASSUME ReqInv, NEW r \in Requests, ConvertResponse(r)
    PROVE  ReqInv'
<1> DEFINE c == ctx[r]
           d == Restored(ctx[r])
           result == IF ConversionFails(ctx[r]) THEN "internal" ELSE "ok"
<1>1. RequestInv(c, "back", outcome[r], reply[r], sent[r], ledger[r], lost[r])
  BY OneRequest DEF ConvertResponse
<1>2. /\ CallsInv(c, sent[r]) /\ ContextInv(c) /\ ReplyInv(c, reply[r])
      /\ reply[r] = NoReply /\ Successful(sent[r], ledger[r], lost[r])
      /\ c.streaming \/ c.body # "openai" \/ c.upstream.format = "openai"
      /\ Routed(c) /\ c.upstream = ConvertedRequest(c)
  BY <1>1 DEF RequestInv, DownwardInv, UpwardInv, AfterConversion
<1>3. d \in RequestContext /\ result \in {"ok", "internal"}
  BY OneRequest, RestoredType
<1>4. /\ d.status = c.status /\ d.chunks = c.chunks /\ d.streaming = c.streaming
      /\ d.retries = c.retries /\ d.answered = c.answered
      /\ c.body = "none" => d.body = "none"
  BY OneRequest DEF Restored, RequestContext
<1>5. d.streaming \/ d.body # "openai"
  <2>1. c \in RequestContext
    BY OneRequest
  <2>2. CASE c.streaming \/ c.upstream.format = "anthropic"
    BY <1>2, <2>2 DEF Restored
  <2>3. CASE ~(c.streaming \/ c.upstream.format = "anthropic")
    BY <2>1, <2>3 DEF Restored, RequestContext
  <2>4. QED
    BY <2>2, <2>3
<1>6. /\ ctx' = [ctx EXCEPT ![r] = d] /\ outcome' = [outcome EXCEPT ![r] = result]
  BY DEF ConvertResponse
<1> HIDE DEF c, d, result
<1>7. RequestInv(d, "execute", result, reply[r], sent[r], ledger[r], lost[r])
  <2>1. CallsInv(d, sent[r])
    BY <1>2, <1>4 DEF CallsInv
  <2>2. ContextInv(d)
    <3>1. CASE Blank(c)
      BY <1>2, <1>4, <3>1 DEF ContextInv, Blank
    <3>2. CASE c.answered = c.retries
      BY <1>2, <1>4, <3>2 DEF ContextInv
    <3>3. QED
      BY <1>2, <3>1, <3>2 DEF ContextInv
  <2>3. ReplyInv(d, reply[r])
    BY <1>2 DEF ReplyInv, NoReply
  <2>4. DownwardInv(d, "execute", sent[r], ledger[r])
    BY DEF DownwardInv, BeforeCall, AfterConversion
  <2>5. UpwardInv(d, "execute", result, reply[r], sent[r], ledger[r], lost[r])
    BY <1>2, <1>3, <1>5 DEF UpwardInv
  <2>6. QED
    BY <2>1, <2>2, <2>3, <2>4, <2>5 DEF RequestInv
<1>8. RequestTypes' /\ OthersFramed(r)
  BY <1>3, <1>6 DEF ReqInv, RequestTypes, OthersFramed, ConvertResponse, Goto, Stage, Results
<1>9. /\ ctx'[r] = d /\ pc'[r] = "execute" /\ outcome'[r] = result
      /\ reply'[r] = reply[r] /\ sent'[r] = sent[r] /\ ledger'[r] = ledger[r]
      /\ lost'[r] = lost[r]
  BY <1>6 DEF ReqInv, RequestTypes, ConvertResponse, Goto
<1>10. QED
  BY <1>7, <1>8, <1>9, OnlyThisRequest

(***************************************************************************)
(* A retry starts with a blank context and one call fewer than it may have.*)
(***************************************************************************)
LEMMA RetryKeeps ==
    ASSUME ReqInv, NEW r \in Requests, Retry(r)
    PROVE  ReqInv'
<1> DEFINE c == ctx[r]
           d == NextAttempt(ctx[r])
<1>1. /\ RequestInv(c, "execute", outcome[r], reply[r], sent[r], ledger[r], lost[r])
      /\ outcome[r] = "aborted" /\ c.fallbacks # <<>> /\ c.retries < MaxRetries
      /\ c \in RequestContext
  BY OneRequest DEF Retry, CanRetry
<1>2. /\ CallsInv(c, sent[r]) /\ reply[r] = NoReply
      /\ Unsuccessful(c, sent[r], ledger[r])
  BY <1>1 DEF RequestInv, UpwardInv
<1>3. d \in RequestContext
  BY <1>1, NextAttemptType
<1>4. /\ d.status = "none" /\ d.body = "none" /\ d.chunks = c.chunks
      /\ d.config = NoConfig /\ d.retries = c.retries + 1 /\ c.retries \in Nat
  BY <1>1, ContextFields DEF NextAttempt, Cleared, RequestContext
<1>5. ctx' = [ctx EXCEPT ![r] = d]
  BY DEF Retry
<1> HIDE DEF c, d
<1>6. RequestInv(d, "router", outcome[r], reply[r], sent[r], ledger[r], lost[r])
  <2>1. Blank(d) /\ Unsuccessful(d, sent[r], ledger[r])
    BY <1>2, <1>4 DEF Blank, Unsuccessful
  <2>2. Len(sent[r]) <= d.retries /\ Len(sent[r]) <= d.retries + 1
    <3>1. Len(sent[r]) \in Nat
      BY OneRequest, LenProperties
    <3>2. QED
      BY <1>2, <1>4, <3>1 DEF CallsInv
  <2>3. CallsInv(d, sent[r])
    BY <1>2, <2>2 DEF CallsInv
  <2>4. ContextInv(d) /\ ReplyInv(d, reply[r])
    BY <1>2, <2>1 DEF ContextInv, ReplyInv, Blank, NoReply
  <2>5. DownwardInv(d, "router", sent[r], ledger[r])
    BY <1>4, <2>1, <2>2 DEF DownwardInv, AfterConversion
  <2>6. UpwardInv(d, "router", outcome[r], reply[r], sent[r], ledger[r], lost[r])
    BY <1>2 DEF UpwardInv
  <2>7. QED
    BY <2>3, <2>4, <2>5, <2>6 DEF RequestInv
<1>7. RequestTypes' /\ OthersFramed(r)
  BY <1>3, <1>5 DEF ReqInv, RequestTypes, OthersFramed, Retry, Goto, Stage
<1>8. /\ ctx'[r] = d /\ pc'[r] = "router" /\ outcome'[r] = outcome[r]
      /\ reply'[r] = reply[r] /\ sent'[r] = sent[r] /\ ledger'[r] = ledger[r]
      /\ lost'[r] = lost[r]
  BY <1>5 DEF ReqInv, RequestTypes, Retry, Goto
<1>9. QED
  BY <1>6, <1>7, <1>8, OnlyThisRequest

(***************************************************************************)
(* What is answered was written in this attempt.                           *)
(***************************************************************************)
LEMMA RespondKeeps ==
    ASSUME ReqInv, NEW r \in Requests, Respond(r)
    PROVE  ReqInv'
<1> DEFINE c == ctx[r]
           rep == BuildResponse(ctx[r], outcome[r])
<1>1. /\ RequestInv(c, "execute", outcome[r], reply[r], sent[r], ledger[r], lost[r])
      /\ c \in RequestContext
  BY OneRequest DEF Respond
<1>2. /\ CallsInv(c, sent[r]) /\ ContextInv(c)
      /\ \/ outcome[r] = "aborted" /\ Unsuccessful(c, sent[r], ledger[r])
         \/ /\ outcome[r] \in {"ok", "internal"}
            /\ Successful(sent[r], ledger[r], lost[r])
            /\ c.streaming \/ c.body # "openai"
  BY <1>1 DEF RequestInv, UpwardInv
<1>3. rep \in Reply
  BY <1>1, ContextFields DEF BuildResponse, Reply
<1>4. ReplyInv(c, rep)
  <2>1. rep.status = "ok" /\ ~c.streaming => rep.body # "openai"
    BY <1>2 DEF BuildResponse, ContextInv, Unsuccessful
  <2>2. CASE Blank(c)
    BY <2>1, <2>2 DEF ReplyInv, BuildResponse, Blank
  <2>3. CASE c.answered = c.retries
    BY <2>1, <2>3 DEF ReplyInv
  <2>4. QED
    BY <1>2, <2>2, <2>3 DEF ContextInv
<1>5. reply' = [reply EXCEPT ![r] = rep]
  BY DEF Respond
<1> HIDE DEF c, rep
<1>6. RequestInv(c, "done", outcome[r], rep, sent[r], ledger[r], lost[r])
  <2>1. DownwardInv(c, "done", sent[r], ledger[r])
    BY DEF DownwardInv, BeforeCall, AfterConversion
  <2>2. UpwardInv(c, "done", outcome[r], rep, sent[r], ledger[r], lost[r])
    BY <1>2 DEF UpwardInv
  <2>3. QED
    BY <1>2, <1>4, <2>1, <2>2 DEF RequestInv
<1>7. RequestTypes' /\ OthersFramed(r)
  BY <1>3, <1>5 DEF ReqInv, RequestTypes, OthersFramed, Respond, Goto, Stage
<1>8. /\ ctx'[r] = c /\ pc'[r] = "done" /\ outcome'[r] = outcome[r]
      /\ reply'[r] = rep /\ sent'[r] = sent[r] /\ ledger'[r] = ledger[r]
      /\ lost'[r] = lost[r]
  BY <1>5 DEF ReqInv, RequestTypes, Respond, Goto, c
<1>9. QED
  BY <1>6, <1>7, <1>8, OnlyThisRequest

-----------------------------------------------------------------------------
CatalogOK ==
    /\ providers \in [Providers -> Configs \union {Absent}]
    /\ routes \in [Models -> RouteSeqs]
    /\ stale \in BOOLEAN
    /\ edits \in 0..MaxEdits

(***************************************************************************)
(* The inductive invariant of the gateway.                                 *)
(***************************************************************************)
IInv == CatalogOK /\ CircuitsSound /\ ReqInv

(***************************************************************************)
(* Whatever the order in which the provider cache is iterated, a rebuilt   *)
(* table has a sequence of providers for every model.                      *)
(***************************************************************************)
LEMMA TablesAreRoutes ==
    ASSUME NEW catalog, NEW table \in RoutesFrom(catalog)
    PROVE  table \in [Models -> RouteSeqs]
  BY DEF RoutesFrom

(***************************************************************************)
(* A gateway that has just started satisfies the invariant.                *)
(***************************************************************************)
LEMMA InitIInv == Init => IInv
<1> SUFFICES ASSUME Init PROVE IInv
  OBVIOUS
<1>1. CatalogOK
  <2>1. 0 \in 0..MaxEdits
    BY PipelineAssumption
  <2>2. routes \in [Models -> RouteSeqs]
    BY TablesAreRoutes DEF Init
  <2>3. QED
    BY <2>1, <2>2 DEF Init, CatalogOK
<1>2. CircuitsSound
  BY InitSound DEF Init
<1> DEFINE c == NewContext(NoModel, FALSE)
<1>3. c \in RequestContext
  BY NewContextType
<1>4. RequestTypes
  <2>1. NoReply \in Reply
    BY DEF NoReply, Reply, Bodies, Streams
  <2>2. <<>> \in Seq(Call) /\ <<>> \in Seq(Row)
    OBVIOUS
  <2>3. QED
    BY <1>3, <2>1, <2>2 DEF Init, RequestTypes, Stage, Results
<1>5. RequestInv(c, "new", "ok", NoReply, <<>>, <<>>, FALSE)
  <2>1. CallsInv(c, <<>>) /\ ContextInv(c) /\ ReplyInv(c, NoReply)
    BY DEF CallsInv, ContextInv, ReplyInv, NewContext, Blank, NoReply
  <2>2. DownwardInv(c, "new", <<>>, <<>>)
    BY DEF DownwardInv, BeforeCall, AfterConversion
  <2>3. UpwardInv(c, "new", "ok", NoReply, <<>>, <<>>, FALSE)
    BY DEF UpwardInv
  <2>4. QED
    BY <2>1, <2>2, <2>3 DEF RequestInv
<1>6. RequestsInv
  <2>1. ASSUME NEW r \in Requests
        PROVE  RequestInv(ctx[r], pc[r], outcome[r], reply[r], sent[r], ledger[r], lost[r])
    <3>1. /\ ctx[r] = c /\ pc[r] = "new" /\ outcome[r] = "ok" /\ reply[r] = NoReply
          /\ sent[r] = <<>> /\ ledger[r] = <<>> /\ lost[r] = FALSE
      BY DEF Init
    <3>2. QED
      BY <1>5, <3>1
  <2>2. QED
    BY <2>1 DEF RequestsInv
<1>7. QED
  BY <1>1, <1>2, <1>4, <1>6 DEF IInv, ReqInv

(***************************************************************************)
(* The requests: every step of one of them keeps ReqInv, and the steps of  *)
(* the administrator and of the clock do not touch them.                   *)
(***************************************************************************)
LEMMA RouterKeeps ==
    ASSUME IInv, NEW r \in Requests, Router(r)
    PROVE  ReqInv'
<1>1. ReqInv /\ routes \in [Models -> RouteSeqs]
      /\ providers \in [Providers -> Configs \union {Absent}]
  BY DEF IInv, CatalogOK
<1>2. CASE RejectWithoutModel(r)
  <2>1. pc[r] \in BeforeCall
    BY <1>2 DEF RejectWithoutModel, BeforeCall
  <2>2. QED
    BY <1>1, <1>2, <2>1, AbortKeeps DEF RejectWithoutModel
<1>3. CASE RejectWithoutRoute(r)
  <2>1. pc[r] \in BeforeCall
    BY <1>3 DEF RejectWithoutRoute, BeforeCall
  <2>2. QED
    BY <1>1, <1>3, <2>1, AbortKeeps DEF RejectWithoutRoute
<1>4. CASE RejectMissingProvider(r)
  <2>1. pc[r] \in BeforeCall
    BY <1>4 DEF RejectMissingProvider, BeforeCall
  <2>2. QED
    BY <1>1, <1>4, <2>1, AbortKeeps DEF RejectMissingProvider
<1>5. CASE FindExact(r)
  BY <1>1, <1>5, FindExactKeeps
<1>6. CASE FindStripped(r)
  BY <1>1, <1>6, FindStrippedKeeps
<1>7. CASE LoadProvider(r)
  BY <1>1, <1>7, LoadProviderKeeps
<1>8. QED
  BY <1>2, <1>3, <1>4, <1>5, <1>6, <1>7 DEF Router

(***************************************************************************)
(* All the steps the executor takes.                                       *)
(***************************************************************************)
LEMMA GatewayKeeps ==
    ASSUME IInv, NEW r \in Requests, Gateway(r)
    PROVE  ReqInv'
<1>1. ReqInv
  BY DEF IInv
<1>2. CASE Router(r)
  BY <1>2, RouterKeeps
<1>3. CASE ConvertRequest(r)
  BY <1>1, <1>3, ConvertRequestKeeps
<1>4. CASE PassBreaker(r)
  BY <1>1, <1>4, PassBreakerKeeps
<1>5. CASE RefuseByBreaker(r)
  <2>1. pc[r] \in BeforeCall
    BY <1>5 DEF RefuseByBreaker, BeforeCall
  <2>2. QED
    BY <1>1, <1>5, <2>1, AbortKeeps DEF RefuseByBreaker
<1>6. CASE Forward(r)
  BY <1>1, <1>6, ForwardKeeps
<1>7. CASE Upward(r)
  BY <1>1, <1>7, TrackKeeps, TrackFailsKeeps, ReportSuccessKeeps, ReportFailureKeeps,
     ConvertResponseKeeps, RetryKeeps, RespondKeeps DEF Upward
<1>8. QED
  BY <1>2, <1>3, <1>4, <1>5, <1>6, <1>7 DEF Gateway

(***************************************************************************)
(* All the steps of the upstream.                                          *)
(***************************************************************************)
LEMMA UpstreamKeeps ==
    ASSUME IInv, NEW r \in Requests, UpstreamStep(r)
    PROVE  ReqInv'
<1>1. ReqInv
  BY DEF IInv
<1>2. QED
  BY <1>1, UpstreamAnswersKeeps, UpstreamRefusesKeeps, ConnectionFailsKeeps
     DEF UpstreamStep

(***************************************************************************)
(* Steps that change no request keep the invariant of each.                *)
(***************************************************************************)
LEMMA IdleRequestsKeep ==
    ASSUME ReqInv, UNCHANGED requestVars PROVE ReqInv'
  BY DEF ReqInv, RequestTypes, RequestsInv, requestVars

(***************************************************************************)
(* Which steps change the circuits.                                        *)
(***************************************************************************)
LEMMA StepsOfCircuits ==
    ASSUME [Next]_vars
    PROVE  \/ UNCHANGED circuits
           \/ Elapse
           \/ \E r \in Requests : ReportSuccess(r) \/ ReportFailure(r)
<1>1. ASSUME NEW r \in Requests, Gateway(r)
      PROVE  UNCHANGED circuits \/ ReportSuccess(r) \/ ReportFailure(r)
  BY <1>1 DEF Gateway, Router, Upward, RejectWithoutModel, FindExact, FindStripped,
     RejectWithoutRoute, LoadProvider, RejectMissingProvider, ConvertRequest,
     PassBreaker, RefuseByBreaker, Forward, Track, TrackFails, ConvertResponse,
     Retry, Respond
<1>2. Next => \/ UNCHANGED circuits \/ Elapse
              \/ \E r \in Requests : ReportSuccess(r) \/ ReportFailure(r)
  BY <1>1 DEF Next, Receive, UpstreamStep, UpstreamAnswers, UpstreamRefuses,
     ConnectionFails, Disconnect, Administrator, SaveProvider, RemoveProvider, Rebuild
<1>3. QED
  BY <1>2 DEF vars

(***************************************************************************)
(* Only CircuitBreaker::handle and the clock touch the circuits.           *)
(***************************************************************************)
LEMMA NextKeepsCircuits ==
    ASSUME IInv, [Next]_vars PROVE CircuitsSound'
<1>1. CircuitsSound
  BY DEF IInv
<1>2. CASE UNCHANGED circuits
  BY <1>1, <1>2 DEF CircuitsSound
<1>3. ASSUME NEW r \in Requests, ReportSuccess(r) \/ ReportFailure(r) PROVE CircuitsSound'
  <2>1. RequestInv(ctx[r], "report", outcome[r], reply[r], sent[r], ledger[r], lost[r])
    BY <1>3, OneRequest DEF IInv, ReportSuccess, ReportFailure
  <2>2. ctx[r].config.name \in Keys
    BY <2>1, PipelineAssumption DEF RequestInv, DownwardInv, AfterConversion, Routed
  <2>3. QED
    BY <1>1, <1>3, <2>2, SuccessKeepsSound, FailureKeepsSound
       DEF ReportSuccess, ReportFailure
<1>4. CASE Elapse
  BY <1>1, <1>4, ElapseKeepsSound DEF Elapse
<1>5. QED
  BY <1>2, <1>3, <1>4, StepsOfCircuits

(***************************************************************************)
(* Only the administrator touches the caches.                              *)
(***************************************************************************)
LEMMA NextKeepsCatalog ==
    ASSUME IInv, [Next]_vars PROVE CatalogOK'
<1>1. CatalogOK
  BY DEF IInv
<1>2. CASE UNCHANGED catalogVars
  BY <1>1, <1>2 DEF CatalogOK, catalogVars
<1>3. CASE Administrator
  <2>1. ASSUME NEW p \in Providers, NEW config \in Configs, SaveProvider(p, config)
        PROVE  CatalogOK'
    BY <1>1, <2>1, PipelineAssumption DEF CatalogOK, SaveProvider
  <2>2. ASSUME NEW p \in Providers, RemoveProvider(p) PROVE CatalogOK'
    BY <1>1, <2>2, PipelineAssumption DEF CatalogOK, RemoveProvider
  <2>3. CASE Rebuild
    BY <1>1, <2>3, TablesAreRoutes DEF CatalogOK, Rebuild
  <2>4. QED
    BY <1>3, <2>1, <2>2, <2>3 DEF Administrator
<1>4. ASSUME NEW r \in Requests, Gateway(r) PROVE UNCHANGED catalogVars
  BY <1>4 DEF Gateway, Router, Upward, RejectWithoutModel, FindExact, FindStripped,
     RejectWithoutRoute, LoadProvider, RejectMissingProvider, ConvertRequest,
     PassBreaker, RefuseByBreaker, Forward, Track, TrackFails, ReportSuccess,
     ReportFailure, ConvertResponse, Retry, Respond
<1>5. Next => UNCHANGED catalogVars \/ Administrator
  BY <1>4 DEF Next, Receive, UpstreamStep, UpstreamAnswers, UpstreamRefuses,
     ConnectionFails, Disconnect, Elapse
<1>6. QED
  BY <1>2, <1>3, <1>5 DEF vars

(***************************************************************************)
(* Every step keeps the invariant.                                         *)
(***************************************************************************)
LEMMA NextIInv == IInv /\ [Next]_vars => IInv'
<1> SUFFICES ASSUME IInv, [Next]_vars PROVE IInv'
  OBVIOUS
<1>1. ReqInv
  BY DEF IInv
<1>2. ReqInv'
  <2>1. CASE UNCHANGED requestVars
    BY <1>1, <2>1, IdleRequestsKeep
  <2>2. ASSUME NEW r \in Requests,
               \/ \E m \in Models \union {NoModel}, s \in BOOLEAN : Receive(r, m, s)
               \/ Disconnect(r)
        PROVE  ReqInv'
    BY <1>1, <2>2, ReceiveKeeps, DisconnectKeeps
  <2>3. Administrator \/ Elapse => UNCHANGED requestVars
    BY DEF Administrator, SaveProvider, RemoveProvider, Rebuild, Elapse
  <2>4. CASE Next
    BY <2>1, <2>2, <2>3, <2>4, GatewayKeeps, UpstreamKeeps DEF Next
  <2>5. QED
    BY <2>1, <2>4 DEF vars
<1>3. QED
  BY <1>2, NextKeepsCircuits, NextKeepsCatalog DEF IInv

(***************************************************************************)
(* The invariant holds throughout.                                         *)
(***************************************************************************)
THEOREM GatewayInvariant == Spec => []IInv
<1>1. Init => IInv
  BY InitIInv
<1>2. IInv /\ [Next]_vars => IInv'
  BY NextIInv
<1>3. QED
  BY <1>1, <1>2, PTL DEF Spec

-----------------------------------------------------------------------------
(***************************************************************************)
(* Every variable keeps its type: no step of a request, the administrator  *)
(* or the clock leaves a malformed context, circuit, route table or row.   *)
(***************************************************************************)
THEOREM TypeCorrect == Spec => []TypeOK
<1>1. IInv => TypeOK
  BY DEF IInv, CatalogOK, CircuitsSound, ReqInv, RequestTypes, Results, TypeOK
<1>2. QED
  BY <1>1, GatewayInvariant, PTL

(***************************************************************************)
(* A call never mixes two providers (middleware.rs 79-81, router.rs 43-61).*)
(***************************************************************************)
THEOREM CallsAlwaysMatchTarget == Spec => []CallsMatchTarget
<1>1. IInv => CallsMatchTarget
  BY OneRequest DEF IInv, CallsMatchTarget, RequestInv, CallsInv
<1>2. QED
  BY <1>1, GatewayInvariant, PTL

(***************************************************************************)
(* No upstream is called after one has answered (middleware.rs 75-91).     *)
(***************************************************************************)
THEOREM AnswerEndsTheCalls == Spec => []NoCallAfterAnswer
<1>1. IInv => NoCallAfterAnswer
  BY OneRequest DEF IInv, NoCallAfterAnswer, RequestInv, CallsInv
<1>2. QED
  BY <1>1, GatewayInvariant, PTL

(***************************************************************************)
(* A request costs at most MaxRetries + 1 calls (middleware.rs 76-78).     *)
(***************************************************************************)
THEOREM CallsAlwaysBounded == Spec => []CallsBounded
<1>1. IInv => CallsBounded
  <2> SUFFICES ASSUME IInv, NEW r \in Requests PROVE Len(sent[r]) <= MaxRetries + 1
    BY DEF CallsBounded
  <2>1. ctx[r] \in RequestContext /\ sent[r] \in Seq(Call)
        /\ Len(sent[r]) <= ctx[r].retries + 1
    BY OneRequest DEF IInv, RequestInv, CallsInv
  <2>2. ctx[r].retries \in 0..MaxRetries /\ Len(sent[r]) \in Nat
    BY <2>1, ContextFields, LenProperties
  <2>3. QED
    BY <2>1, <2>2, PipelineAssumption
<1>2. QED
  BY <1>1, GatewayInvariant, PTL

(***************************************************************************)
(* A client is never answered with what an earlier attempt received        *)
(* (middleware.rs 81-87, proxy_server.rs 52-74).                           *)
(***************************************************************************)
THEOREM ReplyAlwaysFromLastAttempt == Spec => []ReplyFromLastAttempt
<1>1. IInv => ReplyFromLastAttempt
  BY OneRequest DEF IInv, ReplyFromLastAttempt, RequestInv, ReplyInv
<1>2. QED
  BY <1>1, GatewayInvariant, PTL

(***************************************************************************)
(* A complete answer is in the client's protocol (converter.rs 55-66).     *)
(***************************************************************************)
THEOREM AnswersAlwaysInClientFormat == Spec => []AnswersInClientFormat
<1>1. IInv => AnswersInClientFormat
  BY OneRequest DEF IInv, AnswersInClientFormat, RequestInv, ReplyInv
<1>2. QED
  BY <1>1, GatewayInvariant, PTL

(***************************************************************************)
(* The rows of a request, from its stage.                                  *)
(***************************************************************************)
LEMMA RowsOfRequest ==
    ASSUME ReqInv, NEW r \in Requests
    PROVE  \/ ledger[r] = <<>> /\ pc[r] # "done"
           \/ Unsuccessful(ctx[r], sent[r], ledger[r])
           \/ Successful(sent[r], ledger[r], lost[r])
<1>1. /\ RequestInv(ctx[r], pc[r], outcome[r], reply[r], sent[r], ledger[r], lost[r])
      /\ pc[r] \in Stage
  BY OneRequest
<1>2. CASE pc[r] \in BeforeCall
  BY <1>1, <1>2 DEF RequestInv, DownwardInv
<1>3. CASE pc[r] \in {"new", "upstream", "tracker", "gone"}
  BY <1>1, <1>3 DEF RequestInv, DownwardInv, UpwardInv
<1>4. CASE pc[r] \in {"report", "back", "execute", "done"}
  BY <1>1, <1>4 DEF RequestInv, UpwardInv
<1>5. QED
  BY <1>1, <1>2, <1>3, <1>4 DEF Stage, BeforeCall

(***************************************************************************)
(* What was answered is accounted for, once and in the name of who         *)
(* answered, as far as the database takes it (usage_tracker.rs 28-57).     *)
(***************************************************************************)
THEOREM AnswersAlwaysAccounted == Spec => []AnswersAccounted
<1>1. IInv => AnswersAccounted
  <2> SUFFICES ASSUME IInv, NEW r \in Requests
               PROVE  /\ \A i \in DOMAIN ledger[r] : ledger[r][i].usage # "none" =>
                             i = Len(ledger[r]) /\ WasAnswered(r) /\ LastRowNamesAnswerer(r)
                      /\ pc[r] = "done" /\ WasAnswered(r) =>
                             LastRowNamesAnswerer(r) \/ lost[r]
    BY DEF AnswersAccounted
  <2>1. sent[r] \in Seq(Call) /\ ledger[r] \in Seq(Row)
    BY OneRequest DEF IInv
  <2>2. ASSUME ledger[r] = <<>>
        PROVE  DOMAIN ledger[r] = {}
    BY <2>2
  <2>3. CASE ledger[r] = <<>> /\ pc[r] # "done"
    BY <2>2, <2>3
  <2>4. CASE Unsuccessful(ctx[r], sent[r], ledger[r])
    <3>1. ledger[r] = <<>> /\ \A i \in DOMAIN sent[r] : sent[r][i].result = "failed"
      BY <2>4 DEF Unsuccessful
    <3>2. sent[r] # <<>> => Len(sent[r]) \in DOMAIN sent[r]
      BY <2>1, LenProperties, EmptySeq
    <3>3. ~WasAnswered(r)
      BY <3>1, <3>2 DEF WasAnswered, LastCall
    <3>4. QED
      BY <2>2, <3>1, <3>3
  <2>5. CASE Successful(sent[r], ledger[r], lost[r])
    <3>1. WasAnswered(r)
      BY <2>5 DEF Successful, WasAnswered, LastCall
    <3>2. CASE ledger[r] = <<>> /\ lost[r]
      BY <2>2, <3>2
    <3>3. CASE Len(ledger[r]) = 1 /\ ledger[r][1].provider = LastCall(r).to
      <4>1. DOMAIN ledger[r] = 1..1 /\ ledger[r] # <<>>
        BY <2>1, <3>3, LenProperties, EmptySeq
      <4>2. LastRowNamesAnswerer(r)
        BY <3>3, <4>1 DEF LastRowNamesAnswerer
      <4>3. QED
        BY <3>1, <3>3, <4>1, <4>2
    <3>4. QED
      BY <2>5, <3>2, <3>3 DEF Successful, LastCall
  <2>6. QED
    BY <2>3, <2>4, <2>5, RowsOfRequest DEF IInv
<1>2. QED
  BY <1>1, GatewayInvariant, PTL

-----------------------------------------------------------------------------
(***************************************************************************)
(* A request that reports is about the provider it called last, and says   *)
(* how that call ended.                                                    *)
(***************************************************************************)
LEMMA ReportsAreTrue ==
    ASSUME ReqInv, NEW r \in Requests, pc[r] = "report"
    PROVE  /\ ctx[r].config.name \in Providers
           /\ sent[r] # <<>> /\ LastCall(r).to = ctx[r].config.name
           /\ LastCall(r).result = IF outcome[r] = "ok" THEN "ok" ELSE "failed"
<1>1. RequestInv(ctx[r], "report", outcome[r], reply[r], sent[r], ledger[r], lost[r])
      /\ sent[r] \in Seq(Call)
  BY OneRequest
<1>2. /\ ctx[r].config.name \in Providers
      /\ sent[r] # <<>> /\ LastCall(r).to = ctx[r].config.name
  BY <1>1 DEF RequestInv, DownwardInv, UpwardInv, AfterConversion, Routed, LastCall
<1>3. CASE outcome[r] = "ok" /\ Successful(sent[r], ledger[r], lost[r])
  BY <1>2, <1>3 DEF Successful, LastCall
<1>4. CASE outcome[r] = "aborted" /\ Unsuccessful(ctx[r], sent[r], ledger[r])
  <2>1. Len(sent[r]) \in DOMAIN sent[r]
    BY <1>1, <1>2, LenProperties, EmptySeq
  <2>2. QED
    BY <1>2, <1>4, <2>1 DEF Unsuccessful, LastCall
<1>5. QED
  BY <1>1, <1>3, <1>4 DEF RequestInv, UpwardInv

(***************************************************************************)
(* Circuits move on the outcomes of calls only (circuit_breaker.rs 83-92). *)
(***************************************************************************)
THEOREM CircuitsAlwaysFollowCalls == Spec => CircuitsFollowCalls
<1>1. ASSUME IInv, [Next]_vars, NEW p \in Providers
      PROVE  MovedByReports(p)
  <2>1. /\ circuits \in [Providers -> Circuit] /\ CircuitSound(circuits[p])
        /\ circuits[p].failures \in 0..MaxFailures
    BY <1>1, PipelineAssumption, CircuitFields DEF IInv, CircuitsSound
  <2>2. CASE UNCHANGED circuits
    BY <2>1, <2>2 DEF MovedByReports, Rearmed
  <2>3. CASE Elapse
    <3>1. circuits'[p] = Aged(circuits[p])
      BY <2>3, PipelineAssumption DEF Elapse, ElapseCircuits
    <3>2. circuits'[p].failures = circuits[p].failures
      BY <2>1, <3>1, AgingKeepsCircuit
    <3>3. ~Rearmed(p)
      <4>1. circuits[p] \in Circuit /\ circuits[p].since \in -1..Cooldown
        BY <2>1, PipelineAssumption, CircuitFields
      <4>2. QED
        BY <3>1, <4>1 DEF Rearmed, Aged, Circuit, NeverOpened
    <3>4. QED
      BY <2>1, <3>2, <3>3 DEF MovedByReports
  <2>4. ASSUME NEW r \in Requests, ReportSuccess(r)
        PROVE  MovedByReports(p)
    <3>1. pc[r] = "report" /\ pc'[r] = "back" /\ outcome[r] = "ok"
      BY <1>1, <2>4 DEF ReportSuccess, Goto, IInv, ReqInv, RequestTypes
    <3>2. CASE p = ctx[r].config.name
      <4>1. Reports(r, p, "ok")
        BY <1>1, <3>1, <3>2, ReportsAreTrue DEF Reports, IInv
      <4>2. circuits'[p].failures = 0 /\ circuits'[p].since = -1
        BY <2>1, <2>4, <3>2 DEF ReportSuccess, RecordSuccess, NoCircuit, NeverOpened
      <4>3. QED
        BY <2>1, <4>1, <4>2 DEF MovedByReports, Rearmed
    <3>3. CASE p # ctx[r].config.name
      <4>1. circuits'[p] = circuits[p]
        BY <2>1, <2>4, <3>3 DEF ReportSuccess, RecordSuccess
      <4>2. QED
        BY <2>1, <4>1 DEF MovedByReports, Rearmed
    <3>4. QED
      BY <3>2, <3>3
  <2>5. ASSUME NEW r \in Requests, ReportFailure(r)
        PROVE  MovedByReports(p)
    <3>1. pc[r] = "report" /\ pc'[r] = "execute" /\ outcome[r] # "ok"
      BY <1>1, <2>5 DEF ReportFailure, Goto, IInv, ReqInv, RequestTypes
    <3>2. CASE p = ctx[r].config.name
      <4>1. Reports(r, p, "failed")
        BY <1>1, <3>1, <3>2, ReportsAreTrue DEF Reports, IInv
      <4>2. circuits'[p].failures = OneMoreFailure(circuits[p].failures)
        BY <2>1, <2>5, <3>2 DEF ReportFailure, RecordFailure, AfterFailure
      <4>3. ~(circuits'[p].failures < circuits[p].failures)
        BY <2>1, <4>2, BreakerAssumption DEF OneMoreFailure
      <4>4. QED
        BY <4>1, <4>3 DEF MovedByReports
    <3>3. CASE p # ctx[r].config.name
      <4>1. circuits'[p] = circuits[p]
        BY <2>1, <2>5, <3>3 DEF ReportFailure, RecordFailure
      <4>2. QED
        BY <2>1, <4>1 DEF MovedByReports, Rearmed
    <3>4. QED
      BY <3>2, <3>3
  <2>6. QED
    BY <1>1, <2>2, <2>3, <2>4, <2>5, StepsOfCircuits
<1>2. IInv /\ [Next]_vars => [CircuitsMoveByReports]_vars
  BY <1>1 DEF CircuitsMoveByReports
<1>3. QED
  BY <1>2, GatewayInvariant, PTL DEF Spec, CircuitsFollowCalls

-----------------------------------------------------------------------------
(***************************************************************************)
(* Who is past the breaker's gate, in the eyes of its contract.            *)
(***************************************************************************)
PastGate == {"forwarder", "upstream", "tracker", "report"}

(***************************************************************************)
(* A step that does not cross the gate, either way, changes nobody's place.*)
(***************************************************************************)
LEMMA SameInside ==
    ASSUME NEW r \in Requests,
           \A q \in Requests \ {r} : pc'[q] = pc[q] /\ ctx'[q] = ctx[q],
           \/ pc[r] \notin PastGate /\ pc'[r] \notin PastGate
           \/ /\ pc[r] \in PastGate /\ pc'[r] \in PastGate
              /\ ctx'[r].config = ctx[r].config
    PROVE  Inside' = Inside
  BY DEF Inside, PastGate

(***************************************************************************)
(* The steps of a request that do not cross the gate.                      *)
(***************************************************************************)
LEMMA OutsideSteps ==
    ASSUME ReqInv, NEW r \in Requests,
           \/ \E m \in Models \union {NoModel}, s \in BOOLEAN : Receive(r, m, s)
           \/ Router(r) \/ ConvertRequest(r) \/ RefuseByBreaker(r)
           \/ ConvertResponse(r) \/ Retry(r) \/ Respond(r)
    PROVE  Inside' = Inside
<1>1. ctx \in [Requests -> RequestContext] /\ pc \in [Requests -> Stage]
  BY DEF ReqInv, RequestTypes
<1>2. CASE \E m \in Models \union {NoModel}, s \in BOOLEAN : Receive(r, m, s)
  BY <1>1, <1>2, SameInside DEF Receive, Goto, PastGate
<1>3. CASE RejectWithoutModel(r) \/ RejectWithoutRoute(r) \/ RejectMissingProvider(r)
  BY <1>1, <1>3, SameInside
     DEF RejectWithoutModel, RejectWithoutRoute, RejectMissingProvider, Fail, Goto, PastGate
<1>4. CASE FindExact(r)
  BY <1>1, <1>4, SameInside DEF FindExact, Goto, PastGate
<1>5. CASE FindStripped(r) \/ LoadProvider(r)
  BY <1>1, <1>5, SameInside DEF FindStripped, LoadProvider, Goto, PastGate
<1>6. CASE ConvertRequest(r)
  BY <1>1, <1>6, SameInside DEF ConvertRequest, Goto, PastGate
<1>7. CASE RefuseByBreaker(r)
  BY <1>1, <1>7, SameInside DEF RefuseByBreaker, Fail, Goto, PastGate
<1>8. CASE ConvertResponse(r)
  BY <1>1, <1>8, SameInside DEF ConvertResponse, Goto, PastGate
<1>9. CASE Retry(r)
  BY <1>1, <1>9, SameInside DEF Retry, Goto, PastGate
<1>10. CASE Respond(r)
  BY <1>1, <1>10, SameInside DEF Respond, Goto, PastGate
<1>11. QED
  BY <1>2, <1>3, <1>4, <1>5, <1>6, <1>7, <1>8, <1>9, <1>10 DEF Router

(***************************************************************************)
(* The steps of a request that is past the gate and stays there.           *)
(***************************************************************************)
LEMMA InsideSteps ==
    ASSUME ReqInv, NEW r \in Requests,
           Forward(r) \/ UpstreamStep(r) \/ Track(r) \/ TrackFails(r)
    PROVE  Inside' = Inside
<1>1. /\ ctx \in [Requests -> RequestContext] /\ pc \in [Requests -> Stage]
      /\ ctx[r] \in RequestContext
  BY DEF ReqInv, RequestTypes
<1>2. CASE Forward(r)
  BY <1>1, <1>2, SameInside DEF Forward, Goto, PastGate
<1>3. ASSUME NEW quality, UpstreamAnswers(r, quality) PROVE Inside' = Inside
  <2>1. Accepted(ctx[r], quality).config = ctx[r].config
    BY <1>1 DEF Accepted, RequestContext
  <2>2. ctx'[r].config = ctx[r].config
    BY <1>1, <1>3, <2>1 DEF UpstreamAnswers
  <2>3. QED
    BY <1>1, <1>3, <2>2, SameInside DEF UpstreamAnswers, Goto, PastGate
<1>4. CASE UpstreamRefuses(r)
  <2>1. Refused(ctx[r]).config = ctx[r].config
    BY <1>1 DEF Refused, RequestContext
  <2>2. ctx'[r].config = ctx[r].config
    BY <1>1, <1>4, <2>1 DEF UpstreamRefuses
  <2>3. QED
    BY <1>1, <1>4, <2>2, SameInside DEF UpstreamRefuses, Fail, Goto, PastGate
<1>5. CASE ConnectionFails(r)
  BY <1>1, <1>5, SameInside DEF ConnectionFails, Fail, Goto, PastGate
<1>6. CASE Track(r) \/ TrackFails(r)
  BY <1>1, <1>6, SameInside DEF Track, TrackFails, Goto, PastGate
<1>7. QED
  BY <1>2, <1>3, <1>4, <1>5, <1>6 DEF UpstreamStep

(***************************************************************************)
(* The gateway starts where the contract starts.                           *)
(***************************************************************************)
LEMMA InitMaps == Init => Contract!Init
<1> SUFFICES ASSUME Init PROVE Contract!Init
  OBVIOUS
<1>1. Gate = [k \in Keys |-> "closed"] /\ Streak = [k \in Keys |-> 0]
  BY InitMapsCircuits DEF Init
<1>2. Inside = [r \in Requests |-> "nowhere"]
  BY DEF Init, Inside
<1>3. QED
  BY <1>1, <1>2 DEF Contract!Init, Contract!Nowhere

(***************************************************************************)
(* Every step of the gateway is a step of the contract, or none.           *)
(***************************************************************************)
LEMMA NextMaps == IInv /\ [Next]_vars => [Contract!Next]_(Contract!contractVars)
<1> SUFFICES ASSUME IInv, [Next]_vars
             PROVE  Contract!Next \/ UNCHANGED Contract!contractVars
  OBVIOUS
<1>types. /\ ctx \in [Requests -> RequestContext] /\ pc \in [Requests -> Stage]
          /\ ReqInv /\ CircuitsSound /\ Keys = Providers
  BY PipelineAssumption DEF IInv, ReqInv, RequestTypes
<1>same. ASSUME UNCHANGED circuits, Inside' = Inside
         PROVE  UNCHANGED Contract!contractVars
  BY <1>same, SameCircuits DEF Contract!contractVars
<1>1. ASSUME NEW r \in Requests, PassBreaker(r) PROVE Contract!Next
  <2>1. ctx[r].config.name \in Keys
    <3>1. RequestInv(ctx[r], "breaker", outcome[r], reply[r], sent[r], ledger[r], lost[r])
      BY <1>1, <1>types, OneRequest DEF PassBreaker
    <3>2. QED
      BY <3>1, <1>types DEF RequestInv, DownwardInv, AfterConversion, Routed
  <2>2. Inside[r] = "nowhere" /\ Inside' = [Inside EXCEPT ![r] = ctx[r].config.name]
    BY <1>1, <1>types DEF PassBreaker, Goto, Inside
  <2>3. Gate[ctx[r].config.name] = "closed"
    BY <1>1, <2>1 DEF PassBreaker, Gate
  <2>4. Gate' = Gate /\ Streak' = Streak
    BY <1>1, SameCircuits DEF PassBreaker
  <2>5. Contract!Enter(r, ctx[r].config.name)
    BY <2>2, <2>3, <2>4 DEF Contract!Enter, Contract!Nowhere
  <2>6. QED
    BY <2>1, <2>5 DEF Contract!Next
<1>2. ASSUME NEW r \in Requests, ReportSuccess(r) PROVE Contract!Next
  <2>1. ctx[r].config.name \in Keys
    BY <1>2, <1>types, ReportsAreTrue DEF ReportSuccess
  <2>2. /\ Inside[r] = ctx[r].config.name
        /\ Inside' = [Inside EXCEPT ![r] = "nowhere"]
    BY <1>2, <1>types DEF ReportSuccess, Goto, Inside
  <2>3. /\ Streak' = [Streak EXCEPT ![ctx[r].config.name] = 0]
        /\ Gate' = [Gate EXCEPT ![ctx[r].config.name] = "closed"]
    BY <1>2, <1>types, <2>1, SuccessMapsToSucceed DEF ReportSuccess
  <2>4. Contract!Succeed(r)
    BY <2>1, <2>2, <2>3 DEF Contract!Succeed, Contract!Nowhere
  <2>5. QED
    BY <2>4 DEF Contract!Next
<1>3. ASSUME NEW r \in Requests, ReportFailure(r) PROVE Contract!Next
  <2>1. ctx[r].config.name \in Keys
    BY <1>3, <1>types, ReportsAreTrue DEF ReportFailure
  <2>2. /\ Inside[r] = ctx[r].config.name
        /\ Inside' = [Inside EXCEPT ![r] = "nowhere"]
    BY <1>3, <1>types DEF ReportFailure, Goto, Inside
  <2>3. /\ Streak' = [Streak EXCEPT ![ctx[r].config.name] = NextStreak(@)]
        /\ Gate' = [Gate EXCEPT ![ctx[r].config.name] =
             IF NextStreak(Streak[ctx[r].config.name]) = Threshold THEN "open" ELSE @]
    BY <1>3, <1>types, <2>1, FailureMapsToFail DEF ReportFailure
  <2>4. Contract!Fail(r)
    BY <2>1, <2>2, <2>3 DEF Contract!Fail, Contract!Nowhere, Contract!NextStreak, NextStreak
  <2>5. QED
    BY <2>4 DEF Contract!Next
<1>4. ASSUME NEW r \in Requests, Disconnect(r)
      PROVE  Contract!Next \/ UNCHANGED Contract!contractVars
  <2>1. Inside' = [Inside EXCEPT ![r] = "nowhere"]
    BY <1>4, <1>types DEF Disconnect, Goto, Inside
  <2>2. Gate' = Gate /\ Streak' = Streak
    BY <1>4, SameCircuits DEF Disconnect
  <2>3. CASE Inside[r] = "nowhere"
    <3>1. Inside' = Inside
      BY <2>1, <2>3 DEF Inside
    <3>2. QED
      BY <1>4, <1>same, <3>1 DEF Disconnect
  <2>4. CASE Inside[r] # "nowhere"
    <3>1. Contract!Vanish(r)
      BY <2>1, <2>2, <2>4 DEF Contract!Vanish, Contract!Nowhere
    <3>2. QED
      BY <3>1 DEF Contract!Next
  <2>5. QED
    BY <2>3, <2>4
<1>5. ASSUME Elapse PROVE Contract!Next
  <2>1. Inside' = Inside
    BY <1>5 DEF Elapse, requestVars, Inside
  <2>2. /\ Streak' = Streak
        /\ \E lapsed \in SUBSET Keys :
             Gate' = [k \in Keys |-> IF k \in lapsed THEN "closed" ELSE Gate[k]]
    BY <1>5, <1>types, ElapseMapsToLapse DEF Elapse
  <2>3. Contract!Lapse
    BY <2>1, <2>2 DEF Contract!Lapse
  <2>4. QED
    BY <2>3 DEF Contract!Next
<1>6. ASSUME NEW r \in Requests,
             \/ \E m \in Models \union {NoModel}, s \in BOOLEAN : Receive(r, m, s)
             \/ Gateway(r) \/ UpstreamStep(r)
      PROVE  Contract!Next \/ UNCHANGED Contract!contractVars
  <2>1. CASE PassBreaker(r) \/ ReportSuccess(r) \/ ReportFailure(r)
    BY <2>1, <1>1, <1>2, <1>3
  <2>2. CASE \/ \E m \in Models \union {NoModel}, s \in BOOLEAN : Receive(r, m, s)
             \/ Router(r) \/ ConvertRequest(r) \/ RefuseByBreaker(r)
             \/ ConvertResponse(r) \/ Retry(r) \/ Respond(r)
    <3>1. Inside' = Inside
      BY <2>2, <1>types, OutsideSteps
    <3>2. UNCHANGED circuits
      BY <2>2 DEF Receive, Router, RejectWithoutModel, FindExact, FindStripped,
         RejectWithoutRoute, LoadProvider, RejectMissingProvider, ConvertRequest,
         RefuseByBreaker, ConvertResponse, Retry, Respond
    <3>3. QED
      BY <3>1, <3>2, <1>same
  <2>3. CASE Forward(r) \/ UpstreamStep(r) \/ Track(r) \/ TrackFails(r)
    <3>1. Inside' = Inside
      BY <2>3, <1>types, InsideSteps
    <3>2. UNCHANGED circuits
      BY <2>3 DEF Forward, UpstreamStep, UpstreamAnswers, UpstreamRefuses,
         ConnectionFails, Track, TrackFails
    <3>3. QED
      BY <3>1, <3>2, <1>same
  <2>4. QED
    BY <1>6, <2>1, <2>2, <2>3 DEF Gateway, Upward
<1>7. ASSUME Administrator \/ UNCHANGED vars PROVE UNCHANGED Contract!contractVars
  <2>1. UNCHANGED circuits /\ UNCHANGED requestVars
    BY <1>7 DEF vars, Administrator, SaveProvider, RemoveProvider, Rebuild
  <2>2. Inside' = Inside
    BY <2>1 DEF requestVars, Inside
  <2>3. QED
    BY <1>same, <2>1, <2>2
<1>8. QED
  <2>1. CASE Next
    BY <2>1, <1>4, <1>5, <1>6, <1>7 DEF Next
  <2>2. QED
    BY <2>1, <1>7

(***************************************************************************)
(* In the whole gateway the breaker keeps its contract: a provider is      *)
(* skipped only after Threshold failed calls with no success between them, *)
(* no request is let through to one that is skipped, and what a request    *)
(* reports late, or never, changes only its own provider's circuit.        *)
(***************************************************************************)
THEOREM GatewayKeepsContract == Spec => KeepsBreakerContract
<1>1. Init => Contract!Init
  BY InitMaps
<1>2. IInv /\ [Next]_vars => [Contract!Next]_(Contract!contractVars)
  BY NextMaps
<1>3. QED
  BY <1>1, <1>2, GatewayInvariant, PTL DEF Spec, KeepsBreakerContract, Contract!Spec

-----------------------------------------------------------------------------
(***************************************************************************)
(* How many steps an attempt has left at each stage.                       *)
(***************************************************************************)
LEMMA StepsOfStages ==
    /\ \A stage : StepsOfAttempt(stage) \in 0..11
    /\ StepsOfAttempt("router") = 11 /\ StepsOfAttempt("stripped") = 10
    /\ StepsOfAttempt("load") = 9 /\ StepsOfAttempt("converter") = 8
    /\ StepsOfAttempt("breaker") = 7 /\ StepsOfAttempt("forwarder") = 6
    /\ StepsOfAttempt("upstream") = 5 /\ StepsOfAttempt("tracker") = 4
    /\ StepsOfAttempt("report") = 3 /\ StepsOfAttempt("back") = 2
    /\ StepsOfAttempt("execute") = 1 /\ StepsOfAttempt("done") = 0
    /\ StepsOfAttempt("gone") = 0
  BY DEF StepsOfAttempt

(***************************************************************************)
(* A request goes down its chain within an attempt.                        *)
(***************************************************************************)
Further(r) ==
    /\ OthersFramed(r)
    /\ ctx'[r].retries = ctx[r].retries
    /\ StepsOfAttempt(pc'[r]) < StepsOfAttempt(pc[r])

(***************************************************************************)
(* The router, and what it hands on to.                                    *)
(***************************************************************************)
LEMMA RouterGoesFurther ==
    ASSUME RequestTypes, NEW r \in Requests, Router(r)
    PROVE  Further(r)
<1> USE DEF RequestTypes, OthersFramed, Further
<1>1. CASE RejectWithoutModel(r) \/ RejectWithoutRoute(r) \/ RejectMissingProvider(r)
  BY <1>1, StepsOfStages
     DEF RejectWithoutModel, RejectWithoutRoute, RejectMissingProvider, Fail, Goto
<1>2. ASSUME NEW targets PROVE TakeTargets(ctx[r], targets).retries = ctx[r].retries
  BY DEF TakeTargets, RequestContext
<1>3. CASE FindExact(r)
  BY <1>2, <1>3, StepsOfStages DEF FindExact, Goto
<1>4. CASE FindStripped(r)
  BY <1>2, <1>4, StepsOfStages DEF FindStripped, Goto
<1>5. CASE LoadProvider(r)
  <2>1. ASSUME NEW provider PROVE Resolve(ctx[r], provider).retries = ctx[r].retries
    BY DEF Resolve, RequestContext
  <2>2. QED
    BY <1>5, <2>1, StepsOfStages DEF LoadProvider, Goto
<1>6. QED
  BY <1>1, <1>3, <1>4, <1>5 DEF Router

(***************************************************************************)
(* From the converter to the upstream's answer, or its absence.            *)
(***************************************************************************)
LEMMA CallGoesFurther ==
    ASSUME RequestTypes, NEW r \in Requests,
           \/ ConvertRequest(r) \/ PassBreaker(r) \/ RefuseByBreaker(r) \/ Forward(r)
           \/ UpstreamStep(r) \/ Disconnect(r)
    PROVE  Further(r)
<1> USE DEF RequestTypes, OthersFramed, Further
<1>1. CASE ConvertRequest(r)
  <2>1. ctx'[r] = [ctx[r] EXCEPT !.upstream = ConvertedRequest(ctx[r])]
    BY <1>1 DEF ConvertRequest
  <2>2. ctx'[r].retries = ctx[r].retries
    BY <2>1 DEF RequestContext
  <2>3. QED
    BY <1>1, <2>2, StepsOfStages DEF ConvertRequest, Goto
<1>2. CASE PassBreaker(r) \/ RefuseByBreaker(r)
  BY <1>2, StepsOfStages DEF PassBreaker, RefuseByBreaker, Fail, Goto
<1>3. CASE Forward(r) \/ Disconnect(r)
  BY <1>3, StepsOfStages DEF Forward, Disconnect, Goto
<1>4. ASSUME NEW quality, UpstreamAnswers(r, quality) PROVE Further(r)
  <2>1. Accepted(ctx[r], quality).retries = ctx[r].retries
    BY DEF Accepted, RequestContext
  <2>2. QED
    BY <1>4, <2>1, StepsOfStages DEF UpstreamAnswers, Goto
<1>5. CASE UpstreamRefuses(r)
  <2>1. Refused(ctx[r]).retries = ctx[r].retries
    BY DEF Refused, RequestContext
  <2>2. QED
    BY <1>5, <2>1, StepsOfStages DEF UpstreamRefuses, Fail, Goto
<1>6. CASE ConnectionFails(r)
  BY <1>6, StepsOfStages DEF ConnectionFails, Fail, Goto
<1>7. QED
  BY <1>1, <1>2, <1>3, <1>4, <1>5, <1>6 DEF UpstreamStep

(***************************************************************************)
(* On the way back, unless it is retried.                                  *)
(***************************************************************************)
LEMMA AnswerGoesFurther ==
    ASSUME RequestTypes, NEW r \in Requests, Upward(r), ~Retry(r)
    PROVE  Further(r)
<1> USE DEF RequestTypes, OthersFramed, Further
<1>1. CASE Track(r) \/ TrackFails(r)
  BY <1>1, StepsOfStages DEF Track, TrackFails, Goto
<1>2. CASE ReportSuccess(r) \/ ReportFailure(r)
  BY <1>2, StepsOfStages DEF ReportSuccess, ReportFailure, Goto
<1>3. CASE ConvertResponse(r)
  <2>1. Restored(ctx[r]).retries = ctx[r].retries
    BY DEF Restored, RequestContext
  <2>2. QED
    BY <1>3, <2>1, StepsOfStages DEF ConvertResponse, Goto
<1>4. CASE Respond(r)
  BY <1>4, StepsOfStages DEF Respond, Goto
<1>5. QED
  BY <1>1, <1>2, <1>3, <1>4 DEF Upward

(***************************************************************************)
(* A retry begins the chain again with one retry less.                     *)
(***************************************************************************)
LEMMA RetrySpendsOne ==
    ASSUME RequestTypes, NEW r \in Requests, Retry(r)
    PROVE  /\ OthersFramed(r)
           /\ ctx'[r].retries = ctx[r].retries + 1
           /\ pc[r] = "execute" /\ pc'[r] = "router"
<1>1. NextAttempt(ctx[r]).retries = ctx[r].retries + 1
  BY DEF NextAttempt, Cleared, RequestTypes, RequestContext
<1>2. QED
  BY <1>1 DEF Retry, Goto, OthersFramed, RequestTypes

(***************************************************************************)
(* A request takes at most eleven steps per attempt, whatever happens to   *)
(* the providers, to the circuits and to other requests.                   *)
(***************************************************************************)
THEOREM RequestsAlwaysDescend == Spec => RequestsDescend
<1>1. ASSUME RequestTypes, RequestTypes', [Next]_vars, NEW r \in Requests,
             pc[r] # "new", OfRequest(r)' # OfRequest(r)
      PROVE  StepsLeft(r)' < StepsLeft(r) /\ StepsLeft(r)' >= 0
  <2>1. /\ ctx[r].retries \in 0..MaxRetries /\ ctx'[r].retries \in 0..MaxRetries
        /\ MaxRetries \in Nat
    BY <1>1, PipelineAssumption DEF RequestTypes, RequestContext
  <2>2. /\ StepsLeft(r) =
               IF StepsOfAttempt(pc[r]) = 0 THEN 0
               ELSE 11 * (MaxRetries - ctx[r].retries) + StepsOfAttempt(pc[r])
        /\ StepsLeft(r)' =
               IF StepsOfAttempt(pc'[r]) = 0 THEN 0
               ELSE 11 * (MaxRetries - ctx'[r].retries) + StepsOfAttempt(pc'[r])
        /\ StepsOfAttempt(pc[r]) \in 0..11 /\ StepsOfAttempt(pc'[r]) \in 0..11
    BY StepsOfStages DEF StepsLeft
  <2>3. CASE Further(r)
    <3>1. /\ ctx'[r].retries = ctx[r].retries
          /\ StepsOfAttempt(pc'[r]) < StepsOfAttempt(pc[r])
      BY <2>3 DEF Further
    <3>2. /\ 11 * (MaxRetries - ctx[r].retries) \in Nat
          /\ StepsLeft(r) = 11 * (MaxRetries - ctx[r].retries) + StepsOfAttempt(pc[r])
      BY <2>1, <2>2, <3>1
    <3>3. CASE StepsOfAttempt(pc'[r]) = 0
      BY <2>2, <3>1, <3>2, <3>3
    <3>4. CASE StepsOfAttempt(pc'[r]) # 0
      BY <2>2, <3>1, <3>2, <3>4
    <3>5. QED
      BY <3>3, <3>4
  <2>4. CASE Retry(r)
    <3>1. /\ ctx'[r].retries = ctx[r].retries + 1
          /\ StepsOfAttempt(pc[r]) = 1 /\ StepsOfAttempt(pc'[r]) = 11
      BY <1>1, <2>4, RetrySpendsOne, StepsOfStages
    <3>2. QED
      BY <2>1, <2>2, <3>1
  <2>5. ASSUME NEW q \in Requests,
               \/ \E m \in Models \union {NoModel}, s \in BOOLEAN : Receive(q, m, s)
               \/ Gateway(q) \/ UpstreamStep(q) \/ Disconnect(q)
        PROVE  q = r /\ (Further(r) \/ Retry(r))
    <3>1. CASE \E m \in Models \union {NoModel}, s \in BOOLEAN : Receive(q, m, s)
      <4>1. pc[q] = "new" /\ OthersFramed(q)
        BY <1>1, <3>1 DEF Receive, Goto, OthersFramed, RequestTypes
      <4>2. QED
        BY <1>1, <4>1 DEF OthersFramed, OfRequest
    <3>2. CASE Further(q) \/ Retry(q)
      <4>1. OthersFramed(q)
        BY <1>1, <3>2, RetrySpendsOne DEF Further
      <4>2. q = r
        BY <1>1, <4>1 DEF OthersFramed, OfRequest
      <4>3. QED
        BY <3>2, <4>2
    <3>3. QED
      BY <1>1, <2>5, <3>1, <3>2, RouterGoesFurther, CallGoesFurther, AnswerGoesFurther
         DEF Gateway
  <2>6. ~UNCHANGED requestVars
    BY <1>1 DEF requestVars, OfRequest
  <2>7. Administrator \/ Elapse => UNCHANGED requestVars
    BY DEF Administrator, SaveProvider, RemoveProvider, Rebuild, Elapse
  <2>8. Next
    BY <1>1, <2>6 DEF vars
  <2>9. QED
    BY <2>3, <2>4, <2>5, <2>6, <2>7, <2>8 DEF Next
<1>2. IInv /\ IInv' /\ [Next]_vars => [StepsLeftFall]_vars
  <2> SUFFICES ASSUME IInv, IInv', [Next]_vars PROVE StepsLeftFall
    OBVIOUS
  <2>1. RequestTypes /\ RequestTypes'
    BY DEF IInv, ReqInv
  <2>2. QED
    BY <1>1, <2>1 DEF StepsLeftFall
<1>3. QED
  BY <1>2, GatewayInvariant, PTL DEF Spec, RequestsDescend
=============================================================================
