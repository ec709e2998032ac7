# A verification project for ecc

ecc is a gateway for AI coding clients. A client speaks the Anthropic protocol
to the proxy port; the gateway picks a provider that serves the requested
model, converts the request to the provider's protocol, calls it, falls back to
another provider if that fails, records the usage and answers. An admin server
on another port changes the providers while requests are being served.

This directory holds TLA+ modules translated from the Rust code under `src/`
(file names below are relative to `src/crates/`), configurations that check them
with TLC, and proofs that TLAPS checks. `PROJECT.json` has the line numbers
behind every definition.

## 1. Inventory

| component | code | state | operations |
|---|---|---|---|
| circuit breaker | `ecc-engine/src/circuit_breaker.rs` | map provider -> (failures, opened_at), one mutex | `is_open`, `record_success`, `record_failure`, `handle` |
| pipeline | `ecc-engine/src/middleware.rs`, `router.rs`, `converter.rs`, `rectifier.rs`, `forwarder.rs`, `usage_tracker.rs`, `context.rs` | a `RequestContext` per request | `execute` with retries, the six middlewares |
| upstream client | `ecc-engine/src/reqwest_forwarder.rs` | none | `send`, `send_streaming` |
| protocol conversion | `ecc-engine/src/openai.rs`, `anthropic.rs`, `forwarder.rs` | none | requests, answers, usage of answers and of streams, (unused) stream chunks |
| proxy server | `ecc-api/src/proxy_server.rs`, `src/main.rs` | none | `handle`, `build_response`; a task per connection |
| provider registry | `ecc-app/src/provider_service.rs`, `ecc-infra/src/provider_repo.rs`, `route_repo.rs`, `cache.rs`, `schema.rs`, `store.rs` | tables `providers`, `model_mappings`, `pricing`; provider cache; route cache | create, update, delete, list, rebuild, load at start |
| quota service | `ecc-app/src/quota_service.rs` | cache of query results | first refresh, refresh every 60 s, reads |
| presets | `ecc-app/src/preset_service.rs`, `ecc-infra/src/preset_repo.rs`, `seed.rs` | table `presets` | create, update, delete, seeding at start |
| usage store | `ecc-infra/src/usage_repo.rs`, `ecc-app/src/usage_service.rs`, `ecc-domain/src/pricing.rs` | table `usage_records` | record, query, aggregate, cost |
| startup | `src/main.rs`, `ecc-infra/src/seed.rs`, `crypto.rs` | tokens on disk under a key made of `ECC_CRYPTO_SEED` | load the providers, seed the presets, first quota round, serve |
| playground | `ecc-app/src/playground_service.rs` | none | one call to one provider |
| admin HTTP layer | `ecc-api/src/admin_server.rs` | none | path -> call of a service |
| default provider, dashboard | `config_repo.rs`, `ecc-web` | a key; static files | -- |

How they interact. `main` builds one pipeline and shares it between all
connections; each connection is a task of a multi-threaded executor. A request
meets shared state at few places: the route cache and the provider cache (two
read locks, one after the other), the breaker's mutex (once before and once
after the call, never across it), the network, and the database (one INSERT).
The admin server's calls run in parallel with requests and with each other, on
a pool of four database connections; no lock spans a call and no statement is
in a transaction.

What is hard, and what makes each part correct:

* **Breaker.** Requests let in early report late, in any order; reports may
  come after the circuit opened, closed and opened again. Correct: skipped only
  after enough failures in a row, cleared by any success, never shut for good,
  providers independent of each other.
* **Pipeline.** A retry resets the context field by field and runs the whole
  chain again on it, while providers change underneath. Correct: one call never
  mixes two providers, an answer is never followed by another call, the client
  gets what the last attempt received, calls are bounded, what was answered is
  accounted for in the name of who answered, the breaker hears the outcome of
  calls and nothing else.
* **Registry.** Two caches and three tables change one after the other, calls
  overlap, statements fail, the process is killed. Correct: what a call
  acknowledged survives, and the routes follow the providers.
* **Quota service.** A round of queries lists the providers, waits for all
  upstreams and replaces the cache, while providers change; one panic ends the
  task. Correct: the cache is at most a round behind and catches up.
* **Conversion.** Every attempt converts the client's body anew, for a provider
  of another protocol perhaps; whether an answer is a stream is decided in three
  places; a stream is read for usage although the network cuts it anywhere.
  Correct: no text of the client is lost, moved or changed by attempts before,
  no field of another provider is left over, both sides agree on streaming, a complete answer keeps text, counters and the mark
  of having been cut off, what is recorded is what one line reports.
* **Presets.** Calls check first and write in a later statement, overlap, fail,
  and are killed in between; every start writes the built-in ones over. Correct:
  what an administrator was told of a preset is in the table, whatever starts
  come between if it is one of their own.
* **Startup.** Tokens that cannot be decrypted end the start; a save writes the
  row and the cache apart, and saves overlap. Correct: no history of starts under
  different seeds leaves tokens that no seed can read, and no token that an
  acknowledged call has replaced is used again.
* **Usage store.** Times are compared as text of different lengths, counters are
  cast to a signed column, sums may overflow. Correct: a query of any window
  returns the records in it, statistics are the sums of what was recorded.

## 2. Modules

| module | models | builds on |
|---|---|---|
| `CircuitBreaker` | the map and its four operations, a clock for `Instant::elapsed` | -- |
| `BreakerContract` | abstract: a gate and a streak per provider, callers inside or not; no clock | -- |
| `BreakerTraffic` | `CircuitBreaker::handle` run by many requests | EXTENDS `CircuitBreaker`; implements `BreakerContract` |
| `ProxyPipeline` | the request path from `ProxyServer::handle` to the answer, the upstreams, and an administrator who changes providers | EXTENDS `CircuitBreaker`; implements `BreakerContract` |
| `DurableCatalog` | abstract: one entry per provider as served, as stored, as asked for and as promised; no tables, no statements | -- |
| `ProviderRegistry` | `ProviderService` on the tables and the two caches, with kills and restarts | implements `DurableCatalog` |
| `QuotaService` | the rounds of `QuotaService::spawn`, and `main` from the first round to the open ports | -- |
| `ProtocolConversion` | the data of one request: bodies, answers, streams, counters, through the attempts of `ProxyPipeline` | -- |
| `AdminCalls` | the tasks of the admin server, and the bound on their number | -- |
| `PresetStore` | `PresetService` on the table `presets`, with the checks and the writes apart | EXTENDS `AdminCalls` |
| `ProviderTokens` | `ProviderService` as far as a provider's token goes: row and cache apart | EXTENDS `AdminCalls` |
| `Startup` | `main` against the disk: loading, seeding, kills, starts under other seeds, and the calls on presets and providers while it serves | EXTENDS `PresetStore`, `ProviderTokens` |
| `UsageStore` | `UsageRepo`: records on their way, the table, both queries | -- |
| `CircuitBreakerProofs`, `BreakerTrafficProofs`, `ProxyPipelineProofs`, `QuotaServiceProofs`, `ProviderRegistryProofs`, `StartupProofs`, `UsageStoreProofs`, `ConversionProofs` | theorems and proofs | the modules of that name (`ConversionProofs`: `ProtocolConversion`) |
| `MC...` | values for TLC | the module of that name |

### CircuitBreaker, BreakerTraffic

`circuits[k]` is the map entry of provider `k`; an absent entry and one without
failures are the same state. `since` is the time since `opened_at`, in ticks,
kept up to `Cooldown` because `is_open` compares it with nothing else;
`NeverOpened` is `None`. Each method takes the mutex once, so each is one
operator: `IsOpen`, `RecordSuccess`, `RecordFailure`. In `BreakerTraffic` a
caller arrives, is admitted or refused, and reports at any later step, or
vanishes: hyper drops the task of a client that hangs up.

`MaxFailures` is where the counter (a `u32` in the code) stops in the model. It
is at least `Threshold`, and no value above the threshold behaves differently;
no property speaks of the bound. `OpenedByFailures` relates the two fields of a
circuit, which `record_success` and `record_failure` change apart.
An empty key, for which the code skips the check, cannot occur:
`create_provider` rejects an empty name.

### ProxyPipeline

A request's `pc` is the next piece of code to run:

| stage | code |
|---|---|
| `new` | `ProxyServer::handle` |
| `router`, `stripped`, `load` | `Router::handle`: lookup of the name, lookup without date suffix, lookup of the provider |
| `converter` | `ConverterMiddleware::handle` up to `next.run` |
| `breaker` | `CircuitBreaker::handle` up to `next.run` |
| `forwarder`, `upstream` | `Forwarder::handle` up to, and during, the call |
| `tracker` | `UsageTracker::handle` |
| `report` | `CircuitBreaker::handle` after `next.run` |
| `back` | `ConverterMiddleware::handle` after `next.run` |
| `execute` | the `match` of `Pipeline::execute`, and `ProxyServer::handle` after it |
| `done`, `gone` | answered; dropped with its connection |

`ctx` has the fields of `RequestContext` that some property can tell apart. A
target is its provider's name, because `(provider_name, claude_model)` is a
primary key and so a model's route names a provider once. `upstream` keeps apart
where the URL and token come from (`to`), whom the model name in the body was
chosen for (`model`), and the body's format. An answer is only known by its
format: `anthropic`, `openai`, `invalid` JSON, an `error` text, and for streams
`cut`; a stream can be cut before its usage line (quality `bad`) or after it
(`late`). The order of a route is that of a HashMap, so `RoutesFrom` allows every
order that is the same for all models.

The date suffix is data: `StripSuffix` says for each model name which name
`find_routes` tries next. Only the administrator's calls one at a time are here
(`stale` marks the gap between the provider cache and the routes); calls that
overlap are `ProviderRegistry`'s subject. `sent`, `lost` and the field
`answered` are history.

### ProviderRegistry, DurableCatalog

Each SQL statement and each cache access is an action; `pc[a]` is where in
`save_to_db`, `delete` or `rebuild` the call of administrator `a` is. `url`
stands for all columns of `providers`, `price` for the rows of `pricing`;
`model_mappings` is kept row by row since its rows are inserted one by one.
A provider that carries no prices has `price = NoRow`. `StatementFails` is a
failing statement: the call returns the error and leaves what it has written.
`Restart` is a kill followed by `main` up to the listening servers, which load
the caches first.

`DurableCatalog` is what administrators may rely on. In it a provider is one
entry that changes at once; a call asks for an entry, which voids the promise
made for that provider; while a call on it is in progress, what a restart would
find may be anything (`Store`), what is served changes to an entry some call
asked for and to nothing else (`Serve`), and a promise is given only by the one
call in progress, when it is both served and stored. Its `stored` is `Loaded`,
the entry that `main` would build from the rows of three tables; `asked` are the
drafts of the calls in progress.

### QuotaService

`stage` is where the rounds are: `first` and `waiting` before `list()`,
`querying` while `join_all` waits, `dead` after a panic. `main` runs the first
round itself (`refresh`), then opens the ports (`listen`, `serve`); only then
can an administrator change a provider. `listed` and `found` are the locals of a
round, dropped at its end. A query is one action per outcome; `Answers` names
the outcomes of `query_one`: a broken connection, an error status, no JSON, a
document that the adapter's `error_check` accepts or not. What the query brings
back is known by the adapter it was made with; the arithmetic of utilization
and reset times (lines 224-266) is abstracted with it. `Panic` is a slice out of
range: an error text whose 200th byte is inside a character (line 166), or a
path segment that ends in `[` (line 286). The futures of a round are polled by
one task and `panic = "abort"` is not set, so a panic ends that task: `main`
during the first round, the refresher later. `unlisted` and `outdated` are
history. `list()` reads a cache and cannot fail, so the `continue` of line 37 is
not an action.

### ProtocolConversion

`stage` is the middleware that runs next: `ConvertRequest` is
`ConverterMiddleware::handle` up to `next.run`, `Answer` the forwarder with the
extraction of usage, `Track` the usage tracker, `ConvertResponse` the converter
after `next.run`, `Retry` a failed call that `execute` tries again with the
provider of some other, or the same, protocol. Routing, the breaker and failures
in other places are `ProxyPipeline`'s. A content is the sequence of its parts: a
string is one text part, a content that is neither string nor array is `Null`, a
missing field `Absent`. A part has a type and the text it carries, if any; a
`tool_result` or a `thinking` part may carry text, a part of type `text` may lack
it. `content_to_text` keeps the text parts (`IsText`) and drops all others; the
texts that it joins by line breaks stay a sequence. Fields besides the ones
named are a set of names, since the converters copy or drop them whole. A
document is its text, its reason and its usage object.

A stream is the sequence of its data lines, each with the usage object at its
top level or none, and the set of places where the network cuts it: `2i-1` is
inside line i, `2i` after it. `extract_stream_usage` goes through the chunks from
the last, through the lines of a chunk from the first, and skips what is no
JSON; so a line counts if it came whole and in one chunk, and of several such
lines the first one of the last chunk.

### PresetStore, Startup

A call of `PresetService` is a check (`Create`, `Update`, `Delete`), a statement
(`SavePreset`, `DeletePreset`) and the answer (`AnswerOk`, `AnswerError`); a
delete has no check but its statement wants a row. `Segment` is the name the
admin server takes from the path the dashboard sends: it does not decode
percent signs, so some names have none. `rivals` and `told` are history: what
administrators were last told, unless calls overlapped.

`Startup` has `main` as stages `down`, `loading`, `seeding`, `serving`. `Start`
chooses a seed; `LoadProviders` needs every token to be encrypted under it, and
otherwise only `Stop` is left, as `ProviderRepo::new` fails and `main` panics.
AES-GCM is the pair of a seed and a secret, read back under that seed only.
`SeedPreset` is one INSERT OR REPLACE of `sync_presets`.

`KnownPresetsStay` does not judge what a start does to the built-in presets. The
code writes them over, and brings deleted ones back; `DDD_DESIGN.md:414` wants
them seeded into an empty table only (section 9). `Start` therefore forgets what
administrators were told of built-in presets (`Unknown`): of these the property
speaks again from the next acknowledged call, of all others through every start.

In `ProviderTokens` a call on a provider is a check on the cache
(`CreateProvider`, `UpdateProvider`, `DeleteProvider`), a statement (`InsertRow`,
`DeleteRow`), the cache (`CacheToken`) and the answer (`AnswerToken`), and other
calls, on the same provider too, come between any two of these. `FailToken` is a
failing statement; a save can also fail in one between the row and the cache, on
tables that are left to `ProviderRegistry`, a delete when it finds no row. An
update without a token writes back the one it read at its check, which is one of
the choices of `secret`. `given[p]` is history: the tokens `p` may have. A call
that begins adds the token it was asked to give (nothing, for a delete); one that
is acknowledged leaves its own and those of the calls it overlapped with
(`job[a].rivals`). Row and cache of one provider can end up on the tokens of two
calls that overlapped; both are in `given`, and what was there before the two is
not.

### UsageStore

`Track` builds the record with its timestamp, `record` inserts it, and between
the two other requests may insert theirs, the clock may be set back, the process
may die (`Kill`); a failed INSERT (`RecordFails`) is only logged. The width is a
parameter: `u64` is `0..2*Half-1`, the column `-Half..Half-1`. A timestamp is
stored as text: the fraction is written in groups of three digits (one digit
each here) and left out where it is zero, and texts are compared byte by byte.
The queries read one state of the table and change nothing, so they are
operators of it; SQLite's integer SUM fails when a partial sum overflows, in an
order that is its own. Costs are whole numbers, rounding is left out. The price
is a constant of each provider: the code looks it up by provider and model
(`usage_tracker.rs:34-38`) and administrators can change it, so a provider of the
module stands for one model of it between two changes of its price.

## 3. Runs

| run | question | instance | result |
|---|---|---|---|
| `breaker_traffic` | does the breaker keep its contract, is a circuit open by its failures only, do the reports to an open circuit run out, and does it always let requests in again? | 2 providers, 3 callers, threshold 2, cooldown 2 | holds |
| `one_request` | does a request with all its retries call the right providers, stop, answer with the right data, come closer to its end with every step, and end, whatever the administrator does meanwhile? | 1 request, 2 providers, 2 protocols, 2 retries, 2 edits, fair | holds |
| `two_requests` | are answered requests accounted for in the name of who answered, do circuits follow the calls, does the pipeline keep the breaker's contract? | 2 requests, 2 providers, 1 retry, cooldown 2 | holds |
| `conversion` | what of a request, an answer and a stream's usage survives the conversion? | conversations of up to 2 messages, streams of up to 3 lines with every way to cut them, 1 retry | holds |
| `registry` | does what was acknowledged survive, do routes match at rest, and is no request served by a half-written provider (`ImplementsCatalog`)? | 2 administrators, 2 names, 2 versions, 3 calls, 1 restart | holds |
| `startup` | do presets stay as administrators know them, do tokens stay readable, and does no replaced token come back? | 2 administrators, 4 presets of which 2 built in, 2 providers, 2 tokens, 4 calls, 2 seeds, 3 starts | holds |
| `usage` | do both queries agree with what was recorded? | 2 tasks, 2 providers, 4-bit counters, 4 times, 2 rows | holds |
| `quota` | is the quota cache at most a round behind the providers, does it catch up, and does a start get to open its ports? | 2 names, 2 adapters, 2 changes, fair | holds |
| `refresher_panics` | are quota data refreshed for as long as the gateway serves? | as `quota` | violated |
| `failover` | is a failed provider left alone by the retry? | 1 request, 2 retries | violated |
| `stale_routes` | is a change of the providers visible in the routes when all calls have returned? | as `registry` | violated |
| `system_prompt` | is an OpenAI provider told the system prompt? | as `conversion` | violated |

Why the bounds suffice. Three callers against a threshold of two gives a
straggler left over after the circuit opened; a cooldown of two ticks has a
tick inside it. Two providers give a fallback and two retries a second lookup
after a lookup; two edits let a provider disappear and come back between the
two lookups of one attempt, or between attempts. Three calls on two
administrators let a third call start from what two overlapping ones left; one
restart can come at any of their statements. In `quota` two changes fall before,
into and after a round, on one name or on two; of its adapters one has a check
and one can panic on any document. In `startup` a third start can follow one
under the other seed that failed, and four calls let two overlapping ones start
from what two others left; a preset has the built-in text or another one, and
two tokens tell a token that came back from the one that replaced it. In
`conversion` three lines are the fewest of which one can be cut off, one hidden
behind another in its chunk and one alone; the messages have no text, one, two,
two with a tool result that carries text between them, and none but parts of
other types and a text part without its text; one retry is enough for a body of another
protocol to lie in the context. In `usage` the counters are an ordinary value,
one of which two exceed the signed width together, and one beyond it; the times
are whole seconds and fractions whose texts have all three lengths. `MaxEdits`,
`MaxCalls`, `MaxRestarts`, `MaxStarts`, `MaxRecords` and `MaxFailures` are the
only bounds that the code does not have.

`registry`, `startup` and `usage` use symmetry: calls, names and values (in
`startup` calls, secrets, seeds and providers, in `usage` tasks) are only compared for
equality and their properties are invariants. The other runs use none.
`CHECK_DEADLOCK FALSE` is set for the runs of `ProviderRegistry` and `Startup`,
which stop when their bounds on calls, restarts or starts are used up, of
`QuotaService`, which stops after a panic, and of `ProtocolConversion`, which
follows one request to its end. The pipeline, the breaker and the usage store never stop.

## 4. Fairness

`BreakerTraffic!FairSpec` only asks that time passes. `NeverShutForever` then
holds although every failure past the threshold restarts the cooldown: nobody
enters while the circuit is open, so the stragglers run out. `StragglersRunOut`
says this much as a property of steps, with no clock and no fairness, so that it
can be proved: as long as a circuit is open the requests in flight to its
provider only leave, and any change of the circuit but the passing of time takes
one of them away.

`ProxyPipeline!GatewayFair` asks that the executor runs a task that can run (one
weak fairness condition per request; tokio polls every ready task).
`FairSpec` adds that an upstream answers, refuses or breaks the connection in
the end. The code does not enforce that: no timeout is set on the client
(`main.rs:80`), and without this condition a request whose upstream is silent
never ends. `EveryRequestEnds` needs no fairness of the administrator, of
clients that hang up, or of the clock. `RequestsDescend` is its part without
fairness: `StepsLeft` falls with every step of a request, whatever happens
around it, so what runs long enough ends.

`QuotaService!FairSpec` asks that the timer fires, that a round's end is stored,
that `main` goes on to open its ports, and again that every query ends, which
nothing in the code enforces. Changes have no fairness; `ChangesAppear` needs
them to stop (`MaxEdits`), since a provider that is changed in every round is
always a round behind. `StartEnds` says that `main` gets from the first round to
its ports, or to its end in a panic: it waits for the queries of all providers.

## 5. What is proved

`CircuitBreakerProofs`: how the four operations change one circuit, and how each
looks in the terms of the contract.

`BreakerTrafficProofs`: `BreakerInvariant`, that a circuit has an opening time
iff it has counted `Threshold` failures since it was last cleared (needed since
`is_open` looks at the time only and the contract at the failures only), and
from it `StragglersAlwaysRunOut`, action by action, and
`BreakerRefinesContract`, by mapping each action: `Arrive` and `Refuse` change
nothing the contract sees, `Admit` enters, the reports succeed or fail, `Leave`
vanishes, a tick makes some cooldowns lapse.

`ProxyPipelineProofs`: `GatewayInvariant`, and from it all safety properties of
`one_request` and `two_requests`, for every number of requests, providers,
models, retries and edits, any threshold and cooldown. The properties are not
inductive: that no call follows an answer depends on what result each stage may
be left with. The inductive invariant `RequestsInv` (in `ProxyPipeline`)
therefore says, for each stage of a request, what its context, its result, its
calls and its rows look like there:

* before a call (`router` to `forwarder`) every earlier call has failed, nothing
  is billed, no response field is set, and there are at most `retries` calls;
* from `converter` on, the configuration is the target's, and from `breaker` on
  `upstream` was made of both;
* a result is `aborted` with failed calls only, or `ok` / `internal` with a last
  call that was answered and billed, or lost;
* response fields are blank or were written in this attempt.

The proof has one lemma per action (`...Keeps`), each about the one request that
moves; `OnlyThisRequest` carries the others over. Circuits and the provider
tables are separate conjuncts (`NextKeepsCircuits`, `NextKeepsCatalog`), since
no part of `RequestsInv` mentions them. `CircuitsAlwaysFollowCalls` and
`GatewayKeepsContract` are then facts about single steps from states of the
invariant. So is `RequestsAlwaysDescend`: within an attempt a request only moves
down the chain (`RouterGoesFurther`, `CallGoesFurther`, `AnswerGoesFurther`), a
retry begins the chain again with one retry less (`RetrySpendsOne`), and the
measure weighs a retry with the eleven stages of an attempt.

`QuotaServiceProofs`: `RoundInvariant`, and from it `QuotaTypeCorrect` and
`CacheAlwaysFollows`. `CacheFollowsProviders` alone does not survive the end of
a round: `RoundInv` adds that a round has listed what has not changed since, and
found what belongs to what it listed.

`ProviderRegistryProofs`: `RegistryInvariant`, and from it the invariants of
`registry`. None is inductive. The invariant says, of a call that overlaps
with no other on its provider, which tables and cache entries already hold its
draft at each statement (`WrittenTo`), that calls in progress know of each other
(`RivalsKnown`), that what was acknowledged has no call in progress
(`AckedStays`), and that whoever has changed the cache is on the way to `Fill`
(`RoutesFollow`). All steps of a call under way touch only their own provider's
rows (`OwnStep`); `OwnStepKeeps` carries the other calls and providers over once
for all of them. `RegistryIsCatalog` maps the steps: `Create`, `Update` and
`Delete` ask, each statement stores, `Publish` and `Evict` serve, `List` changes
nothing the catalog sees, `Fill` promises if the call was alone on its provider
and gives up otherwise, as does `StatementFails`, and `Restart` restarts. A
promise needs the entry both served and stored, which is what the invariant says
of a call alone at `Fill`; a call that has overlapped leaves its promise open.
`CatalogKeepsPromises` shows on the catalog alone that promises are kept, so
that `AckedIsDurable` follows from the refinement a second time.

`StartupProofs`: `StartupInvariant`, and from it all four properties of
`startup`. On the presets it adds that a call waiting to answer has its row in
the table unless a rival may have written over it (`WrittenStays`), that nobody
has been told of built-in presets while a start is going on (`BuiltinsOpen`), and
that no call is in progress before `main` serves. On the tokens it adds that all
rows are under one seed, the one of this start once it has read them, and what
calls in progress on one provider may have left: they know of each other
(`JobsMeet`), and once a call has written the row, or the cache, there is its own
token or that of a rival (`RowWritten`, `TokenCached`: `Candidates`). This
survives the steps of the others, since whoever writes later is a rival, and it
is what an acknowledgement needs, which leaves no other tokens in `given`.

`UsageStoreProofs`: `TextOrder`, that two timestamps compare as texts like the
times they stand for, whatever the lengths of their fractions; `CastsRoundTrip`,
that `as i64` and `as u64` lose nothing; `UsageInvariant`, that each row is the
stored form, at its price, of what was handed over for it; and
`QueriesAlwaysFaithful` from the three, for every width. `StatsAlwaysAddUp`
needs sums, and a sum over a set is a fold. The library's induction theorems
take an operator, so induction is done over sets instead: `FiniteInduction`
takes the set of the subsets a statement holds for, and rests on the library's
theorem that strict inclusion of finite sets is well-founded; `CountingInduction`
takes the set of the numbers, and counts such a set down. `SumExists` shows that
the fold is the recursive sum, `SumTakesAway` how it grows with its set; parts,
remainders and linear combinations (`SumOfPart`, `SumModulo`, `SumLinear`)
follow. So what SQLite adds up in the signed column differs from what was
reported by a multiple of 2^64, and fails only if 2^63 or more was reported
(`SumsStored`), and costs are what the counters cost (`CostsStored`). The
invariant needs for it that a record carries its price (`RecordsPriced`).

`ConversionProofs`: `ConversionInvariant`, that each stage leaves what its code
computes from what the stages before it have left, and from it all invariants of
`conversion` for every body, document, stream and way to cut it.
`TextsAlwaysKept` speaks of conversations of any length, of parts of every type. Messages
and their parts are mapped to sequences that are then flattened; `FlatExists`
shows, again by `CountingInduction`, that flattening is the recursive
concatenation, `AllConcat` that such a mapping of two sequences one after the
other is that of each, `AllTwice` that one mapping after another is a single
one. So
`PartsTyped` and `SaidInParts` hold of a content, `MessageConverted` of a
message, `ConversationConverted` of all of them, and `BodyConverted` of what a
provider is sent. `StreamUsageReported` needs that there is a last chunk with a readable line
(`LastChunkExists`, from `MinOfNaturals`) and that a cut between two lines puts
them into different chunks (`CutSeparates`, by counting the cuts before each).

Assumptions: `RegistryAssumption`, `PresetAssumption`, `TokenAssumption`,
`CallsAssumption`, `StartupAssumption`,
`UsageAssumption` and `ConversionAssumption` say that what stands for a missing
row or field is no value, and what types the constants have (`Half` is
positive). `QuotaAssumption` and `MarkAssumption` (no entry and an unanswered
query are no `QuotaInfo`), `BreakerAssumption` and `PipelineAssumption`, stated with the
constants: threshold and cooldown positive, `NoProvider` no provider's name,
`Keys` the provider names. TLC evaluates them in every run. `main` sets
threshold 5, cooldown 30 s and two retries.

## 6. What is only model-checked

`NeverShutForever`, `EveryRequestEnds`, `ChangesAppear` and `StartEnds`, because
liveness is out of the prover's reach; of the first two the part that needs no
fairness is proved (`StragglersRunOut`, `RequestsDescend`). And the violations,
which are single behaviours. All invariants and action properties that the runs
check, and the three refinements, are theorems.

## 7. Plan

1. `Gateway`: `ProxyPipeline` with the registry's overlapping calls as its
   administrator. What it needs of the registry is in `DurableCatalog`: served
   entries change whole.
2. The parts without fairness of `ChangesAppear` and `StartEnds`, as
   `RequestsDescend` is that of `EveryRequestEnds`.

## 8. What is not modelled, and why

The default provider (`config_repo.rs`) is reachable by no path of the admin
server. The playground is one call to one provider without state and outside of
the pipeline. The bytes of the cipher and of its base64 text are a pure
function of bytes; tokens are modelled by which seed reads them. The admin
server's dispatch beyond the preset names, its JSON, CORS headers, logging and
the dashboard are wording and layout. `convert_stream_chunk` is called by
nobody: streams go to the client as they came. Floating-point rounding of costs,
and the arithmetic of quota utilization, are left out.

## 9. Where code and documents disagree

Each has a run that shows it, or a line here.

* A retry does not go to the fallback: `router.rs:24-27` tests
  `provider_config`, which `middleware.rs:81` has just cleared (`failover`).
* The system prompt does not reach an OpenAI provider: `openai.rs:69` reads
  `messages` only, against `PROTOCOL-DESIGN.md:39` (`system_prompt`).
* Overlapping calls leave stale routes (`stale_routes`).
* A panic in one query ends all refreshing (`refresher_panics`).
* Not run: failed requests leave no usage record, against the comment at
  `usage_tracker.rs:27`; OpenAI streams reach the client unconverted, against
  `DDD_DESIGN.md:729`; the cache is refreshed every 60 s by its own task, not
  every 20 s by the admin server (`DDD_DESIGN.md:1101`); the MiniMax preset
  (`presets.json:120`) names the status code of success with `not_equal`, which
  `quota_service.rs:188` takes for the code of an error.
* Not run: the breaker's key is the provider, `ARCHITECTURE-ecc-v2.md:180` wants
  a route entry; the tables have no `ON DELETE CASCADE`
  (`DDD_DESIGN.md:1244`, `schema.rs:16-29`), so mappings of a deleted provider
  stay; there is no half-open state (`ARCHITECTURE-ecc-v2.md:332`).
* Not run: OpenAI usage is recorded as zeros, since `forwarder.rs:70` reads
  Anthropic's names (`tests/integration.rs:105-108` wants counters); a silent
  upstream is waited for without end (`reqwest_forwarder.rs:30`,
  `ARCHITECTURE-ecc-v2.md:189` names a timeout); of two overlapping creates of
  one name both succeed (`provider_service.rs:74`, `DDD_DESIGN.md:896`).
* Not run: the built-in presets are written over at each start
  (`preset_repo.rs:79`; `DDD_DESIGN.md:414-416` and 1208-1211 want them seeded
  into an empty table only, so that edits of them stay); neither converter looks at
  `auth_type` (`anthropic.rs:16`, `openai.rs:19-26`, `DDD_DESIGN.md:738`), but
  the playground does, and it calls `/v1/messages` for OpenAI providers too
  (`playground_service.rs:61`); names in paths are not percent-decoded
  (`admin_server.rs:242`) although the dashboard encodes them; tools, tool calls
  in answers and cached tokens are not converted (`PROTOCOL-DESIGN.md:38-60`); the usage
  nested in `message_start` is not read (`forwarder.rs:85`).
* Not run: of a request for an OpenAI provider, `tool_use`, `tool_result`,
  `image` and `thinking` parts are dropped (`openai.rs:203`), also when they carry
  text; `PROTOCOL-DESIGN.md:23-26` converts each of them. `TextsKept` is about the
  text parts and says nothing of these.
* Not run: two saves of one provider that overlap can leave the row with the
  token of one and the cache with that of the other (`provider_repo.rs:133` and
  169), until the next start or save. No document excludes it;
  `ServesGivenTokens` allows either token.
