# PromptGate verification

TLA+ models of PromptGate, an OpenAI-compatible LLM gateway
(`packages/gateway`) with a prompt registry, an eval runner
(`packages/evals`) and a dashboard (`packages/dashboard`). The gateway
authenticates a client key, limits its rate, reserves its budget, answers from
an exact-match cache or from one of four providers, buffered or streamed, and
leaves one durable, priced row per exchange in SQLite. What is hard about it is
not any single handler but their order: the promises, socket events and timers
of one exchange race each other, exchanges of one key race for its budget and
its cache rows, administrators change keys under them, and providers send
streams that are cut anywhere and break off anywhere. Around the gateway, a CI
gate seeds it and evaluates prompts while labels move, a dashboard shows and
moves those labels, and the process is signalled, killed and booted again.

`PROJECT.json` lists the components, the runs with their properties, a bug of
the code each property notices (its mutants), the source lines of every
definition, the hazards and the theorems. This file explains them.

## 1. Inventory

Paths are relative to `src/packages/gateway/src` unless they start with
`packages/`.

| component | state | operations | what is hard | what makes it correct |
|---|---|---|---|---|
| **Budget circuit breaker** `pipeline/budget.ts`, `budget.dao.ts` | Maps `active`, `debt`, `settledMemo`; the month's rows in SQL | reserve, reconcileAfterDurableLog, retainDebt, invalidate, memoised sum | concurrent requests of a key; 250 ms stale sum; month turn; failed insert; restart | an admission never exceeds the key's budget counting what is spent, held and owed; money leaves a hold only into a row or into debt |
| **Client authentication** `pipeline/auth.ts` | the key row copied into the request | one `onRequest` hook | the copy is older than the admission it is used for | the copy is what admission is measured against |
| **Rate limiter** `pipeline/ratelimit.ts` | a token bucket per key | take, refill, reconfigure | arbitrary sequences of takes and rate changes; rounding of Retry-After | no credit is minted; Retry-After is sufficient and at most a second late |
| **Chat exchange** `pipeline/handler.ts` | per exchange: reply socket, listeners, upstream call, timer, abort cause, the pending log row | refuse, replay, dispatch, stream, settle, abort, log | finish, close, timeout and provider settlement in any order; backpressure | one final row that tells the first cause; upstreams released; reservations settled |
| **Request log** `pipeline/requests.dao.ts`, `usage.ts` | `requests` rows | insert, read usage | the insert may fail after money was spent | see budget and exchange |
| **Response cache** `pipeline/cache.dao.ts`, `cache-key.ts` | `cache_entries` rows: answer, usage, price, expiry, hit count | claim a hit, upsert, sweep | concurrent misses, expiry between statements, two transports sharing a row, restart | a hit is the last live answer to that very body, counted once; nothing replayable is fetched again |
| **Metering** `pipeline/meter.ts`, `providers/pricing.dao.ts` | none (reads pricing) | exact and estimated cost | rounding, cached and reasoning tokens, dates of prices | cost is a function of usage and the price in force |
| **Prompt resolution** `pipeline/prompt-resolve.ts`, `packages/shared/src/template.ts` | none (reads registry) | reference → version → rendered text | a label that moves between eval cases | a frozen reference renders one version |
| **OpenAI-compatible providers** `providers/openai-compatible*.ts`, `openai.ts`, `deepseek.ts`, `gemini.ts` | the stream transcript | call, stream | chunk order, usage placement, [DONE] before the end | the stream contract (below) |
| **Anthropic provider** `providers/anthropic*.ts` | the translation state of one event stream | call, stream | blocks, tool inputs, usage and stop reason spread over events | nothing final is shown of a stream that fails; billed usage is final; the same contract |
| **SSE framing** `providers/sse-parse.ts` | line buffer, pending event | parse, frame | reads cut anywhere | events do not depend on the cuts |
| **Stream assembler** `pipeline/stream-assembler.ts` | partial choices and calls | observe, finish | transcripts legal for a client but not representable as one answer | what is cached is what was streamed, whole |
| **Provider retry** `providers/retry.ts` | attempt number | 3 attempts, body release, abortable backoff | an abort while nobody listens for it | bounded, ended at once by an abort |
| **Provider errors and routing** `providers/provider-error.ts`, `routes.ts`, `models.dao.ts`, `pipeline/models.ts`, `errors.ts` | none | mapping | none | pure mappings |
| **Prompt registry** `registry/dao.ts`, `admin/prompts.ts` | prompts, immutable versions, labels, label history | create, addVersion, setLabel, list, resolveRef | two writers of one label | a move records, and answers, where it moved from |
| **Key administration** `admin/keys.ts`, `keys.dao.ts` | `api_keys` | create, list, PATCH | effect on memo and bucket in use | PATCH takes effect without minting |
| **Admin metrics** `admin/metrics*.ts` | none | SQL aggregation | none | pure reads |
| **Eval store** `evals/dao.ts`, `score.ts`, `admin/evals.ts` | runs and case results | create, list, read | all or nothing, aggregates | stored columns agree with the cases and with what was charged |
| **Eval runner** `packages/evals/src/runner.ts`, `gateway-client.ts`, `admin-client.ts` | frozen references, results, the finished sides | freeze, history, cases, persist, verdict | labels move while a run goes on; a lost answer | a run is of one version; its exit code follows from the rows |
| **Eval pacing** `packages/evals/src/pacing.ts` | next slot per model | wait | a booked slot and a late timer | calls of one model are spaced |
| **Eval seeding** `packages/evals/src/ci-seed.ts`, `judge-seed.ts` | the key file; the rest is the gateway's | key handoff, fixture repair | death or a lost answer after any step, two seeds at once | a success means one key, handed over, and the locked fixtures |
| **Eval datasets, assertions, judge, CLI** | none | text and files, when a judge is asked, exit codes | none | a failed check spares the judge |
| **Process lifecycle** `server.ts`, `index.ts`, `shutdown.ts`, `db/*` | one DB handle, timer, shutdown promise | boot, migrate, listen, shut down | a crash between migrations, another process migrating, signals during requests and during the close | each migration once; exit 0 means that shutting down cut off no exchange and left no row in the WAL; a signal ends the process |
| **Nightly contract checks** `contracts/*` | verdict per provider | run | partial configuration | a missing key is not a pass |
| **Dashboard panels** `packages/dashboard/src/overview.ts`, `cost-explorer.ts`, `quality-drift.ts`, `api.ts` | generation, controller, charts, group, token | load, supersede, retry, dispose, recover from a 401 | answers and errors of a load that is no longer the one shown | what is drawn is of the load that owns the screen |
| **Dashboard prompts** `packages/dashboard/src/prompts.ts` | list, selection, compared versions, notice, one generation | refresh, select, compare, move a label and reload | clicks and answers in any order, another administrator | nothing shown is older than a move the page was told of |
| **Pricing seed** `packages/gateway/scripts/seed-pricing.ts` | none | migrate, write prices | beside a booting gateway | see process |
| **Shared schemas** | – | validation | – | – |

How they interact. All gateway code runs on one JavaScript thread: everything
between two awaits is atomic, and SQLite (better-sqlite3) is synchronous. What
interleaves are *turns*: handlers of different requests, socket events
(`finish`, `close`), timers and settling promises. A chat request passes auth
and rate limit (same turn), has its body uploaded, is admitted by the budget
guard, looks in the cache, and otherwise calls an adapter; the answer is
metered, cached and logged, and logging reconciles the reservation. A streamed
answer runs through SSE framing, an adapter's translator, the exchange's
generator (which also feeds the assembler) and Node's stream machinery.

Beside the gateway process there are others: the pricing seed on the same
database file, `pg-eval` with its seeds and runs, and the browser. They meet the
gateway in SQLite transactions or in requests, each of which is handled in one
turn; what interleaves is whole requests, and what is uncertain is whether a
request arrived and whether its answer came back. The eval runner renders by
frozen version number, so label moves reach it only through its freeze.

## 2. Modules

| module | models | abstracts |
|---|---|---|
| `BudgetLedger` | what the circuit breaker promises: per key, amounts settled, held and owed | the Maps and the memo |
| `BudgetGuard` | `budget.ts`, its SQL sum, the auth snapshot, durable logging, PATCH, month turn, restart | amounts are small numbers; how an estimate is computed |
| `RateLimiter` | `ratelimit.ts` with admin rate changes and restart | time in ticks; a token is `60 * Second` units so that refill is exact integer arithmetic; the ceiling of Retry-After is taken of a float, so at a whole second it may be one more |
| `ChatExchange` | one exchange in `handler.ts` from arrival to durable row | the guards before the reservation are one refusal; frames are a counter; costs are exact / estimated / zero / none |
| `StreamContract` | what any adapter's `stream()` promises the pipeline | content |
| `CompatibleStream` | `openai-compatible-stream.ts` | JSON schema checks are the set of chunks that pass, plus one malformed one |
| `AnthropicStream` | `translateEvents` in `anthropic-stream.ts`, an action per native event | text and ids are model values, tool arguments sequences of fragments |
| `StreamAssembler` | `stream-assembler.ts`: pure operators folded over a transcript | extra fields are one comparable value |
| `StreamAssembly` | composes `CompatibleStream`, `StreamAssembler` and the generator loop of the exchange | |
| `SseFraming` | `sse-parse.ts`: both parsers and `frameSseData` | a text is a sequence of pieces; UTF-8 decoding is the platform's |
| `ResponseCache` | `cache.dao.ts`, `cache-key.ts`, the route's use of them, the sweep | a body stands for its SHA-256; row validation is one flag |
| `PromptRegistry` | `registry/dao.ts`, `admin/prompts.ts`: prompts, versions, labels, history and reference resolution, as operations | a version is its content |
| `CiSeed` | `ci-seed.ts`, `judge-seed.ts`: one action per request and per file operation, on the registry | a key is the seed that made it; the budget and file-mode checks always hold |
| `EvalRun` | `runner.ts`, `pacing.ts`, `judge.ts`, when `assertions.ts` asks a judge, and the eval store | scores in halves, costs 0 or 1, time in ticks of the pacer |
| `EvalGate` | composes `CiSeed` and `EvalRun` over one registry, with an administrator who writes to it (`.github/workflows/eval-gate.yml`) | |
| `DashboardPage` | the document: the route and what is drawn | |
| `PanelScreens` | `overview.ts`, `cost-explorer.ts`, `quality-drift.ts`, `api.ts` | data are the load they came from |
| `PromptsScreen` | `prompts.ts` against `PromptRegistry` | a detail is the number of label moves it has seen |
| `Dashboard` | composes the two under `main.ts`'s routing, with another administrator | |
| `GatewayProcess` | `index.ts`, `server.ts`, `shutdown.ts`, `db/migrate.ts`, `db/lifecycle.ts`, `providers/retry.ts`, the pricing seed's migrations | a migration is its number; an exchange is where its provider call stands |
| `MC*` | constants, symmetry and definitions for TLC | |
| `*Proofs` | theorems about the module they extend | |

Every action is a whole turn of the program: a handler up to its next await, an
event listener, a timer. The variables have the names of the program's fields
where it has them; variables marked *history* in a module exist only to state
properties and are read by no guard.

`BudgetGuard`. `Reserve` includes the read-through of the memo, which happens
even when the request is refused. `LogDurably` and `LogFails` are the two ends
of `logRequest`: the row is written (the month's sum grows) and the token is
reconciled, or the insert throws and `retainDebt` keeps the larger of hold and
cost. `PatchKey` drops only the memo. `Restart` empties the Maps; rows stay.

`ChatExchange`. `pc` says where the handler or the generator stands. The socket
is open, finished or reset; `listening` tells whether the close listener is
attached, `ready` is `fallbackLogReady`, `abort` the first cause that aborted
the upstream, `log` the mutable pending row and `row` the durable one. A
generator suspended at `yield` because the reader is slow is `parked`: Node
does not pull, and a reset makes it run only its `finally` block. A meter may
throw wherever the code calls it, also where it only discards a stream that was
aborted (`handler.ts:784` and `:825`): that stream then ends without a row.

`CiSeed`. A request is one step: the gateway handles it, and the seed goes on or
has lost the answer. A killed seed's last request may still be handled. A seed
that failed is run again as another one; nothing keeps two from overlapping,
and `overlapped` remembers whether they did.

`EvalRun`. The calls of a run are sequential. `TakeTurn` books the slot
(`nextEligibleAt`) before the wait, `TimePasses` may let a timer fire late, and
`AnswerCase` / `AnswerJudge` begin the call and bring its answer. `Persist` is
the POST with its transaction, whose answer may be lost.

`PromptsScreen`. The `generation` counter only tells whether a request is the
one started last, so it is modelled by that request's kind; each request stores
`asOf`, how many label moves the gateway had seen when it was served. `Accepts`
is the program's pair of checks after an await. `move` is `performLabelMove`: it
waits for the PUT, then for the reload's list, then for its detail, and is
cancelled by whatever starts a newer load. An aborted PUT may still reach the
gateway: it becomes an `orphan`.

`PanelScreens`. A load is its outstanding requests. An aborted request is never
heard of again, so superseding a load removes it.

`GatewayProcess`. A transaction is one step; a process that dies leaves what was
committed. `Drained` is Fastify's close (Fastify 5.10), which runs `onClose` once
every connection is gone or idle. It does not wait for an exchange whose
connection was lost (`left`), so such an exchange may still run after the
database was closed. An exchange ends `logged`, `refused` (its insert threw and
`logRequest` swallowed it, `handler.ts:305-315`), `unlogged` (its reset reached
nobody who would log it, or its insert met a closed database) or `lost` with its
process. `mainFile` is the part of the rows that the WAL checkpoint moved to the
database file.

`StreamAssembly` and `AnthropicStream` both implement `StreamContract`, so the
exchange can be modelled over the contract and need not know the provider.

## 3. Runs

| run | question | instance | why it is enough |
|---|---|---|---|
| `budget_guard` | can concurrent requests, stale sums, failed inserts, PATCHes, a month turn or a restart let a key exceed its budget or lose money? | 2 keys, 3 requests, budgets 1–2, estimate 1, costs 0 and 2 | two holds fit and three do not; actual cost above and below the estimate; memo fresh, at its limit and stale |
| `rate_limiter` | does any sequence of takes, refusals and rate changes mint credit? how far is Retry-After off? | 1 key, 2 and 3 per minute, one-second ticks, 32 s | keys share nothing; both rates regain a token within the bound, with fractions left over, and an idle bucket would overflow |
| `chat_exchange` | in every order of events, what does the row say, and is everything released? | 1 exchange, 3 frames | one exchange shares no variable with another but budget and cache, modelled apart; three frames are: before, at and after usage |
| `stream_assembly` | which transcripts end well, and is what is cached what was streamed? | 16 chunk shapes, up to 4 chunks | a call in two fragments with usage, two interleaved choices, and a chunk breaking each rule |
| `anthropic_stream` | what does a failed or a finished translation show? | 2 ids, 3 fragments, 2 counts, 5 stop reasons, 5 chunks, 2 blocks | text and a call whose input comes in pieces, or two calls; every stop reason class |
| `sse_framing` | do events depend on where reads cut? | texts of 6 pieces, reads of 1–2 | two events, CRLF cut and uncut, multi-line data, sentinel pending |
| `response_cache` | what does a hit replay, and is a call to the provider ever needless? | 3 calls, 2 bodies, lifetime 2, clock 3 | a miss, a concurrent miss and a hit; expiry between any two steps |
| `eval_gate` | what does a successful seed certify, and does a run's exit code follow from what is on record? | 2 seeds, 2 runs of 2 cases (one with a rubric), 2 writes of the administrator | two seeds overlap or one repairs the other; a label moves before, between and after the calls of a run and a version is added; the second run takes its baseline from the first one's rows, of the same dataset or another |
| `dashboard` | is anything shown that is older than what the page was told, or of another load? | 2 prompts of 2 versions, 2 moves, 2 groups, 2 requests in an overview load | a move of the page and one of another administrator around it; selection of the other prompt at every point of a reload; two requests refused or failing at once |
| `gateway_process` | do migrations, retries and shutdown survive crashes and each other? | 2 exchanges, 2 migrations, images with 0 to 2 of them, 2 boots of gateway and seed | an older image after a newer one, both processes migrating with a stale list of what is applied; one exchange has lost its connection and runs on while the other holds the close back, in every order with signal, checkpoint and close; a second life must checkpoint the rows of the first |
| `parked_stream_abort`, `ended_stream_reset` | findings 1 and 2 | as `chat_exchange` | |

The larger ones have 2,289,317 (`eval_gate`), 1,075,825 (`rate_limiter`), 430,064
(`gateway_process`) and 117,840 (`dashboard`) distinct states. Type invariants are stated in the modules
and, where a proof builds on them, proved (section 4).

Deadlock is checked in `budget_guard` and `rate_limiter`; the others set
`CHECK_DEADLOCK FALSE` because an exchange, a stream, a run or a bounded number
of boots ends.

### What the properties say

Budget: `MemoNeverUnderstates` (the memo may only over-count),
`AdmissionWithinBudget` (spend + holds + debt fit the authenticated budget at
the instant of admission), `ImplementsLedger` (refinement of `BudgetLedger`
with `held` = the sum of active tokens).

Rate: `NoCreditMinted`, `RetryAfterHonoured` (who comes back when told is
admitted), `RetryAfterTight` (and is told at most a second too late).

Exchange: `RowIsFinal` (no later turn changes status or cost of a row already
written), `RowTellsFirstCause`, `ClientAbortIsBilled`, `OkMeansDelivered`,
`UpstreamIsReleased` and `HoldSettles` (liveness).

Streams: `CachedIsWhatWasStreamed`, `WholeAnswersAreCached` (exactly the whole,
representable answers of streams that ended ok), `NoSuccessBeforeFailure` (no
finish_reason or usage of a stream that later fails), `BilledUsageIsFinal`
(usage frames bill the largest count any event reported),
`EndedStreamIsAnAnswer` (tool inputs are whole objects, finish_reason agrees
with the calls), `ImplementsContract` twice.

Framing: `EventsOfTheText` compares the incremental parser with a reference
that reads the whole text at once: a terminator that is not the LF of a CRLF
ends a line (`Lines`), a blank line a group of lines (`Groups`), and a group
with data is an event (`Events`); a text that ends within a line is an error.
`FramesReconstruct`: parse after frame is the identity.

Cache: `ReplayIsLatestLive`, `HitsAreCounted`, `NoNeedlessCall`, all stated on
the history of what was stored for each body, not on the table.

Eval gate: `SeedCertifies` (seeds that did not overlap, however often they
failed: a success leaves exactly the locked versions in order and both labels on
version 1), `SeedHandsOverKey` (overlapping seeds too: after a success the file
holds the gateway's only key), `RunIsOfOneVersion` (every case of a stored run
was answered by the version the run is filed under and judged by the locked
rubric), `RunsAddUp` (stored columns agree with the cases and with every charge,
and the store never refuses what the runner sends), `VerdictIsOnRecord` (the
exit code, recomputed from the stored rows alone), `PaceIsKept`.

Dashboard: `NeverBehindAConfirmedMove`, `NoticeTellsTheMove` (whoever else moved
the label meanwhile, the notice names a move that was made, from where it was
made, next to data read after it), `ControlsAreOfTheDetail` (a click acts on
the state behind what is drawn, and no control is enabled while a move is under
way), `PanelShowsItsLoad`, `OnePromptPerLoad`,
`LoadingEnds` (liveness).

Process: `MigrationsRunOnce`, `ExitZeroIsDurable` (exit 0 after a signal means
that every row, of any life, is in the main file, and a row for each exchange of
this life, unless the database refused it while open or its connection was lost:
what the exit itself must not do is cut an exchange off or let it be logged too
late), `AbortEndsRetries`, `ShutdownEnds` (liveness).

### Fairness

Three modules have liveness properties. `ChatExchange` assumes: an armed timer fires
(Node timers); a provider promise whose signal was aborted settles (`fetch`
rejects on abort, retries stop on it); `iterator.return()` settles; a handler
whose body has arrived runs; and, of the environment, that a client either
drains what it is sent or goes away (TCP keeps neither state for ever only if
the operator's proxy or the kernel gives up: this is an assumption, and the
hazard at `handler.ts:611` records what happens without it). A provider may
stay silent for ever: nothing is assumed of it before an abort.

`HoldSettles` is stated with its exceptions spelled out in `Unheard`: the paths
on which a reset reaches nobody who would log it, so that the reservation
stays held until restart. No listener was attached (501, failed lookup); it was
removed (the end of a stream, or a stream ended by its timeout, by its provider
or by a meter that threw); it found `fallbackLogReady` unset and the handler
answered anyway; or it left the logging to a handler whose meter then threw,
buffered or discarding a stream. They are behaviours of the code, listed so that
a new one would be noticed.

`Dashboard` assumes `WF(Network)`: while requests are outstanding, some event of
the network happens, since a `fetch` ends with an answer or an error. Nothing is
assumed of the user; `LoadingEnds` excepts one who keeps acting, because each
click may start a load anew.

`GatewayProcess` assumes weak fairness of each exchange's steps (its provider
call's, the loss of its connection, its end), of `OnClose`
and of `ExitAfterClose`. The first is the upstream timeout of `handler.ts`, which
aborts a call that does not end by itself, together with a client that takes
its answer or leaves, as in `ChatExchange`; a reader that does neither
(`handler.ts:611`) also keeps a signalled process up until the
`stop_grace_period` of `docker-compose.yml` (150 s) ends in a SIGKILL. The other
two are Node running what is due. Booting is not assumed.

### Findings

1. *A parked stream that is left is not billed*
   (`parked_stream_abort`, `DisconnectMidStreamIsBilled`). When backpressure
   suspends `streamFrames` at its `yield` and the client then disconnects,
   Fastify destroys the reply stream, Node calls the generator's `return()`,
   and only the `finally` block runs. The code that meters the stream and sets
   `client_aborted` is skipped: the row is written with its initial status
   `rejected_validation` and no cost, and the reservation is released at zero
   although output was delivered. `IMPLEMENTATION_GUIDE.md:117` asks for a
   `client_aborted` row with the tokens billed so far.
2. *A stream reset during its last flush leaves no row*
   (`ended_stream_reset`, `ClosedLiveStreamIsClassified`). `streamFrames`
   detaches the close listener when the upstream ends; a reset between that
   moment and the response's `finish` runs neither the listener nor
   `onResponse`. `PROGRESS.md:120` asks that such a close be classified as
   `client_aborted`, for cached replay and live streams alike.

## 4. Proofs

TLAPS proves the following for every value of the constants, under the named
assumptions of the modules (`BudgetConstants`, `CacheConstants`, ...), which
TLC also evaluates. Each proof module extends the module it is about;
`RequestProofs` covers two, the limiter and the exchange a request passes
through in turn, which share no state.

* `BudgetGuardProofs`: `TypeCorrect`; `MemoSound` (MemoNeverUnderstates is
  itself inductive with the types: whatever raises the sum drops the memo in
  the same turn, and a month turn only lowers the sum); `AdmissionFits`
  (`AdmissionWithinBudget`, from the sound memo and `HeldAmounts`);
  `GuardImplementsLedger` (`ImplementsLedger`, one lemma per step: an admission
  adds its estimate to what the key holds, a log takes it away and adds the row
  or the debt, all else is a stutter or the ledger's own step); and
  `ExposureIsBounded`, on the ledger of the guard: a key's exposure exceeds the
  largest budget only by actual cost beyond estimates. Its invariant carries the
  accumulated overrun, which the exposure alone does not determine. What a key
  holds is a sum over a finite set, so the first lemmas are about such sums:
  they exist, unfold at any member, and agree on equal amounts.
* `RequestProofs`, the limiter: `LimiterTypeCorrect`, `CreditSound` (no minted
  credit), `BurstSound`, and both directions of Retry-After,
  `RetryAfterSufficient` and `RetryAfterWithinASecond` (`RetryAfterTight`). The invariant relates a
  bucket to the balance of what was granted and spent, and each promise to the
  bucket's refill.
* `RequestProofs`, the exchange: `ExchangeTypeCorrect`, `TheRowIsFinal`,
  `TheFirstCauseWins`, `AbortsAreBilled`, `OkIsDelivered`, and two consequences
  of the invariant that no run states: `HoldOrRow` (a reservation is released
  exactly by the row that replaces it) and `NoUpstreamSurvives` (an exchange
  that waits for nothing but its response has ended its upstream and its timer).
  None of the four properties is inductive: each speaks of the row, which the
  pending log becomes many turns after the events it must tell. `ExchangeInv`
  therefore says of every suspension point which paths come there (`Paths`),
  that nothing is logged while a listener could still relabel it
  (`LoggedLast`), what socket, listener, timer and abort say of each other
  (`Signals`), when the cause is frozen and when a close may log (`Settling`),
  and what the pending log says on each path (`Account`).
* `StreamAssemblyProofs`: `CachedIsStreamed` and `WholeIsCached`, for every set
  of chunks, any number of them, of choices in a chunk and of calls in a choice.
  The assembler reads one chunk at a time and keeps a running state; the two
  properties read the whole transcript by positions, and neither mentions that
  state. `AssemblyInv` joins them: the assembler is eligible exactly as long as
  the transcript so far `Fits` one response (so eligibility is not lost to the
  cutting, nor kept by it), and while it is, `HoldsChunks`: each field is a view
  of the transcript, text by text and call by call. The lemmas climb the data:
  what one tool entry adds to the calls of a choice (`CallsObserved`,
  `CallsFitMore`), all the tool entries of one entry (`ToolsReadOn`, by the
  unfolding of `ObserveTools`), one entry to its choice (`ChoiceMore`), one chunk
  to the transcript (`ChunkFits`, `ChunkObserved`). They rest on what
  `FlattenSeq` does with one element more (`FlattenMore`), from which all the
  views follow. `WholeIs` then cuts the reference's notion of a whole answer in
  two: what must hold all along (`Fits`) and what only at the end (`Ended`),
  which is what `finish()` tests. Needs `ChunkShapes`: what passed the schema has
  an id, and lists where the schema asks for arrays.
* `StreamAssemblyProofs`: `EventsAreOfTheText` and `FramesAreReconstructed`, for
  texts of any length cut in any way (`MaxText` and `MaxRead` are arbitrary), with
  and without event names. `FramingInv` says that while a reader reads, its buffer
  is what no complete line has taken, a CR that may be half of a CRLF included,
  and its locals are what the complete lines leave pending (`Parsed`). The lemmas
  go up from pieces to lines, to groups of lines, to events: what one element
  more adds to the parts between cuts (`PartsMore`), so to the lines of a text
  (`OnePieceMore`) and to its events (`EventsMore`); that `takeLines` reads those
  lines (`ScanIs`); and `Restart`: what follows a complete part of a text is read
  as if the rest of that part started it, unless it begins with the LF of a CRLF
  that was cut. A reader that ended the line of a lone CR at once would break
  exactly that hypothesis, which is why `takeLines` holds the CR back. Of
  `SseConstants` the proofs need that terminators, fields and other pieces differ.
* `StreamAssemblyProofs`, `AnthropicStreamProofs`: both adapters implement
  `StreamContract`: initial states map to initial states, each step to a step
  or a stutter. For Anthropic the invariant splits the output into frames of
  events, which are unfinished and unmetered, and the terminal triple finish /
  usage / [DONE], which is yielded only after the last event was accepted;
  from it also follow `FailureIsUnannounced` and `LargestCountIsBilled`.
* `AnthropicStreamProofs`: `EndedIsAnswer`, for every order of events: a stream
  that reached [DONE] is an answer the assembler can cache. The assembler's view
  is `FoldLeft` over the chunks, so the first lemmas unfold that fold: it exists,
  it is unique, and one payload more applies `Observe` once (`WatchedOneMore`).
  The next ones say what `Observe` makes of each frame the translator yields.
  `AnswerInv` then keeps the two side by side: the calls the assembler knows are
  those of the tool_use blocks, numbered in their order, with the arguments of a
  block that was accepted or of the open one so far (`CallsOfBlocks`), and no
  block is open once a message_delta was read, which is why the finish_reason
  read there still tells whether there are calls when the stream ends
  (`OrderInv`). It needs [DONE] told from every frame (`DoneIsNoFrame`).
* `ResponseCacheProofs`: all the properties of the cache, for any number of
  calls and bodies. What a hit replays is not inductive by itself; the
  invariant adds that a row is the last write of its body up to its hit count,
  that a live write is never missing from the table, and that a call under way
  has stored nothing (so that no replay counts for an answer not yet given).
* `EvalGateProofs`: all six properties of the gate, for any number of seeds,
  cases, runs and writes of the administrator.
  - `TheKeyIsHandedOver`. `HandoverInv`: only one seed ever gets past the
    exclusive creation of the file (`OneCreator`), and a seed that verified a
    key goes on with the one in the file.
  - `SuccessCertifies`. `CertInv`: while seeds have not overlapped at most one
    acts, and it may rely on what it found at its last request; the versions of
    both prompts are a prefix of the fixture; each label is on version 1 or
    still on the acting seed's list; and what one success locked no later seed
    undoes, because it finds nothing to add.
  - `CallsKeepTheirDistance`. `PaceInv`: the age of a model's last call and the
    time left to its next slot, booked or not, make the interval, unless the
    timer fired late.
  - `RunsAreOfOneVersion`, `ChargesAddUp`, `VerdictsAreOnRecord`. `FixturesInv`
    says what the seeds leave behind (the judge's prompt holds the rubric and
    nothing else) and that versions are only added; `RunInv` says of a run under
    way that each case so far was answered by the frozen version and that its
    charges add up, of every row on record the same, and of a run with a
    baseline that its metrics are of the newest comparable row
    (`Compared`, `CandidateIsLast`).
* `GatewayProcessProofs`: types, `EachMigrationRunsOnce`, `AbortedRetriesEnd`,
  `CleanExitIsDurable`, for any number of migrations, exchanges and boots. None of
  the three properties is inductive. `MigrationsInv` adds that below a file yet
  to be applied everything is applied or yet to be applied, so that the least
  pending file is the next of the schema or fails. `RetriesInv` adds that only a
  call with an attempt left releases a body or sleeps. `ShutdownInv` adds which
  life an exchange belongs to and that nothing of this life is lost while the
  process is up, with only an exchange whose connection is gone ending without a
  row that the open database could have taken (`LivesInv`), and that after the
  close hook only such exchanges are in flight, nothing arrives and a closed
  database takes no row, so that what was checkpointed stays all there is
  (`ClosedInv`).
* `DashboardProofs`: `PanelsShowTheirLoad`, `PromptsOnce`,
  `ClicksMeetTheirDetail`, `NothingShownIsStale`, `NoticeIsTrue`, for every set
  of prompts and groups, any number of requests in a load and any number of
  moves. `PanelInv` says that only the route's panel loads, one load at a time,
  while the screen shows that it loads. `ControlsInv` says that an answer that
  will be accepted finds no detail on the page and that a reload is that of the
  move under way. `FreshInv` says that the page's detail, and any answer that
  will be accepted, has seen what was confirmed for its prompt. For the notice,
  `RegistryInv` is the chain of the label history (each move begins where the
  last one of its label ended, and the label is where the last one put it) and
  `RecordInv` follows one move from its PUT through the two reads of its reload:
  the entry it made stays where it is, and whatever is read later has seen it.

Induction over data is beyond the installed provers. Where a property needs it
for one definite operator, the proofs go by a smallest counterexample instead:
`SumFunctionOnSet` over the subsets of a finite set, `SumOf` over the prefixes
of a sequence, `FoldLeft` of the assembler's `Observe` and of its
`ObserveTool`, of the parsers' `TakePiece` and `processLine`, `FlattenSeq`, the last entry of
the history that moved a label, each from the well-foundedness of `<` on the naturals or of inclusion on finite
sets. What such a lemma gives is the value at one element more; the induction
over the data itself is then the one over the steps of the specification.

Model-checked only: the liveness properties `UpstreamIsReleased`, `HoldSettles`,
`LoadingEnds` and `ShutdownEnds`, which rest on fairness and `ENABLED`.

## 5. Not modelled, and why

* Text: JSON, Zod schemas, wording of errors, token hashing, hash functions.
  They are pure; what depends on their outcome is a choice in the models.
* `TextDecoder`, `fetch`, Node streams and Fastify hooks are external: they are
  modelled by what the code relies on (finish and close events, `return()` on
  destroy, a rejected promise on abort).
* A meter that throws is modelled as a possible step although it needs the
  pricing row to vanish between admission and settlement.
* An upsert of the cache that throws is swallowed by the code and is the same
  as not caching.
* Metering, provider errors and routing, shared schemas, Anthropic request
  translation, admin metrics: pure functions and reads. Nightly contract checks:
  one sequential pass of an offline job.
* Charts, tables and texts of the dashboard; dataset files, assertion texts, the
  judge's wording, option parsing of the CLI.
* Of the process: the sweep timer (its effect is in `ResponseCache`), the lock
  retries inside SQLite (their outcome is a choice), a POST of an eval run still
  under way when the runner's process is gone.
* Of the prompts screen: two hash changes that the browser delivers together
  and that end on the prompts screen again.

### What the code does not promise

Met while modelling and left out of the properties, which say so:

* Seeds that overlap, or a killed seed whose last request arrives after its
  successor's, can write the first fixture twice; a later seed finds two versions
  and accepts them. `SeedCertifies` excludes overlap. For the same reason
  `judge-seed.ts:207` ("Anything else fails before mutation") holds of one seed
  at a time only.
* The comment at `ratelimit.ts:56-57` calls Retry-After "the exact earliest whole
  second". Line 58 takes `Math.ceil` of a floating-point quotient without the
  tolerance that `take` grants at a whole token, so it may be one second later:
  with 20 requests per minute, 20 takes at once and a refusal one second later
  leave 0.3333333333333333 tokens and announce 3 seconds, although a take two
  seconds later is admitted. `RetryAfterTight` allows for that second, and for no
  more.
* After a timer that fires late the pacer keeps the distance to the slot that
  was booked, not to the call that began (`pacing.ts:38`), so the next call may
  come sooner than the minimum gap `cli.ts:118` announces. `PaceIsKept` excludes
  that call.
* `PROGRESS.md:78` asks for "mutation controls unavailable until a fresh
  selection" after a failed or ambiguous label move. The `finally` block of
  `performLabelMove` (`prompts.ts:744-756`) resets `actionPending` and renders the
  page that is still selected, so they are enabled again next to the warning.
  `ControlsAreOfTheDetail` says nothing of that state.
* An exchange whose connection is lost may end without a row although the gateway
  exits with 0: it may be unheard, or meet the closed database.
  `ExitZeroIsDurable` excludes it, and an insert that fails.
* A run whose POST was stored but whose answer was lost exits with 2 and leaves
  its row; a later historical baseline may be that row.
* On the prompts screen, a failed or cancelled move with two versions compared
  leaves "Loading version diff…" standing; a notice survives the selection
  of another prompt and is shown under it; selecting another prompt while a
  reload waits for its detail loses the selection.
* A pricing seed attached at shutdown can make the checkpoint busy: the gateway
  then exits with 1 and its rows stay in the WAL, where the next boot finds
  them.

## 6. Plan

Written so far, in order of importance: budget, exchange, rate limiter, stream
contract with both adapters and the assembler, framing, cache; then the
registry with seeds, runs and the gate, the dashboard, and the process with its
retries.

Next modules:

1. `Metering`: exact and estimated cost as integer arithmetic against a
   reference, in `ChatExchange` in place of its cost kinds.
2. The guards of `handler.ts` before the reservation, with prompt resolution,
   as steps of `ChatExchange` in place of its one refusal.
3. `Nightly`: the verdict per provider, where a missing key is not a pass.

Next proofs: the properties of those modules; every safety and action property of
a passing run is proved.
