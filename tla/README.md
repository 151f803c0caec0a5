# Formal verification of quicky

TLA+ specifications of the newsletter pipeline in `src/`, TLC models that check
them on small instances, and TLAPS proofs of the results that hold for every
instance. All source references are relative to `src/`.

## 1. The system

`quicky` is one Go process (`cmd/quicky/main.go`) around a PostgreSQL database
that is also its queue. Mailgun posts a newsletter to a webhook, the webhook
stores it as a row of `inbound_emails`, a classify worker decides whether it is a
newsletter, and a parse worker extracts quotes and links from it with a language
model. An admin page edits the settings that every model call reads.

```
 Mailgun --POST--> ingest --3 statements--> PostgreSQL <--claim/handler tx-- classify worker
   ^                  |                     inbound_emails                        | Text
   +---200/4xx/500----+                     senders        <--claim/handler tx-- parse worker
                                            parsed_emails + children               | Tool, Text
                    admin form --Set-->     settings  <--Get, 1..3 per call-- llm router
                                                                                   |
                                            htmlx.Canonical <--pool of 12- editorial links
```

### Inventory

| Component | State | Operations | Interacts with | What is hard | What makes it correct |
|---|---|---|---|---|---|
| Queue, `internal/queue` | `attempts`, `next_attempt_at`, `last_error` of a row; a job per worker | `Run`, `step`, `claim`, `recordFailure` | both stages; other processes through the table | the claim commits before the handler runs, so only a backoff keeps a second worker away; crashes between transactions; a commit whose answer is lost | budgets are neither exceeded nor lost, backoffs keep handlers apart and emails in line, every email ends somewhere |
| Classifier, `internal/classify`, `classifyJob` | `classification`, `needs_confirmation` | `Classify`, `SetClassification` | queue, router | a late run overwrites another's verdict; a fixed order of precedence | confirmations surface and are never parsed |
| Parse stage, `internal/parse`, `parseJob` | `parsed_at`, `parsed_emails` and three child tables | `UserFor`, `Run`, `Save`, `MarkParsed` | queue, router, links, billing | billing read before minutes of model calls; overlapping runs; one of many inserts fails | one run's output, whole, once |
| Link resolution, `htmlx/links.go` | `final` of a redirect chain | `Canonical`, `follow`, `unwrapParam` | parse pool of goroutines | two chains share a variable and ten seconds; slots of the pool | stored URL is the one reached |
| Ingest, `internal/ingest`, `store.go` | `senders`, `inbound_emails` | `ServeHTTP`: look-up, `UpsertSender`, `InsertInbound` | Mailgun's at-least-once delivery | posts of one message overlap; a crash between statements; timeouts | acknowledged means stored, once, with its sender |
| Settings, `internal/settings` | `settings` table | `Get`, `Set`, `All` | admin, router | errors become defaults | a save is visible to every later call |
| Admin, `internal/admin` | a form in flight | save key by key, render | settings | a save that fails half-way, two saves at once | an acknowledged form holds |
| Router, `llm/router.go` | provider, URL, model of a call | `resolve`, `Text`, `Tool` | settings, model clients | three reads, each may fail, with saves in between | the model named exists at the provider asked |
| Model clients, `llm.go`, `ollama.go` | none | `Text`, `Tool`: HTTP calls with a timeout | router | two wire formats, errors in three places of a response, cut bodies | either provider gives the same result; only an answer is a success |
| HTML extraction, `htmlx.go` | none | `Extract`, `RenderCandidates`: pure | parse stage | a recursive walk over any tree, with an extractor per link | prompt and candidates follow the document |
| Log buffer, `logbuf` | a slice of lines | `Write`, `Lines` | admin | nothing: one slice under one mutex | not modelled |
| Process, `main.go` | context, HTTP server, connection pool | `Open`, workers, requests, signal, `Shutdown`, `Close` | all | handlers that hold one connection and need a second; the pool closes under them | no circular wait, nothing leaks, the process ends |
| Delivery, synthesis | none | stubs | none | nothing yet | not modelled |

## 2. Modules

| Module | Models | Proofs |
|---|---|---|
| `Classify` | the decision function, as operators over the five facts it branches on | used by PipelineProofs |
| `Pipeline` | queue, classify and parse stage of any number of workers | `PipelineProofs` |
| `Lifecycle` | abstract: an email is received, classified and finished once, in order | refined by `Pipeline` |
| `Timed` | `Pipeline` with a clock: `next_attempt_at`, backoffs, claims in order; refines `Pipeline` | `TimedProofs` |
| `Ingest` | the webhook's three statements and Mailgun's retries | `IngestProofs` |
| `Mailbox` | abstract: mail is kept once under its key, and what its sender is told is true | refined by `Ingest` |
| `Settings` | settings table, admin form and router, key by key | `SettingsProofs` |
| `Extraction` | one `Parser.Run` with its link pool and redirect chains | `ExtractionProofs` |
| `Process` | workers and requests at the connection pool, SIGTERM and the closing of the pool | `ProcessProofs` |
| `HtmlText` | `Extract`: a document tree, the walk over it, and what it returns | `HtmlTextProofs` |
| `Clients` | one model call through either client, from its response to its result | in `PromptProofs` |
| `Prompt` | composes both: what the parse stage and the classifier ask a model | `PromptProofs` |
| `MCPipeline`, `MCTimed`, `MCIngest`, `MCSettings`, `MCExtraction`, `MCPrompt` | constants, symmetry and bounds for TLC | |

A definition whose comment begins with "Mutant:" is a plausible bug in the
definition that follows it. Nothing in a specification uses it; it documents
which mistakes a property catches.

### Pipeline

`content`, `classification`, `needs_confirmation`, `parsed_at`, `attempts`, `due`
and `last_error` are the columns of a row, one function each. `due` stands for
`next_attempt_at <= NOW()`: the claim clears it and `Elapse` sets it for any set
of rows at any later moment, so every order in which backoffs and handlers can end is explored,
including a backoff that ends first. `extraction` and `children` name the worker
whose run wrote `parsed_emails` and its children. A worker's `pc` walks through
the transactions of `step`:

| `pc` | Code |
|---|---|
| `idle` | between steps; `Claim` is the committed transaction of `claim` |
| `claimed` | the handler runs, holding no lock on its row |
| `planned` | `parseJob` has read the billing state |
| `written` | the handler has updated its row and holds its lock until the commit |
| `failed` | the handler returned an error and its transaction is gone; `RecordFailure` is next |

`Abandon` is every way for an attempt to end with nothing but its charge: a
process that stops, a `Begin` or commit that fails, a `recordFailure` that times
out. A commit that lands while its answer is lost is `CommitClassify` or
`CommitParse`: the next `step` does not depend on what the last one returned.
`claims`, `faults`, `shared` and `lapsed` are history variables; `shared` collects
the emails that two workers have held at once. Overlapping handlers can replace a
verdict, hand a stage a second budget and leave a reason on a finished row;
`DecidedOnce`, `StageBudget` and `NoErrorOnFinished` say that nothing else can:
they hold of every email outside `shared`, whatever its neighbours go through.

`Settled` needs the failures of a row counted, which is what `faults` is for.
`Lifecycle` is reached by the mapping `Stage`, which reads only the two durable
markers and whether an extraction exists.

### Timed

`Timed` extends `Pipeline` with `now`, in minutes, and `next_attempt_at`. A claim
takes the row that has been due longest of those its stage could take
(`FirstInLine`: `ORDER BY` with `SKIP LOCKED`) and pushes it out by
`Backoff[attempts]`, three to the power of the attempts in the code. `Tick` is a
minute, and makes a set of rows due at once, which is why `Elapse` takes a set.
`KeepNextAttempt` says that no other statement which runs writes the column
(`ResetAttempts` would). Handlers may
take any time. The refinement is the identity on `Pipeline`'s variables: the
property is `Spec` itself. Four variables are history: `until[w]`, the lease that
w's claim wrote; `first` and `last`, when the attempts a row has now began and
last grew; `overtakes[e][f]`, claims of f since e has been waiting.

### Ingest

A message stands for its form; `pc[m][n]` is the goroutine that serves the n-th
post of message m, so that posts of one message overlap. `senders[u][f]` and
`rows[k]` are the rows under the unique keys of `001_init.sql`; `k` is the
Message-Id, or a synthetic key for a message without that header. `Mail` and
`Fates` map them to `Mailbox`, where mail is kept under a key and a message's
sender is told "kept", "unroutable", "dropped" (by a failed look-up) or nothing. `mailgun`,
`tries` and the actions `Post`, `Hear`, `TimeOut`, `Disconnect` are Mailgun,
modelled from what the handler's comments and answers rely on. Every failing
statement, timeout and crash uses one of `MaxFaults`, except that a request Mailgun
has stopped waiting for fails freely: its context is cancelled.

### Settings

`KeyOrder` is the order of the admin handler's saves; `next[p]` is a post's
position in it. A call is at its provider, URL or model query or `resolved`.
`window[c][k]` collects the values key k has had since call c began, and
`overwritten[p]` the keys other posts wrote since p began or wrote them itself.
Both are history.

### Extraction

`run` is the phase of `Parser.Run`, `goroutine[l]` that of a link's goroutine:
queued for a slot, in its HEAD or its GET chain, finished. `url`, `requests` and
`final` belong to the current chain. Servers redirect anywhere, answer, or fail;
model calls pass a quote, reject it, or fail. `answered` and `passed` are history.
`Unwrap` follows wrappers to the innermost URL; `UnwrapAssumption` is that there
is one, because the code's loop only ever takes a proper part of the URL.

### Process

`pc[g]` is the place of a goroutine with respect to the pool, `holder[c]` the
goroutine that has connection c. A worker claims on one connection, gives it back,
runs its handler on another (`handler`), and needs a second one when a model call
asks for a setting (`ask`, `asking`) and when it records a failure (`failed`,
`recording`), since `step` rolls back only after `recordFailure`. `Uses` says how
many connections each place has. A wait that fails is `Refused`: the pool is
closed, the database refuses, or the context is cancelled; `Get` then answers the
default and the handler goes on. `StopListening` is the return of
`ListenAndServe`, `StartClose` and `EndClose` the deferred `db.Close`, which waits
for connections in use; then the process is over. Rows and settings are left to
the other modules. The pool itself is pgxpool's, modelled from how the code uses
it.

### HtmlText, Clients, Prompt

`doc` is a tree as html.Parse returns it: its nodes in document order, each with
its parent; `Parse` adds one, into any open element, before `Extract` begins.
The recursion of `walk` and `anchor` is a sequence of steps, so that it can be
reasoned about by an invariant:

| State | Code |
|---|---|
| `at` | the node whose children are walked; the calls under way are those of the nodes from the document down to it |
| `cursor` | the last node `walk` was called for; the next is the next child of `at` |
| `extractors` | `e` of `Extract` under 0, and under each open link the `inner` of its `anchor` call, with the receiver of that call as `outer` |
| `e` | the receiver of `walk` |

`Walk(n)` is one call of `walk`, up to its loop over children, with one disjunct
per branch; `Leave` is what follows the loop: the deferred line break of a block,
or the rest of `anchor`, which joins the link's extractor to the one outside;
`ExtractReturn` renumbers and normalizes. Text is a sequence of tokens: words
named by their node, line breaks, and the brackets of a link. Which inline style
hides an element is the node's `hidden`. The properties restate nothing of the
walk: they quantify over the tree.

A call of a model is sent, answered or broken off, and returned. `answer` is the
model's own sequence of texts and tool calls; `Blocks` and `OaChoices` are the two
servers' formats of it (external), `AnthropicResult` and `OllamaResult` what each
client makes of the response. `Promised` is what the interface says, without
either format. `Prompt` runs both in the order of `Parser.Run`: extract, refuse a
newsletter without text, ask for the extraction; the text calls of `Classify` and
`keepSelfContained` come without a document.

## 3. What is checked

TLC checks twelve runs. "Deadlock off" is set only where the modelled system
stops: a webhook whose tries are over, a run that has returned, a process whose
pool is closed.

| Run | Instance | Shows |
|---|---|---|
| `Single` | 2 emails, 3 contents, one worker per stage, `MaxAttempts` 2 | the deployment of `main.go`: `LifecycleSpec` (refinement) |
| `Fleet` | 1 email, 3 contents, 2+2 workers, `MaxAttempts` 3, fair | what survives overlapping handlers: `GivenUpOnlyAfterFullBudget`, `ClassifyBudget`, `ExtractionFromOneRun`, `ExtractionIsFinal`, `ConfirmationSurfaced`, `NoSilentSkip`; what only overlapping can break: `DecidedOnce`, `StageBudget`, `NoErrorOnFinished`; and `EventuallySettled` |
| `Clock` | 2 emails, 2 classifiers, 1 parser, `MaxAttempts` 2, 3 minutes | `OutlivedBackoff`, `PatientBeforeGivingUp`, `OvertakenOnce`, and `Spec` (refinement of `Pipeline`) |
| `Webhook` | 4 messages (two with the same Message-Id, one with none, one unroutable), 2 posts each, 1 fault, fair | `AcceptedIsStored`, `SharedOnlyById`, `UnsubscribeKept`, `MailboxSpec` (refinement), `EventuallyStored` |
| `Knobs` | 2 posts, 3 forms, 1 call | `NoStaleChoice`, `ModelFitsClient`, `SavedFormsHold` |
| `Parser` | 3 links (a wrapped wrapper, its inner one, a plain one), 2 slots, 3 requests a chain, 2 quotes, fair | `StoredIsReached`, `QuotesKeptByVerdict`, `RunEnds` |
| `Prompt` | documents of up to 4 nodes of 12 kinds, answers of up to 3 parts, every response, both clients | `CandidatesFollowDocument`, `TextFollowsDocument`, `BlocksStayApart`, `SameThroughEither`, `SuccessIsAnAnswer` |
| `Drain` | 2 workers, 2 requests, 3 connections, fair | `ConnsAccounted`, `NoCircularWait`, `HandlersGetOn`, `ShutdownEnds` |
| `Overlap`, `Lookup`, `SameId`, `Reasons` | smallest instances | disagreements, section 5: each is expected to be violated |

Why the bounds suffice. Emails share nothing but workers, so interference on a
row needs one email and two workers of a stage (`Fleet`), and interference
between rows needs two emails (`Single`). `MaxAttempts` 2 lets a row fail, be
retried and be given up; 3 adds an attempt that is neither the first nor the
last. Two stages of two workers contain every pairwise race. Symmetry, over
values which no definition tells apart, is used in two runs, which check no
liveness: the posts of the admin form in `Knobs`, the emails and the classifiers
in `Clock`. Two posts and one fault give a message a
failure, an overlapping retry and a post that cannot fail; two messages with one
Message-Id and one without it give every way to share or not to share a row. Two forms that overlap in some keys and one call
give every interleaving of two writers and a reader; calls do not read each
other. Three links and two slots make one goroutine wait. Three connections let both
workers hold a transaction while they fight the requests for the only one left,
the tightest case `WorkersFit` admits; the code has two workers and pgxpool at
least four connections. In `Clock` three minutes hold both backoffs of a
budget of two (1 and 3) with one minute to spare for a second stage, and two
classifiers are what overlap needs; billing, which has nothing to do with time,
changes only before anything is received (`MCBillingFirst`). The proofs cover any
number of each and the code's five attempts. Four nodes
are enough for a link around a block around an image next to a text, and for
hidden elements at any depth; every branch of `Walk` has an element of its own,
and the proofs cover every tree.
Three parts hold two calls of the forced tool around one of another. The real constants (5 attempts, 12 slots, 10 redirects)
differ only in length, and the proofs cover them.

### Fairness

* `Pipeline`: each worker's claims, each worker's handler steps, and each row's
  backoff are weakly fair: `Run` polls on a ticker and drains the queue, every
  call a handler makes has a timeout, and clocks advance. `Abandon`, `SetUser`
  and `Insert` are not fair, so crashes, lost commits and changes of billing may
  happen at any time or never, and neither success nor failure of a handler is
  assumed.
* `Ingest`: Mailgun posts while it has tries, hears answers, and requests are
  served. `TimeOut` and `Crash` are not fair and failures are bounded by
  `MaxFaults`; with as many failures as tries nothing would be promised.
* `Process`: every worker makes progress and a handler makes finitely many model
  calls, so it ends (strong fairness of `EndHandler`). A worker that waits while
  connections keep becoming idle gets one: pgxpool serves its waiters in order.
  A statement of a request ends, and run's own steps follow a SIGTERM. Requests
  need not ever stop coming, and SIGTERM need not come.
* `Extraction`: the run and every goroutine make progress, as all of their calls
  have timeouts. Which outcome a call has stays open.

## 4. What is proved

TLAPS checks these for every value of the constants that satisfies the named
assumptions (`WorkersAssumption`, `RowsAssumption`, `MailAssumption`,
`SettingsAssumption`, `ExtractionAssumption`, `UnwrapAssumption`,
`PoolAssumption`, `WorkersFit`, `BackoffAssumption`, `SpanAssumption`,
`TimeAssumption`, `ElementsAssumption`, `PartsAssumption`: constants have their types, there are fewer
workers than connections, backoffs are at least a minute, `Span` is the sum of them, `NULL` is none of them, and a synthetic key is no Message-Id).

**PipelineProofs.** `TypeCorrect` first, then one invariant per question.

* `ConfirmationsSurfaced`: `SurfacedInv` adds that verdicts written but not yet
  committed obey the same rule, and that parse jobs are held only for emails that
  are classified and whose subject does not ask to confirm. `ClassifyDecides` is the lemma
  about `Classify`.
* `ClassifierBudgeted`: while a row is ambiguous its attempts count its classifier
  claims (`ClaimsCharged`); once it is not, no classifier claims it.
* `ExtractionsWhole`, `ExtractionsFinal`: only `CommitParse` writes an extraction,
  and only where there is none (`OnlyCommitsExtract`, `CommitParseEffect`).
* `SkipsExplained`: a plan to skip, made at the billing read, implies that the
  owner is in `lapsed` (`PlansExplained`), which every unbillable user is.
* `GivesUpOnlyAfterFullBudget`: attempts of a pending row are at most its faults
  plus the stage's handlers in flight (`AttemptsAccounted`), an inequality because
  an overlapping run's reset only lowers them. Claims and releases change the
  cardinality by one (`ClaimInFlight`, `ReleaseInFlight`).
* `UnsharedInvariant`: an email outside `shared` has one worker at most
  (`HeldByOne`), stays pending in that worker's stage while it is held
  (`JobsPending`), is parsed only as a newsletter (`MarkersOrdered`), and has its
  parser claims charged on a counter that began at zero (`ParseClaimsCharged`). From it follow `VerdictsFinal`,
  `StagesBudgeted` and `FinishedRowsClean`, for any number of workers.
* With `OneWorkerPerStage` as a hypothesis, nobody but the worker that holds an
  email could claim it, since an email is pending in one stage at a time: hence
  `HandlersExclusive`, that `shared` stays empty, and, action by action,
  `ImplementsLifecycle`. The hypothesis is needed: the run `Overlap` is its
  counterexample for two processes.

**IngestProofs.** `TypeCorrect`, `FirstCopiesKept`, `AcceptedMailStored` (a
goroutine which answers "stored" has found or made a row, and Mailgun accepts
only on the answer to its latest post),
`SendersStored` (a goroutine past the upsert has a sender row), `SharedRowsHaveOneId`
(a row's message has the row's key), `UnsubscribesKept`. `ImplementsMailbox`
combines them: an insert into an empty key is `Keep` (`InsertKeeps`), hearing an
answer or giving up is `Close` (`MailgunCloses`), and serving a late post moves
nothing that Mailgun has acted upon (`ServingKeepsFates`).

**TimedProofs.** `ImplementsPipeline`: a tick is an `Elapse`, every other step one
of `Pipeline`'s (`StepOfPipeline`), so that all of `PipelineProofs` holds with a
clock. `ClockInvariant` says, besides types, that `due` is what the clock says;
that whoever holds a row has a lease no later than the row's `next_attempt_at`;
that the attempts of a row lie at least `Span` apart; and that a waiting row has
been overtaken by another only if that one is now further back in the line.
From the second follows `OverlapsOutlived` (`OverlapKept`), from the third
`GivesUpPatiently` (`SpreadKept`), from the fourth `NobodyStarves` (`QueuedKept`):
a row that overtook moved behind, as its backoff is at least a minute, and the
row that waits is never moved.

**SettingsProofs.** `TypeCorrect`; `CallsSafe` carries `CallInv`, what a call
knows at each query, and yields `ChoicesNotStale` and `ModelsFitClients`;
`SavedFormsHeld` from `FormsInv`, a loop invariant over the keys a post is past,
disturbed by other posts.

**ExtractionProofs.** `Invariance` of one inductive invariant (types, slots, what
chains have reached, where verdicts stand), of which `TypeCorrect`,
`LinksReached`, `VerdictsKept` and `SlotsHeld` are the parts. That `slots` stays
in its range rests on `SlotsAreHeld`, so types cannot be proved alone. `Unwrap`
is used through its assumption only.

**ProcessProofs.** `TypeCorrect`; `ConnectionsAccounted`, by four lemmas that say
how a step may change what its goroutine holds (`Taking`, `GivingBack`,
`GivingAllBack`, `Keeping`) and keep every other goroutine's account; from it
`NoCircularWaits`, because a goroutine that waits with a connection is a worker
with exactly one (`WaitingHolders`), and with fewer workers than connections two
would have the same worker. `WorkersFit` is what makes it true.

**HtmlTextProofs.** The three properties of `Extract` speak of what it returns,
and none is inductive: they need to know what is in every builder on the way.
`DocInv` says so, part by part.

* `Tree`: what `html.Parse` may build (`ParseTree`). A subtree is a stretch of
  nodes, and a child leads from every node to each node below it. From it come
  the facts the rest uses: ancestors are the parent and its ancestors
  (`AncestorsByParent`), they form a chain (`AncestorsChain`), and visibility is
  inherited (`VisibleAround`, `VisibleChild`).
* `Position`: every node up to `cursor` has been walked or is in a skipped
  subtree, and each visible node after it is below a call under way or below a
  node not reached. It is why nothing visible is passed over (`NothingBetween`,
  `NothingLeft`) and why, when `Extract` returns, all of the document has been
  walked (`AllWalked`).
* `Nesting`: the extractors are those of the open links, each inside the next, so
  that the receiver is the innermost link around the next node
  (`LinksOfNext`, `InnermostLink`).
* `Images`, `Tokens`, `Written`: each extractor holds exactly the visible images
  and words of its own stretch of the document (`Inside`), in order, with the
  right link. An inner extractor's nodes come after all that the outer one holds
  (`InnerNodes`), hence joining them keeps the order (`ImagesJoined`,
  `TextJoined`). Positions are no part of it: the ones nested extractors count are
  wrong until `Renumber`.
* `Lines`: words are ordered, a bracketed stretch has no line break, and a word
  stands between the brackets of just those usable links around it that are
  closed already. What `Rendered` does to the places of tokens is `RenderedPlaces`;
  that it brackets a line and keeps it one is `RenderedTokens`.
* `Breaks`: two words in the outermost builder with a block's beginning or end
  between them have a line break between them, and so has the last word before
  a block that has begun or ended since. Blocks inside links are excluded by
  `Separating`; that the words of one link have no other block between them is
  `LinkBreaks`.

Each step preserves them by a lemma of its own (`TextStep` to `LeaveAnchorStep`),
and `CandidatesReturned`, `TextReturned` and `BlocksReturned` draw the properties
from them when the walk is over; for the last two, `NormalizeStretches` says that
a paragraph is a stretch of the builder without a line break, and
`StretchesApart` that two that share a place are the same.

**PromptProofs.** `CandidatesInOrder`, `WordsInOrder`, `SectionsStayApart`:
`DocInv` holds through the steps of `Prompt`, which read one document after the
other. `ProvidersAgree` and `OnlyAnswersSucceed` rest on `CallInv`: a result is
the client's `Outcome` of a response that has not changed since, or "do", and its
answer has its type. `AnthropicKeepsPromise` and `OllamaKeepsPromise` compare each
format with `Promised`; both take the first call of the forced tool, and that
a non-empty set of places has a least one is `LeastElement`.

Every safety property, action property and refinement of a passing run is thus a
theorem. Only model-checked are those under fairness (`EventuallySettled`,
`EventuallyStored`, `RunEnds`, `HandlersGetOn`, `ShutdownEnds`), which are beyond
the prover. `FirstCopyKept`, `SenderStored` and `SlotsAreHeld` are proved and no
longer run: `MailboxSpec` and `RunEnds` say more.

## 5. Where code and documents disagree

Four disagreements have a run that shows them.

| Run | Code | Document |
|---|---|---|
| `Overlap` | `queue.go:94`: the claim commits, then the handler runs without a lock; the first backoff is one minute, a model call may take 120 or 180 s | `queue.go:64` "runs h inside the claiming transaction" |
| `Reasons` | `main.go:56`, `:98`: `run` returns once the listener is closed and closes the pool; handlers that SIGTERM cancelled find it closed in `recordFailure` | `queue.go:140` "writing the reason on a dead context would silently drop it exactly when it matters" |
| `Lookup` | `ingest.go:46` answers 200 to any look-up error, a lost connection included | `ingest.go:47`, `:82` |
| `SameId` | `store.go:128`: one Message-Id for two users is stored for the first | `README.md:63`, zero omission |

Others met while modelling have no run. They can be read off the actions of the
models:

* `settings.go:71`: any error of a settings query yields the default, so a failed
  read of `llm_provider` sends a call to Anthropic while the setting is ollama,
  though the router picks "based on the llm_provider setting" (`router.go:14`). In
  `Settings`, `Get`; it is why `NoStaleChoice` excepts failed calls.
* `router.go:42`: a call to Anthropic keeps its caller's model, `cfg.ModelFast` for
  both (`main.go:79`, `:85`); `model_fast` and `model_strong` are saved and read by
  no call, against `settings.go:1`. In `Settings`, `CallerModel`.
* A 200 with any JSON object that has no content is a successful empty text to
  Anthropic's client (`llm.go:111`-`116`): `SuccessIsAnAnswer` states the exception.
  The cold-reader check then drops the quote, though "Only the model's verdict drops
  a quote" (`parse.go:158`), and the classifier decides "transactional".
* `ErrNoToolCall` is also returned when nothing was answered (`llm.go:136`,
  `ollama.go:116`), though it "means the model answered" (`llm.go:119`).
* `normalize` breaks paragraphs at every line of the source, not at blocks only
  (`htmlx.go:190`), against "keeping the block structure" (`htmlx.go:186`). In
  `HtmlText`, the "wrapped" text.
* A block inside a link breaks no paragraph, as `anchor` collapses a link to one
  line (`htmlx.go:114`), though block elements are to "force a paragraph break so
  sentences from different sections don't run together" (`htmlx.go:41`). In
  `HtmlText`, `Separating`.
* `hidden` "catches the tracking pixels and preheader text newsletters hide"
  (`htmlx.go:138`), but `opacity:0` also matches a visible `opacity:0.9`, and a `hidden`
  attribute without a value is not seen (`htmlx.go:143`, `:148`).
* `SetClassification` leaves `next_attempt_at` where the classifier's claim put it,
  1 to 81 minutes away (`store.go:206`), and `ResetAttempts` is called nowhere:
  "Every stage that advances a row must call it" (`queue.go:148`). In `Pipeline`,
  `CommitClassify` leaves `due` alone.
* `SetClassification` has no `classification = 'ambiguous'` guard
  (`store.go:206`), so a late classifier run replaces the verdict of another;
  `README.md:97` says the classifier runs once per email. `DecidedOnce` says that
  only overlapping runs do.
* A row can exhaust its budget with `last_error` NULL (`queue.go:109`, `:128`),
  though "the reason a row stopped progressing should be visible on the row
  itself" (`queue.go:138`): `Abandon` records nothing.
* Billing is read inside the worker (`main.go:145`); `store.go:60` and
  `parse.go:3-4` say that it is checked before the job is enqueued.
* `<>` as a Message-Id trims to the empty key (`ingest.go:153`, `:157`), against
  `ingest.go:147`, "It must never be empty".
* `Canonical` returns the unwrapped URL on failure (`links.go:22`), not "the input
  unchanged" (`links.go:18`).
* `settings.go:32` speaks of values cached in memory; every `Get` is a query.

## 6. What is not modelled

* Start-up, and `Shutdown`'s ten seconds for requests: nobody waits for them.
* What a dropped answer at shutdown means for a row is `Abandon` in `Pipeline`.
* Clocks of the hosts: only the database's `NOW()` is compared with anything but
  a trial's end, which `SetUser` abstracts.
* Parsing of addresses, headers, HTML source, dates and the wording of prompts: they decide which
  branch is taken, and the branch is a choice or a constant in the models.
  Signature checking is one such branch (`Refuse`).
* The error `html.Parse` may return: its run fails like any that a model call fails.
* White space and punctuation inside a line of the prompt; limits of a model's
  answer (`stop_reason` is read and not used, and Ollama is not sent `max_tokens`):
  whether a cut answer unmarshals is a choice in `Clients`.
* `logbuf`: one slice under one mutex, appended to and copied whole; no
  interleaving reaches it. Configuration and read-only pages: no influence on what
  the models state. `deliver` and `synth` are stubs. Scripts are run by hand.

## 7. Plan

Written, in order of importance: `Pipeline` with `Lifecycle` and `Classify`,
`Ingest`, `Settings`, `Extraction`, `Process`, then `Timed`, `Mailbox`, and `Prompt`
with `HtmlText` and `Clients`. What would come next:

1. A composition of `Ingest` and `Pipeline`: an acknowledged newsletter of a
   billable user is in the end parsed, given up or surfaced. Each half is checked
   (`EventuallyStored`, `EventuallySettled`); they share only the inserted row.
2. An abstract register that `Settings` implements key by key.
