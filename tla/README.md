# BizIntel, specified in TLA+

BizIntel ("PS-05") is an analytics platform: users upload CSV files, which a
TypeScript/Express server validates, stores in a Supabase bucket and describes in
PostgreSQL; analytics, saved analyses, dashboards, backtests and an AI chat work on
them. This directory holds TLA+ modules of the server's stateful parts, the TLC
configurations that check them, and TLAPS proofs of their main properties. Paths
below are relative to the repository; every definition's source lines are in
`PROJECT.json` ("map").

    tlasany M.tla                          parse
    tlc -config lifecycle.cfg MCDatasetLifecycle      model-check (see "Runs")
    tlapm DatasetLifecycleProofs.tla       check the proofs

## 1. Inventory

| Component | State | Operations | Where it is hard |
|---|---|---|---|
| Dataset upload pipeline (`backend/src/services/dataset.service.ts`, `storage.service.ts`, `validation.service.ts`, `duckdb.service.ts`) | `datasets` and `dataset_columns` rows, bucket objects, scratch-cache files, multer temp files | `createFromUpload`, `runPipeline`, `persist` | some twenty awaits, each with its failure path; no transaction around them; a catch block that itself may fail; crashes leave work half done |
| Dataset deletion and reads (same files, `dataset.controller.ts`, `requireDatasetOwner.ts`) | the same | `deleteForUser`, preview, profile, download, `acquireLocalPath` | race with a running upload of the same dataset and with each other; `existsSync` taken for completeness |
| DataMart saved objects (`backend/src/datamart/**`, `database/schema.sql`) | analyses, metrics, dashboards, widgets, run log | create/update/delete of each, `executeAnalysis`, `reorderWidgets` | lookups one statement before the write; foreign keys that contradict a CHECK; row locks; cascades |
| DataMart compiler, formulas, filters (`datamart/compiler`, `utils/filterSql.ts`) and `executeQuery` | none; a request holds what it has loaded | `compile`, `parseFormula`, `buildFilterWhere`, `executeQuery` | operator precedence; parameters bound by position; rows, columns and files loaded one await after the other while datasets are deleted; totals guessed or counted |
| Backtest engine (`backtesting/engines`, `strategies`, `metrics`) | cash, position, trades, equity (within one call) | `runBacktest` | look-ahead, rounding, costs at the limit of the cash |
| Backtest service (`backtesting/services`, `repositories`) | backtest, trade and equity rows | `createBacktest`, `deleteBacktest`, compare | one transaction in batches, a read after COMMIT |
| Market data (`backtesting/marketData`, `services/marketData.service.ts`) | none | `detectMarketColumns`, `validateMarketData`, `load`, `range` | columns taken by name, type and place; rows that are dropped or refused |
| Wizard of backtests (`frontend/.../NewBacktestPage.tsx`) | the form, fetched strategies, datasets, compatibility and range | choose, edit, go to a step, run | steps in any order; answers of fetches that are late or failed; the same checks twice, in two languages |
| Chat (`ai/ai.service.ts`, `ai/memory`, `ai/execution`) | sessions in a process-wide Map: messages, tool results, summaries | `chat`, `executeGraph`, memory manager | concurrent turns of one session across awaits, background summaries, trimming |
| Page of the assistant (`frontend/.../AiAssistantPage.tsx`, `useChatStore.ts`) | session id and messages of each tab, and what is persisted of them for all tabs | send, clear, reload | each question is sent twice; answers lost, late, or after a reload; tabs that overwrite each other |
| Knowledge base, uploads (`ai/knowledge`, `uploads`) | chunks in PostgreSQL and in a Map, upload records | ingest, search, list, delete | the Map is filled before the transaction; a document is refused after COMMIT; the Map is empty after a restart |
| Jobs (`jobs`) | Map of simulated jobs | enqueue, process, status | timers |
| Authentication (`services/auth.service.ts`, `middlewares/authenticate.ts`, `frontend/.../AuthProvider.tsx`, `lib/api.ts`) | users; cookie and token of a browser; the user the page believes in | register, login, logout, `/auth/me` | check-then-insert across an await; answers that overtake each other; late 401s |
| Analytics (`services/analytics.service.ts`) | none | explorer, groups, distributions, series, quality, outliers, insights | several statements make one answer; the boundary values of buckets, quartiles and pages |
| Dashboard summary, email, response generation, tools | none that matters | read-only SQL, prompts, templates | - |
| HTTP server (`server.ts`, `app.ts`, `middlewares`) | listening socket | start, shutdown | forced exit after ten seconds |
| Rest of the frontend (`src/frontend`) | the cache of React Query | pages, query and mutation hooks | stale caches: each hook names what its change invalidates |

How they interact. Every component runs in one Node process; a handler runs from one
`await` to the next without interruption, so two requests interleave exactly at
awaits. They share PostgreSQL (one pool; each statement its own transaction, except
`reorderWidgets`, `createBacktest` and the vector store), the bucket, the scratch
directory, and the Maps of the chat and upload services. Analytics, DataMart,
backtests and the chat's tools call DuckDB on the file that `acquireLocalPath`
returns, and all of them rely on what READY says about a dataset. Deleting a dataset
cascades into metrics, backtests and chunks.

What makes each component correct:

* *Datasets*: READY means that everything is stored; every upload is answered, with a
  status that stays; a deleted dataset stays deleted; nothing is left in the bucket,
  the cache or the temp directory without a reason.
* *DataMart*: widgets and metrics never dangle; a reorder is all or nothing; an
  execution is recorded as it ended; waiting requests end.
* *Backtests*: orders are filled after their signal, cash never goes below zero, a run
  is saved whole or not at all.
* *Chat*: a session holds each turn's question before its answer, keeps the newest
  messages, and its limits.
* *Queries and analytics*: an answer is the answer to what was asked, of the files it
  names; a total is the total; what is refused is refused for a cause; a formula means
  what its operators say.
* *Market data and wizard*: a run starts on sound bars of the dataset, range and
  parameters that were reviewed, and page and server agree on what may be run.
* *Page of the assistant*: it shows the session it is in, all of it, and nothing else.
* *Knowledge*: a document that was accepted is kept and found; one that was refused
  leaves nothing.
* *Authentication and pages*: one account per email; a page greets the user its session
  belongs to; a page that shows no sign of loading is up to date.

`PROJECT.json` lists every component with its status, and the hazards (places where
a test would hardly reach) with the property that watches each.

## 2. Plan

Done so far, in this order:

1. `DatasetLifecycle`, with its abstract specification `DatasetRegistry` and proofs:
   everything else relies on what READY says.
2. `DataMart`, with proofs.
3. `BacktestEngine`, `Strategies`, and `Backtest`, which composes them, with proofs of
   the engine for any strategy, and of the three strategies for any parameters.
4. `BacktestPersist`, with its abstract specification `BacktestLedger` and proofs.
5. `ChatMemory`, with proofs of what a session keeps, of what a summary has read and of
   what a context holds.
6. `Ingestion`, with its abstract specification `Catalogue` and proofs.
7. `Pages` and `Client`: accounts, the session of a browser, and the query cache, with
   proofs.
8. `Formula`, `Filters`, `QueryCompiler`, `QueryEngine`, `Analytics`, and `Queries`, which
   composes them into a request that runs next to deletions, with proofs of the parser,
   of what the studio accepts, and of the totals of answers.
9. `MarketData` and `Wizard`, with proofs: the way from a form to the bars of a run, and
   that the run is the one that was reviewed.
10. `ChatPage`: the page of the assistant over `ChatMemory`, with proofs.

Left, most important first:

| Of | What it would say | Why not yet |
|---|---|---|
| `getComparison` of the DataMart | both sides of a comparison are what each dataset gives alone | needs a second flow of requests in `Queries` |
| cells of the answers of `Queries`, proved | values and order are right for all tables and queries, as totals are | aggregates are folds over rows, set against definitions by quantifiers: an induction over data in each of them |
| several tabs in `Client` | what `ChatPage` has, for the session of the browser | the state of one tab is at the limit of a run |
| `dashboard.service.ts`, lists of the DataMart | counts agree with the rows | one statement each; nothing interleaves in it |

## 3. Modules and how they correspond to the code

One action is what a handler does between two awaits, together with the effect of the
call it awaits. A helper called on the way is part of the action. Loops over rows whose
number no property depends on are one step (the batches of one INSERT series); a loop
with an await in it that other requests can get into is one step per turn of the loop
(`reorderWidgets`).

| Module | Code | State in the code | Variables |
|---|---|---|---|
| `DatasetLifecycle` | `dataset.service.ts`, `storage.service.ts`, `uploadCsv.ts`, `dataset.controller.ts` | rows; bucket; scratch cache; temp files; position of a handler; metrics on dashboards | `status`, `holds`; `objects`; `cache`, `pens`, `tip`; `temps`; `up`, `at`, `on`; `shown` |
| `DatasetRegistry` | the API of datasets | what a client sees and is told | `phase`, `told` |
| `DataMart` | `datamart.service.ts`, `datamart.repository.ts`, foreign keys and CHECKs of `schema.sql` | tables; row locks of an open transaction; position of a request; statements of one `Promise.all` that are under way | `queried`, `measured`, `boards`, `home`, `source`, `pos`; `held`, `draft`; `at`, `aim`, `ref`, `list`, `next`; `writes` |
| `BacktestEngine` | `backtestEngine.ts`, `money.ts` | local variables of `runBacktest` | `cash`, `position`, `basis`, `pending`, `trades`, ... |
| `Strategies` | `smaCrossover.ts`, `rsi.ts`, `bollingerBands.ts`, `indicators.ts` | the state object of a strategy | operators on records; `Backtest` holds the records |
| `BacktestPersist` | `backtesting.service.ts`, `backtest.repository.ts`, `config/database.ts` | backtest rows; open transactions; the pool; position of a request | `stored`; `open`; `clients`; `pc`, `target`, `reply` |
| `BacktestLedger` | the API of saved backtests | saved runs and answers | `runs`, `about`, `owed`, `reply` |
| `ChatMemory` | `ai.service.ts`, `ai/memory` | the Map of sessions; turns; summaries begun | `messages`, `summaries`, `lastToolResult`; `pc`, `in`, `context`; `transcript` |
| `ChatPage` (extends `ChatMemory`) | `AiAssistantPage.tsx`, `useChatStore.ts`, `ai.api.ts`, `ai.controller.ts` | the store of each tab; localStorage; requests under way | `store`, `waiting`; `saved`; `sent`, `under`, `answers` |
| `Ingestion` | `ai/knowledge`, `uploads` | tables of documents; the Map of chunks; records of uploads; position of a request | `rows`; `memory`; `records`; `at`, `found`, `reply` |
| `Catalogue` | the API of the knowledge base | what a user sees of a document | `phase`, `asked`, `answer` |
| `Pages` | query and mutation hooks of the pages | keys of the query cache, what each change invalidates and what it changes | operators |
| `Client` (extends `Pages`) | `auth.service.ts`, `authenticate.ts`, `AuthProvider.tsx`, `lib/api.ts`, React Query | users; cookie and token; the page and its cache; requests under way | see the module |
| `Formula`, `Filters` | `compiler/formula.ts`, `filterSql.ts` | none | what each rule of the parser reads from each place; clauses with holes; next to definitions of what a formula and a filter mean |
| `QueryCompiler` | `compiler/index.ts` | none | from a query to a plan or to the first fault |
| `QueryEngine` | DuckDB, as the compiled queries use it (external) | none | joins, groups, aggregates, order, page |
| `Analytics` | `analytics.service.ts`, the chart builder of the workspace | none | one operator per call, next to what its answer should be |
| `Queries` (extends all of them) | `executeQuery`, the query studio, the handlers of analytics | a request and what it has loaded; the datasets | see the module |
| `MarketData` | `marketColumns.ts`, `marketData.service.ts` | none | operators |
| `Wizard` (extends `MarketData`) | `NewBacktestPage.tsx`, `createBacktest` up to the engine | the form; what is fetched; the request on the server | see the module |

A syntax tree of a formula and a filter tree are sequences of nodes, each before its
operands or parts, with the distance to them (`right`, `at`); `FormulaNode` and
`FilterNode` in the code are nested objects. What the code does by recursion over them is
a function of the places of the sequence, and what it asks of every node ("contains an
aggregation", "the columns of the conditions") a quantifier. The parser is the function
`Parsing` from a place to what `parseExpr`, `parseTerm`, `parseFactor` and their two loops
read from there; `Meanings`, on the other side, is a function of intervals of tokens.

`MC*` modules and `.cfg` files hold the instances. History variables (`asked`, `hasty`,
`refused`, `ledger`, `troubled`, `sorted`, `said`) are only read by properties. Definitions named
`X_Something` directly before a definition `X` are plausible errors in the code of `X`;
each property is violated when `X` is replaced by the one `PROJECT.json` names for it.

What is abstracted from the data: contents of CSV files (only whether a step fails on
them), names, queries and results, text of messages (a message has a length), amounts
in integer units, identifiers (drawn once and never again). Names of columns are atoms;
what the code does to some of them is given by constants: which have spaces around them
and what `trim` makes of these (`Spelling` in `Queries`, `Trimmed` in `MarketData`), which
are too long (`TooLong`), and which hold a quotation mark (`Quoted`). A text in a cell is a
number of two digits, its letters; the letter 9 stands for those that `escapeLike` escapes.
A value of a filter that cannot be read as what its column holds is `Junk`.

## 4. Runs

| Run | Bounds | Shows |
|---|---|---|
| `lifecycle` | two uploads, two requests, metrics put on dashboards and taken off at any time, no faults | rows, bucket, cache and temp files agree in every interleaving; the status moves forward |
| `settles` | one upload, three requests, storage and disk faults, fairness | uploads are answered, deletes stick or are refused for a widget, the handlers implement `DatasetRegistry` with its liveness |
| `faults` | one upload, three requests, every fault and crashes | what READY and an answer promise, whatever fails |
| `datamart` | two requests of any kind, one of each object, two widgets, statements that are reported as failed, fairness | references resolve, reorders are all or nothing, executions recorded as they ended, requests end |
| `gutted` | one request | disagreement of code and comment, see section 7 (the run expects a violation) |
| `backtest` | every market of up to eight bars over three quotes, four requests, three strategies | fills, sizing, profits; indicators kept step by step raise the signals of their definitions |
| `persist` | three requests on a pool of two, one dataset, faults and crashes, fairness | runs are whole and have their data, requests end and give back what they hold; the handlers implement `BacktestLedger` with its liveness |
| `chat` | two questions from a page, four turns in up to four sessions, lost answers, reloads, crashes, fairness | what a session keeps, what a summary has read, what a context holds; questions are answered; page and session agree |
| `knowledge` | two documents, two clients, every fault and crashes, fairness | accepted documents are kept and found, refused ones leave nothing; the two stores implement `Catalogue` with its liveness |
| `client` | two emails, three kinds of queries, three events beside those of the network | one account per email; the page has its session; a settled page is current |
| `queries` | over a thousand queries and as many requests for analyses, three files, one deletion | answers, totals and formulas are right; what is refused is refused for a cause |
| `wizard` | eight files of one to six rows, one deletion | bars are sound, the run is as reviewed, page and server agree |

Why the bounds are enough for what the runs ask:

* *Datasets.* Datasets share nothing but the clients, so that two are there to tell a
  client that works on one from the pipeline of the other; every race needs one upload
  and at most one deletion, a reader, and a second reader of the same cache file: three
  clients. Clients are interchangeable and reduced by symmetry in safety runs only.
* *DataMart.* `spent` bounds the run: every id is drawn by one INSERT at most, and nothing
  more is created when none is left. `Runners` are the requests that may execute an analysis:
  one, since executions share nothing but the analysis, which the other request deletes
  or changes. Two widgets are the least that two reorders can
  lock in opposite orders. `Places` are the positions a client may ask for; one is
  enough to break the order a reorder has made.
* *Backtest.* A cent is 10 units, so that the quotes 1 to 4 lie below half a cent, where
  rounding a price and a commission is the hardest; a capital of 8 cannot afford a
  share of 9; the windows are the shortest that the strategies accept, so that eight
  bars hold the warm-up, a crossing, and a crossing back.
* *Persistence.* With two connections and three requests, all connections can be held
  by requests that wait for another one, and a third can stand in the queue.
* *Chat.* Limits of 2, 3 and 4 messages stand for 6, 10 and 20, in this order. Two
  questions are four turns, since the page sends each twice: they have eight messages,
  so that a session is trimmed, also while other turns are under way, and the second
  question may go to the session of the first or to another. One answer alone exceeds
  the budget of a context. Four sessions are one for each turn, so that there is always
  an id left to draw. The run has one tab; what several tabs do to each other through
  localStorage is in the theorem `PageAndSessionAlwaysAgree`, for any number of them.
* *Knowledge.* Documents meet in nothing but the schema's first initialisation and a
  crash: two are enough, and two clients are a deletion beside a search or a second
  deletion. Every fault the code handles is on, at any statement.
* *Client.* `MaxEvents` = 3 bounds sign-ins and registrations, changes of data, loads of
  the page and faults, taken together; `MaxSignIns` and the others bound each of them.
  Queries do not influence each other, so that Init chooses one key and the run follows
  it; `FewKeys` are one of each kind: a list that hooks invalidate by a prefix, the
  detail of an object, and data that are cached for ever. Longer histories and all keys are covered by
  the proofs of all three properties.
* *Queries.* Three files of two to five rows, with nulls, ties, unmatched and doubled
  rows, and a column name that two of them share. Formulas are all of up to three tokens
  out of nine, all of four out of five, and structured longer ones. Limits, offsets and page sizes go to 4, past
  the end of every result. One deletion may hit any step of a request. `Most`, `MaxNodes` and
  `MaxFormula` stand for the limits of the schema on the lengths of lists (50, 20 and 8), of
  a group of filters (50) and of a formula (500 characters, here tokens), `MaxCorrelated` = 2
  for 12 columns of a correlation; each is exceeded by some query. Left out: median,
  stddev and variance (treated by the compiler like avg); quotients are by positive
  numbers and rounded down; correlation is compared by its covariance, and quartiles
  four times over, to stay in the integers.
* *Wizard.* The files are daily bars, intraday bars, columns that other fields take,
  flawed rows, texts, and three whose columns have spaces around their names, a quotation
  mark in them, or both spellings of a name; lists of two datasets. `Day` = 10 units; `MaxBars` = 5
  stands for 2,000,000. Parameters that need not be whole are counted in tenths (`Unit`).
  One value is typed for the parameters that take it. The form
  cannot change while a run is pending, since the request is a copy of it.

`CHECK_DEADLOCK FALSE` is in every configuration: in all of them the requests, ids or
bars are used up at the end.

### Fairness, and why the code justifies it

* `DatasetLifecycle`: weak fairness of each handler. Node goes on with a function whose
  await has settled, and every call awaited settles (a hung connection becomes an
  error). Nothing is assumed of users.
* `DataMart`: strong fairness of each request. A statement that waits for a row lock is
  enabled again and again, not always; PostgreSQL queues it, so that it gets its turn,
  and resolves deadlocks by failing one of the parties (`Rollback`).
* `BacktestPersist`: weak fairness of each request, its timers included: a request that
  waits for a connection gets one or fails after `connectionTimeoutMillis`.
* `ChatMemory` and `ChatPage`: weak fairness of each turn and each summary, none of the
  network and of the user: the router, the generator and the summariser have fallbacks for a model that fails. That a *tool* returns is an
  assumption: the `timeoutMs` of an execution graph is read nowhere.
* `Ingestion`: weak fairness of each upload and each client: statements come back or
  fail, and the embeddings and the language model time out.
* `Client`, `Queries`, `Wizard` and `BacktestEngine` are checked for safety only.

## 5. Proofs

For every value of the constants, under the assumptions named in the modules:

* `DatasetLifecycleProofs`. Types; what READY, an answer, and a served dataset promise
  under all faults; the order of statuses and the safety part of `DatasetRegistry` if no
  statement that was applied is reported as failed (`NoFalseErrors`); the object of a
  READY row without database faults and crashes (`SoundDb`), but inside a delete or after one
  that was refused because a dashboard shows a metric; orphans only by the race
  with a DELETE without storage faults, lost acknowledgements and crashes
  (`NoSilentLoss`); temp files of refused requests only, without faults of the disk and lost
  acknowledgements (`SoundTemp`). *Argument*: none of the properties is inductive, since they speak of
  the final state only. `PartsStored` says what has been stored at each step of the
  pipeline, `StageInv` which status goes with it, `ObjectKept` that the object stays
  while an upload goes well, `AbsentInv` that a row that is missing has been asked to be
  deleted, `RaceInv` what is known of an upload whose deletion read the row early,
  `TempInv` from which step on the temp file is gone. The
  refinement maps a dataset to the phase of its status; every step maps to a step of the
  registry or to none.
* `DataMartProofs`. Types; widgets and metrics never dangle; reorders leave no gaps;
  executions are logged as they ended, wherever statements fail. The last two need `LocksOrdered` (a locked row is in the list of
  the reorder that holds it, and on its dashboard) and `DrawnOnce` (an id that is used
  was drawn, so that a deleted one does not come back); `Logged` says, while an execution is
  recorded, which rows it has left so far, given the statements that are still under way.
* `BacktestProofs`. The engine, for any market, capital, rates below one half, and *any*
  strategy: rows fit the CHECKs, cash is not overdrawn, orders are filled at the next
  open, profits reconcile. The invariant `Account` relates cash, basis and realised
  profit; the lemmas on rounding and on the purchase carry the arithmetic. The three
  strategies, for any windows, periods, levels and prices: they are strategies in the
  sense of the engine (`BacktestSpec => Spec`, which carries the engine's theorems over),
  and every signal is a crossing of the averages, levels or bands as they are *defined*
  (`SignalsAlwaysCross`). For that, `BInv` says that what a strategy keeps between bars is
  what the closes so far make it: the sums of the last closes and of their squares, and
  Wilder's averages at their scale (`RollingStep`, `BandStep`, `SmoothedStep`), and that
  every signal so far was right. Later closes change none of that (`CrossingsStay`).
  That the two ways of writing the variance agree is `DeviationIsSpread`.
* `BacktestProofs`, on `BacktestPersist`. Types and the pool's limit; runs are whole and have their
  dataset; requests end cleanly; the safety part of `BacktestLedger`. The invariant says
  how much of a run is inserted at each statement, and that an open transaction holds
  its dataset, which is why a COMMIT cannot find it deleted.
* `AssistantProofs`, on `ChatMemory` and `ChatPage`. A session holds the end of what was said; what it trims was given
  to the summariser; a context holds the newest messages that fit the budget of tokens,
  for any budget and any lengths (`ContextsAreNewest`, of every step); the page implements `ChatMemory`, and page and session agree, for
  any number of tabs. *Argument*: for the first, the property itself, with "is the end
  of" stated index by index, so that it is kept by appending and by trimming; for the
  second, that a turn begins one summary, with its answer (`OneSummary`); for the third,
  that at each position the loop has spent the weight of what it has taken, and has taken
  all from there on (`SpentIsWeight`, `TakenIsNewest`). For the page
  (`PInv`): a session that is known anywhere in the browser has been introduced by the
  answer to one question that was sent without a session; that question is no longer
  awaited, and no other turn was given that session at its start; a tab that waits has
  sent its question with the session it still has. Hence an answer that brings a session
  brings the one the tab is in, or one that holds nothing but the question asked.
* `AssistantProofs`, on `Ingestion`. What is accepted is kept and found, what is refused leaves nothing,
  and the safety part of `Catalogue`, for any documents, clients and faults. The
  invariant says what each store holds at each place of an upload, and that nobody can
  delete what nobody has been told of.
* `ClientProofs`. One account per email; a page has its session; a settled page is
  current: for any addresses, keys and faults, and histories of any length. The lemma
  `HooksCoverPages` goes through all pages and hooks; the invariant follows a request
  from the account and the version it was sent with.
* `WizardProofs`. Bars are sound, page and server agree, and a run is the one that was
  reviewed, whatever the files hold, however the names of their columns are written, and for
  parameters that are not whole. The invariant says what `createBacktest` has checked
  at each await, and that fetched facts stay true as long as nothing is deleted
  (`Unchanging`). For the last, `Reviewed` says that the request is the form as long as a
  run is pending, that its dates are of its dataset, and that the server reads the columns
  the page has shown; the lemmas on `FindByAlias` and its kin say that the detection finds
  columns of the dataset, up to spaces, and a run that got past `load` has those that the
  file has (`Bound`), so that the rows have them. `WizardAssumption` says what a
  table is: rows over its columns, with integers, nulls or unreadable cells.

* `QueriesProofs`. Formulas of any length, and queries of any datasets, joins and filters.
  *The parser* (`ParserReadsMeaning`): it reads exactly the formulas that can be split at
  the operator that binds least and comes last, and so on inside, and its tree is that of
  the splits. One half goes by induction over the length of an interval (what means
  something is read, by the rule that fits it, up to its end); the other from the last
  place backwards (what a rule has read means something). Both need that the depth of
  brackets comes back to where it was behind whatever means something, and stays above
  inside (`Depth`, `Splits`). `EqualBracketsEnd`: only behind a bracket that is never
  closed does `parseFactor` call itself for ever, so that no formula with equal brackets,
  which the studio checks, overflows the stack.
  *What is compiled* (`FormulasAreRead`): `QueryInv` says that a plan is the compilation
  of the query and the loads of the request, which had no fault, and that a refusal with
  INVALID_METRIC is the first fault of that query; that its formulas mean what they stand
  for is then the theorem on the parser, and that `toSql` changes no node but
  `count_distinct`.
  *What the studio accepts* (`AcceptedAreServed`): for any datasets that nobody deletes,
  `ServedInv` says that the request has passed `validateQuery` (`Accepted`), that its
  datasets are ready, in the bucket, and loaded in order, so that the compiler sees all
  their columns, and what a refusal says of them. `StudioAccepts` says what of
  `datamartQuerySchema` is left to go wrong: the lengths of lists and texts, blank names, and
  fractions (`WithinBounds`). Then `AcceptedFault` goes through the
  compiler's faults: joins, dimensions and aggregates that `validateQuery` has looked up
  among the listed columns have none but an ambiguous name, and no sort key arrives; and `AcceptedBinds`
  through the statement: if the joins bring in, each once and in order, the datasets of
  the names, then what it names is in scope, in the filter (`ClauseColumns`, over the
  nodes of the clause that `buildFilterWhere` builds) as well; it can be run if the joins
  compare columns of one type and no condition is `Unrunnable` (`ClauseRuns`). Columns with
  spaces around their names are left out (`Padded`): the schema trims them, and what is
  refused then is another query.
  *Filters* (`ClauseMeansFilter`): for every tree, the clause that is built, its
  parameters put into the holes from left to right, is of a row what the filter is, as long
  as it looks for no text that `escapeLike` changes (`Literal`). A
  clause inside another has its own nodes and its own parameters (`Placed`), so that the
  holes before it are the parameters before it (`Tally`, `GroupParams`) and each node of
  it is of the row what it is by itself (`PartHolds`, `GroupWhere`); groups without
  conditions are left out of both.
  *Assumptions*: `ColumnsHaveTypes` (every dataset has its recorded columns and types)
  and `FormsAreLists`: fields are lists of records with the fields that the studio
  gives them, filters are trees of conditions with as many values as their operators take
  (a value that is left out is `Null` or `Junk`, a list may be empty), a dataset is chosen
  once, limit and offset are whole numbers or `Junk`. The toggle of `DataSourceSelector.tsx`
  and the fields of `QueryBuilderPage.tsx` see to that; nothing is assumed of lengths, of
  blank names, or of the types and the values of what is compared.

* `AnswerProofs`, on `QueryEngine` and `Queries`. The total of an answer is the number of
  groups asked for (`TotalsAreRight`), for any datasets, rows, joins and filters whose texts `escapeLike` leaves alone.
  *Argument*: joined table by table, the combinations of rows are those that fit all
  joins (`CombosAre`, by induction over the fold: a join adds the choices of one table
  more, and says nothing of earlier ones). A combination of places in the plan is a choice
  of rows of the datasets by name (`CombosMatch`, both ways: the placing of datasets is a
  bijection on those that are joined), so that a clause keeps a combination if and only if
  the filter keeps the row (`KeptSame`, from `ClauseMeansFilter` and `WhereReads`: a
  clause reads the columns it names and no other), and two combinations fall into one
  group if and only if their rows have the same dimensions (`KeySame`). Hence there are as
  many classes of the one as groups of the other (`GroupsCount`), also without
  dimensions, where aggregates make one group of no rows. `AnswerCounts` is the
  arithmetic of the page: a page that is not full ends with the last group, whatever
  limit and offset are clamped to, and otherwise the count statement is run. `TotalInv`,
  on top of `QueryInv` and `ServedInv`, carries this to the answer: with no deletion the
  loads are those of all datasets, in order, and what is held back between the two
  statements is the plan of the whole query.

Types are proved for every component but `Queries`, where `IsQuery` and the parts of
`QueryInv` take their place, and checked by no run of their own.

Loops over data (windows, budgets of tokens, columns) are recursive functions. Their
proofs by induction take the least index at which the claim fails (`WFMin` of
`WellFoundedInduction`; `RoundInduction`, `PositionInduction`; `Induction` of
`QueriesProofs`, whose claim is the set of numbers of which it is true), since the library's
induction theorems have an operator as a parameter, which the provers cannot instantiate.

Only model-checked:

* liveness, which is out of the prover's reach: `RequestsSettle`, `RequestsEnd`,
  `QuestionsAreAnswered`, and the liveness of the three refinements;
* `AnswerIsRight`, for the values in the cells of an answer and their order (of its
  groups, see `TotalsAreRight`), and `AnalysisIsRight`: that aggregates and statistics
  taken row by row come to what the definitions by quantifiers say. Each of these is an
  induction over the rows, of a statement with folds on one side and cardinalities and
  choices on the other; the provers have no theory of the folds.

## 6. Limits

* *Not modelled*: see the components of `PROJECT.json`. The job queue has no user but a
  status page. Prompts, wording and charts of answers, email, the adapters of the tools,
  the metrics of a backtest (real numbers, no state); of the analytics `getFullStatistics`, which fails on every dataset with a
  numeric column, `getComparison`, and the counts of the dashboard. Most of the frontend
  is layout: of its pages the models have what they ask for, when, and what they keep.
* *DuckDB* (`QueryEngine`) is modelled by the SQL the code writes for it: types are
  numbers, texts and days. It refuses a join of two types, a value that it cannot cast, and
  `IN` with an empty list; that it would join two numeric types, of which the models have
  one, is left out, and so are text operands in arithmetic. The empty text is `Null` as a
  number (`Number('')` is 0) and where a text is looked for, `Junk` as a day.
* *Schemas of requests*: what the query studio and the wizard may send and a schema refuses
  or trims is in the models; of the workspace only the trims are, its limits on
  lengths are left out; rate limits and other bodies are left out. Types of columns
  are not trimmed, since none has a space at its ends.
* *Ids* are unique. `toValidUuid` of the vector store makes a row's id of a hash of
  31 bits; two files whose hashes collide would share a row.
* *Queries of a page* are followed one key at a time; what one query does to another
  goes through the server only.
* *Doubles* are taken as exact, and prices as whole multiples of the millionth that
  `roundTo` keeps. `PnlAddsUp` allows the half cent per sale that rounding costs.
* *One user.* Ownership is checked by every statement of the repositories and does not
  interact with the rest.
* *Timestamps* of chat messages grow; a clock that is set back would reorder a context.
* *Faults of `DataMart`*: any of its statements may be reported as failed (`Fail`,
  `Rejected`), but those of the deletion of a dataset: one that is cut short is in
  `DatasetLifecycle`. Crashes are left out: PostgreSQL undoes the one transaction that may
  be open, and an execution that is cut short leaves no record.

## 7. Where code and comments disagree

The run `gutted` must find this one: deleting a dataset one of whose metrics is on a
dashboard removes its file and then fails; the dataset stays READY (the dialog says
"permanently delete", `DeleteDatasetDialog.tsx:45`). For the same reason
deleting an analysis or a metric that a widget shows always fails.

Met on the way, in the models as the code has them, without a run of their own:

* an upload whose dataset is deleted meanwhile is answered with 500 (`Apologise` in
  `DatasetRegistry`);
* multer's temp file stays when a request is refused after it was written, or when the
  INSERT fails (`TempOutlivesRefusalOnly` says: only then);
* a READY dataset may have lost its object for good without any fault: by a DELETE that
  was refused because of a widget, as above (`ReadyHasObject` says: otherwise only while a
  DELETE is under way; `DeleteSettles` leaves out datasets that are shown on a dashboard);
* `ReadyHasObject` and `OrphanOnlyByRace` hold without faults: with storage faults or
  lost acknowledgements an object may be lost or left (the catch block knows no key, and
  `storageService.delete` swallows errors);
* `reorderWidgets` accepts a list that names a widget twice, although its message asks
  for exactly the widgets of the dashboard;
* `executeAnalysis` records a run again, as FAILED, if the `touch` beside the first record
  fails, and may record none (`datamart.service.ts:303-327`; `ExecutionLogged` says: only if
  a statement of the record was reported as failed);
* `createBacktest` may answer an error for a run that is saved, or null if it has been
  deleted already: it reads the summary back after COMMIT, inside the same `try`, over a
  second connection while it still holds the first;
* cash may be below zero by less than half a cent if prices are below half a cent
  (`backtestEngine.ts:147`; `RowsFitSchema` leaves such orders out);
* the Bollinger strategy compares the previous close with the *current* band;
* the "previous" tool result of a chat context is the turn's own, since it is saved
  before the context is built; the latest summary is the last to arrive, not the one of
  the newest messages;
* sessions never expire: nothing calls `clearExpiredSessions`;
* a DELETE that overtakes a running upload leaves the object in the bucket, although
  `dataset.service.ts:134-138` says that none is ever left behind (`OrphanOnlyByRace`:
  only then);
* the failure of a very long column name cannot be recorded, since the message exceeds
  the CHECK on it, and the row stays VALIDATING (`dataset.service.ts:62-63`);
* `existsSync` is taken for "the copy is complete" (`storage.service.ts:49-53`);
* from the tenth message on, every turn begins another summary (`memory.manager.ts:96`;
  `memory.constants.ts:12` speaks of new messages).

Knowledge base:

* deleting a document by its id in the list of rows leaves its chunks in the Map, where
  they are still found (`knowledge.vectorstore.ts:375`).

Queries and analytics:

* the studio and the explorer send values of filters as they are typed, at each keystroke in
  the explorer: one that is no day, for a column of days, makes the statement fail
  (`filterSql.ts:117`), and so does `IN` with an empty list; the explorer answers
  INTERNAL_ERROR (`AnalysisIsRight` says: only then, if nothing is deleted);
* `escapeLike` puts backslashes before `%`, `_` and the backslash, but no statement has an
  ESCAPE, which DuckDB wants for that (`filterSql.ts:75-82`, `analytics.service.ts:1553`):
  texts with these letters are not found (the properties leave them out by `Literal`);
* the studio lets pass, and the server refuses: joins on columns of two types, values that
  cannot be cast, a filter whose column is still blank (`FiltersSection.tsx:93`), a metric
  without a name or with one that is too long, lists that are too long, fractions as limit or
  offset (`AcceptedIsServed` lists the causes);
* schemas trim the names of columns, which are stored as the file has them: a column with a
  space at an end cannot be asked for;
* a query with an offset past the end has a wrong total, and is called truncated
  (`datamart.service.ts:161-164`; `TotalIsRight` says: only then, or if the count fails);
* the studio's sort is lost: it is sent as "sorts" and read as "sort"
  (`QueryBuilderPage.tsx:355`, `queryBuilder.ts:102`);
* `count_distinct` inside a formula counts without DISTINCT; a formula that ends in an
  opening bracket overflows the stack; `sum(*)` is accepted and fails when run;
* a dataset that is not joined, or joined twice, passes the compiler and fails when run;
  a sort by an output name that occurs twice takes the last;
* a search of the explorer that is restricted to columns none of which exists is
  ignored; a sort column is checked only after the count statement; aggregates of no
  value are shown as 0; the trend of the insights divides by the last value; the text of
  the summary says 100/100 whenever nothing is missing;
* `getComparison` keeps one map of types for both datasets
  (`datamart.service.ts:663-674`), so that a column of both is read with the type of the
  second.

Accounts and pages:

* a late 401 of an old request clears a fresh token (`lib/api.ts:40`); an answer of
  `/auth/me` that overtakes a sign-in shows the user of before
  (`AuthProvider.tsx:34`): the two cases `PageHasItsSession` leaves out;
* a first fetch that is in flight is not repeated by an invalidation, and the cache is
  not cleared by a sign-out: a page may show data of before, even of another account;
* a registration whose answer is lost is refused when repeated.

Wizard and market data:

* the stepper leads to any step without validation; a cleared parameter becomes 0, and
  the server's refusal highlights no field;
* the end of the range is midnight, so that intraday bars of the last day are dropped;
* a price column without a known name may be one that is the alias of a later field;
* compatibility is cached for ever, also when the dataset is gone;
* columns are detected by their trimmed names (`marketColumns.ts:101-104`): a dataset whose
  file has " open" is compatible, and its range and its run fail with INTERNAL_ERROR; so do
  those of a closing price whose name has a quotation mark, which `marketData.service.ts:204`
  does not double;
* a name of more than 200 characters is refused after the last step (`GatesAgree` lists
  these causes, with a capital that is too large, the parameters, and the rows).

Page of the assistant:

* every question is run twice: GET /ai/stream executes the whole chat for its stages,
  and is not cancelled when the page drops it; the session stores two questions and two
  answers, and the first question makes two sessions, of which one is never used again;
* an answer that comes after a reload is in the session and not on the page;
* two tabs overwrite each other's saved conversation.
