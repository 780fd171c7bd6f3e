# Worth it? — the API in TLA+

Specifications, model checks and proofs for the NestJS API in `src/`: a user
saves things they consider buying, gets a regret-risk score, decides, and logs
in from several devices. The code keeps its state in PostgreSQL through Prisma
and the counters of its rate limiter in Redis, so what is hard about it is not
any one handler but several of them at once over the same rows, in several
replicas.

## The system

| Component | State | Operations | Interacts with |
|---|---|---|---|
| Authentication (`modules/auth`) | `refresh_tokens`, `users.email`, `users.passwordHash` | signup, login, refresh (rotation, replay detection), logout | shares `TokenService.revokeAllForUser` with users |
| User accounts (`modules/users`) | `users` | getProfile, updateProfile, changePassword, deleteAccount | ends sessions; the delete cascades to everything |
| Item lifecycle (`modules/items`) | `items` | create, list, findOne, update, updateStatus, remove | create is also called by screenshot capture |
| Screenshot capture (`items/screenshot.service.ts`, `modules/ai`, `storage`) | objects in R2 | upload, extract with timeout and one retry, auto-create | OpenAI, R2, items |
| Item listing (`ItemsService.list`) | the client's cursor | one page per call | reads items |
| Regret scores (`modules/scoring`) | `regret_scores` | scoreItem, getScore | reads items, users, category statistics |
| Scoring engine (`scoring.engine.ts`) | none | computeRegretScore, pauseHoursForPrice, parsing of stored breakdowns | called by scores |
| Health (`modules/health`) | none | two concurrent probes | PostgreSQL, Redis |
| Rate limiting and guards (`app.module.ts`, `app.setup.ts`) | counters and block marks in Redis | count a call, check its token | every route |
| Error mapping (`all-exceptions.filter.ts`, `screenshot-upload.ts`) | none | the status of an error | every route |
| Start and end of a replica (`main.ts`, `config`, `prisma`, `redis`) | two connections | validate the environment, connect, listen, close | PostgreSQL, Redis |

`pauses`, `purchase_ratings` and `category_regret_stats` are tables no code
writes yet. An access token is a signed claim and is not looked up
(`jwt.strategy.ts:23-35`), so it outlives its session and its user for up to 15
minutes.

Hard behaviours, and what makes each component correct:

- **Sessions.** Handlers run concurrently and await between statements; only
  refresh and changePassword use a transaction, at READ COMMITTED. Correct
  means: a session never has two redeemable tokens; a rotation chain can be
  followed; a replay and a password change end what they promise to end, in the
  same commit as the password; nobody else's session ends; no token outlives
  its user; nothing waits for ever although a refresh and a delete can
  deadlock.
- **Items.** Each by-id operation reads the status, checks it, and then writes
  by id alone. Correct means: statuses move along `STATUS_TRANSITIONS`, final
  ones stay, history is kept, only the owner's requests change an item.
- **Scores.** Four statements without a transaction (the item, its owner's
  budget, the statistics, the upsert), while the item, the budget and other
  scores of it change. Correct means: no score without its item; none but from
  details the item showed while it was undecided and a budget its owner had
  then or later; the score of a decided item stays, but for a scoring the
  decision overtook; a row is one computation's own, whatever it replaced.
- **Listing.** A page is one statement; the items change between pages, the row
  the cursor names among them. Correct means: nothing is shown twice, and what
  is there from beginning to end is shown.
- **Scoring engine.** Inclusive bands, rounding, a cap, a zero budget, ages in
  the future. Correct means: the factors add up to the score, the verdict is
  its band's, dearer is never safer and older never riskier.
- **Capture.** Two external services, a timeout whose call is not cancelled, a
  retry, three steps of which any can fail, several captures at once. Correct
  means: an item shows the image it was read from, its row is one the confirm
  path could have written, a hung provider holds nobody up.
- **The API.** Replicas with limits of their own start, stop and crash while
  they count in one Redis, which may refuse or hang or count a call whose reply
  is then lost, and which the health check watches as well. An upload waits for
  the object storage without a time limit. Each route declares its statuses in
  one place and throws its errors in another. Correct means: a client's budget
  holds across replicas and is nobody else's; a status means the same on every
  route; the health check says what was so.

The hazards in `PROJECT.json` list these one by one, at their lines.

## Modules

| Module | What it is |
|---|---|
| `TokenRotation` | abstract: a session opens, moves from its one token to a fresh one, ends for good |
| `Sessions` | accounts, refresh tokens and the requests of auth and users; implements `TokenRotation` |
| `SessionsProofs` | its theorems |
| `Items` | the item lifecycle |
| `ItemsProofs` | its theorems |
| `ScoringEngine` | the engine and its tables, as operators in exact integer arithmetic |
| `ScoringEngineProofs` | its theorems |
| `ItemScores` | scoring, composed with `Items` and with the engine: every step of `Items` is a step of it, with the score cascade added |
| `ItemScoresProofs` | its theorems, on top of those of `ItemsProofs` and `ScoringEngineProofs` |
| `ScreenshotCapture` | `POST /items/from-screenshot`, composed with `Items`: a capture is a client of `Create` |
| `ScreenshotCaptureProofs` | its theorems, on top of those of `ItemsProofs` |
| `ItemPaging` | a client's walk through `GET /items`, page by page, while the items change |
| `ItemPagingProofs` | its theorems |
| `ApiRoutes` | all nineteen routes: what the controllers declare, what the services throw, what the filters make of it |
| `Api` | replicas, rate limiter, guards, health check; a call from its arrival to its answer |
| `ApiProofs` | its theorems |
| `MCSessions`, `MCItems`, `MCItemScores`, `MCScreenshotCapture`, `MCItemPaging`, `MCApi` | instances for TLC |

### How the modules correspond to the code

`Sessions`, `Items` and what is composed with it share one construction. A
**request slot** stands for a handler that is being served; its record holds
the step it has reached (`pc` or `op`) and the locals it carries across its
awaits. A handler is one action per database statement, so other requests act
in between. A statement that would wait for a row lock is not enabled. Locks
are derived from where the requests are, not stored: in `Sessions` a refresh
between its two statements holds its token's row, a password change holds the
user's row from its update to its commit, a delete from its lock to the end of
its cascade. What a transaction wrote is not visible until it commits; the step
that commits publishes it. A request that is refused changes nothing. Any
running request may fail (`Abort`, `AbandonScore`, `AbandonCapture`): a dead
process, a lost connection, a failed statement, Prisma's five-second
transaction limit; what it had not committed is gone.

*Sessions.* `Login`/`IssueTokens` are `login` cut at its await; `Refresh`,
`ClaimToken`, `CommitRotation` are the lookup and the two statements of
`refresh`; `StartReplayRevocation`/`FinishReplayRevocation` and
`StartPasswordRevocation`/`CommitPassword` are the one `updateMany` of
`revokeAllForUser` in its two uses: the rows it picks when it starts, and the
rows it has revoked when the last lock it waited for is free. `UpdatePassword`,
`LockForDelete`, `CascadeDelete` are the other writing statements. `Signup` and
`Logout` are single statements. A token's hash is the token (SHA-256 of 256
random bits), a password hash is the password. `family`, `secret` and `known`
are history: the login a chain began with, the password it verified, and the
tokens that were live when a request was first served.

*Items.* `Update`, `UpdateStatus`, `Remove` are `requireOwnedItem` and the
check; `WriteDetails`, `WriteStatus`, `DeleteRow` the write, which is the last
statement of its transaction and therefore one step with the commit. A write
that finds no row is Prisma's P2025, a 404. `Details` stands for the fields a
client may correct; `None` in an update is a field left out of the body.
`PAUSED` is in the table and, as the source says, nothing produces it.

*ScoringEngine.* A point is `Point(budget)` units, the least denominator all
factors share, so a weight is exact where the code adds doubles: a sum the
doubles would put on the other side of a half is out of the model. `FirstFit`
is the `bands.find(...) ?? lastOf(bands)` behind verdicts, pauses and recency.
Labels are names, not sentences. Amounts are cents, ages whole hours (negative
for the future), regret rates percents, which may exceed 100 as the engine's
tests have it.

*ItemScores.* The `findFirst` of a scoring asks for the item and, nested, for
its owner's budget. Without `relationJoins`, which `schema.prisma` does not
enable, Prisma sends two SELECTs for it, and no transaction is around them:
`ScoreItem` is the first, `ReadBudget` the second, and anything may happen
between them. The status that is checked is the one the first has read.
`Compute` is the answer of the statistics and then the engine, which runs
without an await, `Upsert` the `INSERT ... ON CONFLICT`. `UpdateProfile`
changes the budget. `Pass` moves the clock, which counts hours. A row keeps, as
history, the `basis` that was read and the engine's whole `input`. `offered` is
history too: for each item the pairs of details it showed while undecided and a
budget its owner had then or later. A pair need not have been true at any one
moment: an edit that falls between the SELECTs leaves the older details with
the newer budget, and this the code may score. The statistics are rows nothing
in the code writes yet, so any row may be there at any time.

*ScreenshotCapture.* `Upload` is the answered `PutObject`; `Extract`,
`TimeOut`, `ProviderError` and an unreadable `AnswerArrives` are turns of the
provider's loop, all through `NextAttempt`, which asks again or gives up; a
readable answer leads, without another await, to a draft or to `CreateItem`,
which is `Create` of `Items`. A call that timed out stays in `calls` until the
model answers it (`LateAnswer`). `Details` is here what `CreateItemDto`
accepts, `Confirmable`: texts are lengths after trimming, a price is in cents,
and in tenths of a cent in an answer, so that rounding can be seen; at a tie
the binary fraction decides, and the model takes both. Category, currency, sale
language and phrases matter only for whether an answer is readable and
complete. `picture` holds a row's image, and, as history, which image the model
was shown for it and whether it was sure.

*ItemPaging.* A page is one statement and so one step, `list`; the client's
cursor is all that lives from one page to the next. `FromCursor` is what Prisma
selects for a cursor: it reads the sort key of the row with that id, whatever
else became of the row, and takes the matching rows that are not before it;
`AfterSkip` drops the first of them, which is the cursor's own row as long as
that row matches. Rows change in `Appear`, `Change` and `Disappear`, which
allow more than `Items` does: any value may follow any other, so nothing shown
here rests on the item lifecycle. `Filtered` says whether the walk asks for a
status or a category, so that rows can leave it without being deleted.

*Api.* A call is sent to a replica, which reads its body and may already answer
an error there (`BodyErrors`); then it passes `stages`, the order in which the
guards are provided: the limiter, the token, then interceptors, pipes and
handler. `RunScript` is the limiter's one script in Redis: it increments the
counter of its key, and sets the block mark of a key that has gone over its
limit; both expire on their own (`WindowEnds`, `BlockEnds`). A key is a route
and the address `ReqIp` takes, one trusted hop from the socket. `Counted` is a
script whose reply arrives. In `ReplyLost` the script has run and the
connection breaks before the reply is read: `redis.module.ts:35-38` leaves the
client library at its defaults, which send an unanswered command again after a
reconnect, so that the call is counted once more, or give up after some
attempts. `redis` is Redis as its clients reach it: "down" lasts until they
have reconnected, and all replicas have one weather. With Redis down the
limiter's error is a 500, with Redis hung the call waits.

`Handler` picks one of the outcomes `ApiRoutes` allows: a refusal of what was
sent, a success, an error its service may throw with the status the filters
give it, or the failure of the database. `createFromScreenshot` first waits for
the object storage (`StorageAnswers`, which nothing bounds), and only then has
an outcome (`Extracted`); a draft it may answer without the database. `Check`,
`DbProbe`, `RedisProbe`, `Report` are the health check; the Redis probe is
raced with a timer, the database probe is not. The timer can win while Redis
does not answer, which includes a client that is still reconnecting; that a
PING which would be answered takes longer than the timer is left out. `Boot`
validates the environment and needs both connections; `Drain` is SIGTERM, after
which the connection to Redis is closed while calls are still taken, and `Stop`
waits for the calls in flight. Prisma reconnects by itself. `Weather` is what
Redis and PostgreSQL do; Redis is assumed to keep its counters through an
outage.

`saw` is history: what was so at some time during a call, recorded by `Looking`
when it begins to look and by `Witness` whenever the world changes. So are
`admitted`, the calls of a client on a route that were let pass in the window,
and `ran`, the scripts that ran for them in the window or, when the window has
ended, while the block that it left lasts. Routes without throttling drop the
client, which nothing then looks at.

## What is checked

| Run | Instance | States | Shows |
|---|---|---|---|
| `sessions` | 1 user, 3 tokens, 2 passwords, 2 requests | 201,740 | one live token per session, the chain, no orphans, replay and password change kill every token they knew of, a session that has ended stays ended, the refinement |
| `sessions_accounts` | 2 users, 3 spellings of 2 addresses, 2 tokens, 2 requests | about 170,000 | one account per address |
| `sessions_live` | 1 user, 2 tokens, 2 requests, fair | about 82,000 | every request is answered or fails; it waits for row locks only, and among those there is one deadlock |
| `sessions_password`, `sessions_replay` | 1 user | violation | see below |
| `items` | 2 users, 2 items, 2 details, 3 requests | 25,895 | the lifecycle under stale reads |
| `items_history` | 1 user, 1 item, 2 requests | violation | see below |
| `scores` | 1 item, 2 details, 2 budgets, 2 hours, 1 + 2 requests | 412,164 | scores follow their items, come from details shown while undecided and a budget of then or later, stay with a decided item unless overtaken, explain themselves, and do not rise with age |
| `capture` | 2 users, 2 items, 2 captures, 2 images, every limit 1, 385 answers, fair | 42,231 | no answer reaches another capture, rows are confirmable, one item per image, no capture waits for the model, every capture ends |
| `paging` | 3 items, 2 with one discovery time, 2 prices, all orders, pages of 1 and 2 | 87,633 | a walk repeats nothing and, marker permitting, skips nothing; by discovery time every page moves it forward |
| `paging_markers` | 4 items, default order, pages of 2 | violation | see below |
| `api` | 2 replicas, 2 clients, 2 calls, 4 routes, 4 environments, limits of 1, 1 lost reply per call | 660,359 | budgets hold across replicas and hit nobody else, statuses mean what they say, the health check is truthful, and only a dependency that hangs holds a call up, for a health check not even Redis |

**Bounds.** `Tokens` bounds how many tokens are ever minted (`TokensLeft` lets
a request start only while one is left for it, so none is stuck for want of
one); three allow a login, a rotation and a second login or rotation, which is
what a replay of an old token during a rotation needs. Two requests suffice for
every race of the properties checked: each is about a request and whatever one
other does between its statements, and finished slots are reused, so a run is a
sequence of arbitrarily many requests, two at a time. `items` takes three,
since one stale write can prepare the ground for another. In `scores` the two
prices and the two budgets, with a regret rate of 240 %, put totals on both
sides of a band's bound, half a point beside it and beyond the cap; the lower
bands and a category with too few samples are left to the theorems about the
engine. Two `Hours`, 0 and 2, reach the first two recency buckets, on either
side of a bound, and let a score be replaced by an older and by a newer one;
one item suffices, since a score and everything it is made of belong to one
item. There is one item request beside the scorings, so no decided item is
corrected late there: that is `items`, and the theorems, which have both. In
`capture` an answer's texts are missing, blank, at the limit or one over it,
and its price is on and beside both bounds before and after rounding; limits of
1 lose nothing, since only comparisons with them matter. A key is used once, so
two images are two captures, at once or in turn. `Requests` is empty there:
item requests have their own run, and the theorems below cover both together.
`IdsLeft` keeps an item id for every capture under way. In `paging` three items
make up to three pages with a marker between each two, ties in either sort
column, and a row before, on and behind every marker. In `api` one call uses up
a client's budget and the second is one too many, at the same replica or the
other, before or after a crash, for the same client or not; so is a call whose
first reply was lost (`Resends`). The four routes have the three budgets there
are; one waits for the object storage, three need a token, one neither a token
nor a database. One environment boots, with a limit of 1, so that both budgets
are tight, and three are refused; replicas whose limits differ, and the default
of 100, are left to the theorem. `CredentialLimit` is 5 in the code. The
theorems below hold without any of these bounds, those about the API for all
nineteen routes. Symmetry is used for interchangeable model values, and not in
the liveness runs. `CHECK_DEADLOCK FALSE` is set where the bounded ids and the
clock run out, in the runs of items, scores and captures; the other runs check
for deadlock.

**Fairness.** Each request, capture and call has a condition of its own,
`Served`, and `FairSpec` is their conjunction. In `Sessions`: strong fairness
of `Proceed(r)`: the event loop resumes a handler when its query returns, and
PostgreSQL queues the waiters of a row lock, so a statement that is enabled
again and again runs. Weak fairness of `AbortDeadlocked(r)`, one condition per
request: whoever waits runs PostgreSQL's detector after `deadlock_timeout`.
Nothing makes a client send a request, a token expire or a request fail; in
particular `RequestsFinish` does not rest on `Abort`. In `ScreenshotCapture`:
weak fairness of `Proceed(c)`, because timers fire, and the image library and
the database answer; nothing makes the model answer, and `CapturesEnd` holds
without it. The upload itself has no timeout in the code and is not covered: a
capture begins in the model when it has been answered. In `Api`: weak fairness
of `Serve(c)`, since a replica that runs gets on with the calls it has. Nothing
makes a client send, a replica start, a dependency recover or the object
storage answer.

That a step is fair is of use only where it is possible. Three invariants of
the runs say when it is: `WaitsOnlyForLocks`, `NeverWaitsForTheModel` and
`OnlyOutagesHoldUp`. They are worth having by themselves: a handler whose guard
overlooks what another request may have committed meanwhile is stuck, and they
fail.

**Disagreements with the documentation** (each a run that finds a
counterexample):

1. *A session outlives a password change* (`users.service.ts:74-76`): a login
   that verified the old password inserts its token after the sweep.
2. *A session outlives a replay* (`auth.controller.ts:63-64`): a refresh in
   flight commits a replacement that the sweep did not see. What does hold, and
   is proved, is `KnownTokensDie`: every token live when the replay was
   detected is dead when it is answered.
3. *A purchased item is deleted* (`items.controller.ts:223-224`).
4. *A walk ends early* (`item-page.dto.ts:6-7`): the item the cursor names is
   deleted, the next page is empty and says it is the last. What does hold, and
   is proved, is `NothingSteadyIsSkipped`: a walk whose markers stay in place
   is complete.

Met on the way, without a run:

- "SKIPPED and RETURNED are final" (`items.controller.ts:199-200`): two status
  changes read WISHLIST, both are allowed, and the second overwrites the first.
  It is the interleaving of 3 again; what does hold, and is proved, is
  `LegalUnlessOvertaken`.
- "PURCHASED / SKIPPED / RETURNED already have an outcome; their score is
  history, not something to recompute" (`scoring.config.ts:60-64`): a scoring
  that read the item while it was undecided stores its row after the decision,
  for the upsert asks no status. What does hold, and is proved, is
  `HistoryUnlessOvertaken`.
- "Counters live in Redis so limits hold across replicas" (`app.module.ts:38`):
  they do, but a reply of Redis that is lost after its script has run counts a
  call twice, so a client may be refused one call early for each.
  `RefusedOnlyForOwnFlood` says how far that goes.
- The score that is stored is the one whose upsert came last, which need not be
  the most recently computed one that `scoring.controller.ts:55` speaks of.
- `updateProfile` accepts an explicit `null` for columns that cannot hold one
  and answers 500, the very case `is-optional-not-null.decorator.ts:6-13`
  describes: `UpdateProfileDto` uses `@IsOptional`.
- A user deleted while an access token is still valid makes `POST /items` a 500
  (the foreign key fails), not a 404.
- `changePassword` and `deleteAccount` may answer 404, which
  `users.controller.ts:70-75` and `88-93` do not list; 400 and 429 are listed
  on some of the routes that give them and not on others.
- An interactive transaction that Prisma ends for its time limits (P2028), a
  NUL character in a text of `POST` or `PATCH /items`, and an owner who is gone
  between the SELECTs of a scoring are a 500 as well; `KnownLeaks` lists every
  such error with its route.
- A JSON body beyond 9 MB is a 500: the error of the body parser is no
  `HttpException` (`all-exceptions.filter.ts:66-87`), while
  `app.setup.ts:22-24` speaks of a generic 413 from it.
- Neither the database probe of the health check nor the upload to the object
  storage has a time limit.

Every property of a passing run is shown to be breakable: the module defines,
before the operator it would replace, a faulty variant marked `fault:` (a
dropped `revokedAt` condition, a missing `userId`, a write of the whole row
that was read, a missing cascade, a missing timeout, a missing skip, counters
kept per process, guards the other way round), and the property fails with it.

## What is proved

All with TLAPS, for every number of users, tokens, items, requests, details,
replicas and calls. Assumptions: `CanonicalAssumption` (canonicalising twice
changes nothing), `NoneAssumption` (`None` is not an id); for scores
`HoursAssumption`, `PriceAssumption`, `BudgetsAssumption`, `ClaimsAssumption`,
`StatsAssumption` (hours, prices, budgets and statistics are numbers, prices
and budgets positive, as validation leaves them); for captures
`LimitsAssumption`, `ImagesAssumption`, `AnswersAssumption` (the limits are
numbers, `None` is no image, answers are answers) and `DetailsAssumption` (item
details are what `CreateItemDto` accepts); for listing, `ItemsAssumption` (ids,
finitely many, and discovery times are numbers), `PricesAssumption` and
`QueriesAssumption`; for the API `RoutesAssumption`, `LimitAssumption`,
`ResendsAssumption`, `EnvironmentsAssumption` and `AddressAssumption` (the
routes are among the nineteen, limits and repetitions are numbers, the proxy is
not a client).

- `SessionsProofs`: `IndInvHolds`, `TypeCorrect`, `OneLiveToken`,
  `ChainTraceable`, `NoOrphanToken`, `KnownTokensDead`, `AddressesAreUnique`,
  `SweepsStayAtHome`, `PasswordEndsSessions`, `RefinesRotation`,
  `SessionsEndForGood`, `DeadlocksAreKnown`, `RotationsDoFinish`,
  `RequestsDoFinish`, `TwoRequestsFinish`.
- `ItemsProofs`: `ItemsIndInvHolds`, `ItemsTypeCorrect`,
  `ReturnsFollowPurchases`, `DecisionsAreKept`, `OwnersWrite`, `MovesAreLegal`.
- `ScoringEngineProofs`: `ScoresAndVerdicts`, `FactorsExplainTheScore`,
  `DearerNeverScoresLower`, `LargerBudgetNeverScoresHigher`,
  `WarningsNeverLowerTheScore`, `OlderNeverScoresHigher`,
  `DearerNeverPausesShorter`.
- `ItemScoresProofs`: `ScoringRefinesItems`, `ScoresIndInvHolds`,
  `ScoresTypeCorrect`, `NoOrphanScore`, `ScoresAreOfOffers`,
  `OnlyOvertakenScoringsRewrite`, `StoredRowsExplainThemselves`,
  `WaitingIsNeverPunished`.
- `ScreenshotCaptureProofs`: `CaptureIndInvHolds`, `CapturesRefineItems`,
  `CaptureTypeCorrect`, `ItemsAreOfTheirImages`, `ImagesAreNotShared`,
  `RowsStayConfirmable`, `CapturesDoEnd`.
- `ItemPagingProofs`: `PagingIndInvHolds`, `NoItemTwice`, `NoItemMissed`,
  `PagesAreFull`, `WalksDoAdvance`.
- `ApiProofs`: `ApiIndInvHolds`, `ApiTypeCorrect`, `BudgetsDoHold`,
  `RefusalsAreEarned`, `FloodsCostNothing`, `UnauthorizedIsTheToken`,
  `OnlyOutagesFail`, `HealthIsTruthful`, `CallsAreShort`, `CallsDoEnd`,
  `HealthChecksEnd`.

*The argument for sessions.* `OneLiveTokenPerSession` is not inductive: that a
rotation leaves one live token needs the claimed row to be live still when the
rotation commits, which needs the row lock to be exclusive (`LocksHold`), which
needs a request's locals to describe rows that really exist (`WellFormed`,
`LocalsAgree`), and that the new row joins the family of its predecessor
(`RowsAgree`). `IndInv` is their conjunction. The proof first computes what
each action does field by field (*effect* lemmas), then classifies what any
step can do to any one token (`TokenStep`): nothing, mint it, revoke it,
replace it, expire it, delete it with its owner. Every property follows from
that classification, and the refinement maps minting by a login to `Open`, a
committed rotation to `Rotate`, and everything else to `End` or a stutter. That
a session ends for good (`SessionsEndForGood`) is then proved of
`TokenRotation` and carried over. Three theorems need a little more. That an
address is one account's needs what is stored to be canonical
(`AddressesAgree`); that a sweep stays at home needs the rows it picked to be
those of the user it is for (`TargetsAgree`); that password and sessions change
together follows from the one step that publishes both, once it is known that
nothing else writes a password hash of an account that exists (`AccountStep`).

*Items.* The invariant ties a request's locals to the row as it is now: the
owner that was read is still the owner, a move was allowed from the status that
was read, and a purchase that was read has happened. Two classification lemmas
(`StepShapes` for rows, `RequestShapes` for requests) then give every property.

*Engine.* Everything rests on what first fit finds in a table of four bands
(`FirstFitOfFour`) and on the rounding being the nearest whole number; the
order theorems then go factor by factor, and rounding and capping keep an
order. Two budgets mean two units of a point, so there the sums are compared
crosswise (`RoundedInProportion`).

*Scores.* The composition refines `Items` (`ScoringRefinesItems`), so its
invariant may be used. A scoring that has found its item carries details the
item showed while undecided (`Carries`); its owner's budget of any later time
is offered with those (`OffersRecorded`), so what the second SELECT returns
completes a pair that is offered, and what was offered only grows. That a
scoring which rewrites the score of a decided item was overtaken follows from
the status it carries. A stored row is what the engine makes
of the input it records (`IsComputed`), so the theorems about the engine are
about rows.

*Captures.* That an item shows its own image needs the image of a running
capture to be stored under its user and to be nobody else's (`CaptureAgrees`).
Every step of a capture has one of five shapes (`CaptureShapes`), each of which
preserves the invariant; the composition refines `Items`, which gives
`RowsAreConfirmable` from the items' type invariant and from what
`canAutoCreate` lets through (`AutoCreatedIsConfirmable`).

*Listing.* The two promises are not inductive: in the middle of a walk one has
to know that the marker divides what is left alone into what has been shown and
what has not (`MarkerDivides`). It does because the ordering is total
(`AheadIsTotal`), because a page is a beginning of the rows its statement
selects (`PageIsABeginning`), and because those rows are what lies behind the
marker: never more (`RowsAreBehind`), and all of it while the marker's row is
in place (`AllBehindAreRows`). The size of a page is counting: the number of
rows before a row is a one-to-one ranking of the rows (`RowsAreRanked`), so as
many are kept as were asked for, and exactly one of them is the last. A page of
a walk by discovery time lies behind everything shown before, so that its rows
all add to what was shown (`WalksDoAdvance`).

*API.* `BudgetsHold` needs the counter to bound what was let pass, and every
call that was let pass to have met some replica's limit;
`RefusedOnlyForOwnFlood` needs every block mark to have been earned by the
client it blocks: `Counters` orders `admitted`, `hits` and `ran` of a key and
remembers whose limit a mark was over; `Configured` says that a replica that
runs has a limit that boots. That the statuses and the health check tell the
truth is a statement about one call's row and the world it is in, `Sound`: what
it has found so far it has also seen, and what it is in now is among what it
has seen. `AllSound` holds of the calls one by one, and each step either
changes one call or lets all of them look.

*What ends.* The prover has temporal logic but cannot look into `ENABLED`, so
these theorems have the form `FairSpec /\ []Possible => Liveness`, where
`Possible` is the invariant about `ENABLED` that a run checks.

For a capture (`CapturesDoEnd`), a turn of the loop asks once more or ends, and
attempts are bounded. For a call (`CallsDoEnd`, `HealthChecksEnd`), the
distance from its end is at most six and only sinks (`CallsAreShort`); a step
that is possible for good is taken, and what makes it impossible is the outage
the theorem excepts. A call that comes to wait for the object storage is an end
by name: the theorem says nothing about how long that lasts.

For requests, the one that holds a row lock is itself about to end: it commits
next, or waits for a row whose holder does, or is in the one deadlock there is
(`HoldersEnd`, `LoginsEnd`). So a row that is locked comes free again and again
(`TokenFreed`, `UserFreed`), whoever takes it next, and strong fairness gives
it to a waiter: `RotationsDoFinish`, for any number of requests. A statement
that revokes all of a user's tokens waits in the model for all its rows to be
free at once, and with three requests or more two refreshes could take turns at
keeping one of two rows locked. PostgreSQL takes the rows one after the other
and keeps what it has, which the model leaves out; `RequestsDoFinish` therefore
has the hypothesis `SweepsGetTheirRows`: that a statement which takes its rows
one by one gets them all is an induction over the number of rows, which the
provers do not offer. With two requests there is only one other to wait for and
no such hypothesis: `TwoRequestsFinish`, which is what the run shows. That the
deadlock of a refresh and a delete is the only one (`DeadlocksAreKnown`) holds
for every number of requests: among those under way one that waits for nobody
is found by going from a waiter to what it waits for, which takes two steps at
most.

Only model-checked, not proved: `WaitsOnlyForLocks`, `NeverWaitsForTheModel`
and `OnlyOutagesHoldUp`, the three predicates about `ENABLED`; they are
hypotheses of the theorems above. The inductive invariants are proved and no
run repeats them. `OnlyOwnSessionsEnd`, which comes down to the `userId` of one
statement, `RotationsFinish`, `CallsEnd` and `HealthIsReported` are proved and
in no run: the run of the API uses symmetry, which liveness does not allow.

## What is not modelled

- Hashing, signing and random numbers: a hash is its input, a random value is a
  fresh id.
- Validation of bodies, beyond the limits auto-create has to respect and the
  fact that it may refuse; models take inputs that pass it.
- The prompt, image processing, cost logging and the parsing of a multipart
  body; what the body parser reads, though not that it may answer 400
  (malformed JSON) or 500 (anything else) before the guards; paths that are no
  route.
- Reads that change nothing (`getProfile`, `findOne`, `getScore`, `session`),
  beyond their statuses in `ApiRoutes`; with `getScore`, the parsing of a
  stored breakdown (`parseStoredFactorBreakdown`).
- Of `updateProfile`, the columns other than the budget, which nothing reads.
- What a handler does and what the API does to its call are two models:
  `Api` lets a handler end in any of its outcomes, whatever is in the database.
- Logging, dependency injection, Swagger, and the queue connection, which no
  queue uses yet.
- READ COMMITTED is modelled at the level of rows: a statement sees what is
  committed when it starts, and checks its condition again on a row it had to
  wait for. A statement takes all its row locks in one step. So a sweep never
  deadlocks with another sweep of the same user, nor with the cascade of the
  user's deletion, which take the same rows in an order of their own;
  PostgreSQL would break either as it breaks the deadlock that is modelled, and
  `ApiRoutes` lists the error it leaves (P2034) on the routes concerned.
- `OneItemPerImage` is about items that were created from an image by the
  service itself; an item the user confirms from a draft is an ordinary
  `Create`, and may name any stored key.

## What could come next

1. `getScore` and `parseStoredFactorBreakdown`: a breakdown that is written and
   read back under a later version of the engine's tables.
2. A run of `Api` with more routes and three calls, should a faster instance be
   found; the theorems already cover them.
3. Revoke-all taking its row locks one after the other, in the runs: TLC could
   then check `RequestsFinish` with three requests and no `SweepsGetTheirRows`.
4. The pauses, ratings and category statistics, as soon as code writes them.
