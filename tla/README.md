# Verification of the Facebook content module

TLA+ models, TLC configurations and TLAPS proofs for
`mdp-module-facebook-content`: a Go backend (HTTP API, background workers,
PostgreSQL), a Node sidecar that drives a browser, and a React plugin.
Paths below are relative to the repository; `internal/` stands for
`src/backend/internal/`.

## The system

### Components

| component | state it keeps | operations | why it is hard |
|---|---|---|---|
| Scheduled posts: `service/worker.go`, `service/scheduler.go`, `service/publisher.go` | rows of `scheduled_posts` and `post_history` | schedule, cancel, publish now, publish, the worker's tick | several servers share the rows, publish-now does not claim, a Graph call may be repeated, shutdown does not wait for the worker |
| Graph client: `fb/graph_client.go` | none | one HTTP call with retries | lost answers, order of the error checks, backoff, cancellation |
| OpenAI client: `ai/openai.go` | none | the same loop | as above |
| Circuit breaker: `service/ai_protection.go` | state, failures, probe slots (per process) | Allow, RecordResult | results arrive in another state than the one that admitted the call; callers that do not report |
| Comment monitor: `service/comment_monitor.go`, `service/comment_worker.go` | rows of `comments` and `comment_replies` | sweep, like by hand | overlapping sweeps of several servers, a claim with a time limit, three actions of which each may fail |
| Repost campaigns: `service/repost.go`, `service/repost_v2.go` | `repost_campaigns`, `repost_jobs` | create, run, edit jobs, delete | a run is an HTTP request of many minutes over a snapshot; nothing keeps two apart |
| Inbox and webhook: `service/inbox.go`, `service/webhook.go` | `conversations`, `messages`, `webhook_events` | deliveries, sync, send, mark read | redelivery, check-then-create, errors answered with 200 |
| AI responder: `service/ai_responder.go` | rate-limiter windows, the breaker | reply to a message | concurrent reply goroutines per conversation, gates in sequence |
| Content queue: `service/queue.go` | `content_queue` | approve, reject, publish, regenerate, delete | no operation looks at the status |
| Pages: `service/pages.go` | `pages` | add, update, toggle, delete, test | check-then-create, read-then-update |
| Facebook accounts and login: `tabs/RepostTab.tsx`, `handlers/repost.go`, `sidecar/src/account-login.js` | `fb_accounts`, login sessions, browsers | add, poll, cancel, delete | row and session are written by two programs, a background flow and a cancel write one session |
| Planning of reposts: `handlers/repost.go`, `service/repost_v2.go`, `service/crawler.go`, `sidecar/src/sort-filter.js` | `fb_groups`, `crawled_posts`, the jobs' times and flags | crawl, resolve, plan, reschedule, set flags | edits that write more columns than were asked for; a plan of which some jobs fail; the same filter in two programs |
| Tokens: `secure/encrypt.go` | none; the key of the running server | Encrypt, Decrypt | texts from before the key, and from under another key |
| Sidecar manager: `sidecar/manager.go`, `cmd/server/main.go:44-177` | a child process | EnsureRunning, cleanup | start races, ends that skip the cleanup |

The worker, the comment worker and the HTTP handlers run concurrently in every
server process and interact through PostgreSQL only; webhook deliveries start a
reply goroutine, which passes the rate limiter and the breaker and calls
OpenAI; workers and handlers call Facebook through the Graph client, and
repost runs call the sidecar over HTTP.

Where the modelled parts meet:

- **workers ↔ requests**: rows of `scheduled_posts`; the status column is the
  only lock. A worker claims a row by an `UPDATE ... WHERE status =
  'SCHEDULED'`; publish-now does not claim.
- **sweeps ↔ sweeps**: rows of `comments`; `claim_comment` sets `claimed_at`
  unless it is younger than five minutes.
- **runs ↔ edits**: rows of `repost_jobs`; a run reads the pending ones once
  and then writes verdicts by id.
- **deliveries ↔ sync ↔ users**: rows of `conversations` and `messages`; the
  unique index on page and customer and the primary key of a message.
- **pages ↔ queue ↔ users**: rows of `pages`; a request that read one early
  writes or uses it late. A deleted page leaves its items without one.
- **plan ↔ tables ↔ queue view**: a plan inserts its jobs one by one while
  accounts and campaigns are deleted; the view sends back what it showed.
- **servers ↔ sidecar**: the port; who has it answers every server's check.
- **reply goroutines**: the breaker and the limiter of their process.
- **plugin ↔ backend ↔ sidecar**: a login session lives in the sidecar's
  memory; the backend keeps the account's row, the plugin polls the session.

## Modules

| module | models | state | actions |
|---|---|---|---|
| `GraphReplies` | what a Graph or OpenAI call can come to, and when the clients give up (`fb/graph_client.go:366-426`, `ai/openai.go:111-125`) | none | operators only |
| `RetryLoop` | one call of `doWithRetry` | attempt, backoff, time waited, what Facebook did | Call, Reply, Wake, Cancel, Abort |
| `PostLifecycle` | the promise about a scheduled post: claimed once, delivered only when claimed, the verdict final | status, claimed, delivered | abstract |
| `ScheduledPosts` | `worker.go`, `scheduler.go`, `publisher.go`, the SQL of `queries/scheduler.sql`, shutdown in `cmd/server/main.go` | rows, pages, history, one process per worker and per request | ListDue, Claim, ClaimFails, GetPage, Post, Record, MarkPublished, MarkFailed; PublishImmediate, ReadRow, PublishNow; Schedule, Cancel, TogglePage, DeletePage, Crash, Shutdown, Tick |
| `CircuitBreaker` | `ai_protection.go:64-181` and its callers in `ai_responder.go` | state, failures, probe slots, age of the last failure | Allow, the reports of a caller, early returns, Tick |
| `CommentMonitor` | `comment_monitor.go`, `comment_worker.go`, `claim_comment` | the marks and claim of each comment, one process per sweep | a step per database or Graph call |
| `RepostCampaign` | `repost.go:48-225`, `repost_v2.go:39-160` | campaign, jobs, one process per run | Create, InsertJob, Begin ... Close, Abandon, UpdateJob, DeleteCampaign |
| `Inbox` | `webhook.go:67-182`, `inbox.go:31-189`, mark-read | page, conversations, unread counts, messages, event rows, one process per delivery, the sync | a step per database call; Deliver, Stop, MarkRead |
| `AIReplies` | `MaybeReply` (`ai_responder.go:50-200`), `SendMessage`, the limiter (`ai_protection.go:12-62`), the start of the goroutines (`webhook.go:164-179`) | AI switch, latest message and turns of each conversation, the limiter's times, one process per goroutine, and the state of `CircuitBreaker` | Message, Redelivery; Load, CountTurns, Ask, List, SwitchOff, CallAI, Send; ToggleAI, Tick |
| `AccountLogin` | `RepostTab.tsx:270-337`, `handlers/repost.go:208-286`, `sidecar.go:318-379`, `account-login.js` | the button and its polls, the request and the row, the session with its flow, browser and cancel | AddAccount, Leave, Poll, GiveUp; InsertRow, StartLogin, Created, RollBack, DeleteAccount, Crash; Launch, OpenPage, Watch, TimeOut, CloseBrowser, Fail, Cancel, Cancelled, Restart; LogIn, BrowserCloses |
| `Pages` | `pages.go`, `ai_personas.go` (handlers, services, repositories), `secure/encrypt.go` | rows of pages and personas, the key, each client's list and request | List, Add, CreatePage, Update, Find, Apply, TestConnection, ReadForTouch, TouchLastActive, GiveUp; CreateAIPersona, DeleteAIPersona; DeletePage, Restart |
| `ContentQueue` | `queue.go`, `publisher.go`, and `Pages` | items, one request per publisher, history rows | Enqueue, Approve, Reject, DeleteItem; RegenerateContent, Rewrite; PublishNow, LookUpPage, Post, Record, MarkPublished, GiveUpTask; DropPage, RestartServer |
| `Crawl` | `crawler.go:29-82`, `sort-filter.js`, `parseUntilDate`, `CrawlPageV2` | none | operators, and their reference `Answers` |
| `RepostPlanning` | `repost.go:48-110`, `repost_v2.go:30-170`, the account, group, crawl and job requests of `handlers/repost.go` | accounts, groups, campaigns, jobs, crawled posts, each client's request and queue view, the clock | AddAccount, DeleteAccount, CreateGroup, DeleteGroup; CrawlPage, StorePost; PlanRepost, CreateCampaign, InsertCampaign, ListAccounts, ListActiveGroups, InsertJob, AnswerPlan, GiveUp, DeleteCampaign; ListQueue, RescheduleJob, SetJobFlags, Tick |
| `SidecarManager` | `sidecar/manager.go`, its use in `cmd/server/main.go` | the servers of a host, the processes they spawn, the port | Start, Adopt, NotFound, Spawn, Ready, WaitTooLong, Serve, Shutdown, Exit; Listen, Break |

`ScheduledPosts`, `CommentMonitor` and `RetryLoop` extend `GraphReplies`, so
that a call of the Graph client has the same outcomes everywhere:
`RetryLoop` opens the loop up, the others take it as one step per attempt
(`ScheduledPosts`) or one step per call (`CommentMonitor`). `ScheduledPosts`
instantiates `PostLifecycle` and implements it; `AIReplies` extends
`CircuitBreaker` and takes its steps as parts of its own. `ContentQueue`
extends `Pages`, which has the requests about pages but no specification of its
own; `RepostPlanning` extends `Crawl`. `RepostPlanning` and `RepostCampaign`
share the table of jobs: the first has where jobs come from, and their time and
flags; the second their status and what a run does. `MC*` modules hold the
constants of the runs, `*Proofs` modules the theorems: `AIRepliesProofs` also
those about `CircuitBreaker` and `RetryLoop`, `AccountLoginProofs` those about
`SidecarManager`, `RepostPlanningProofs` those about `Crawl`. So that they can
share a module with others, the specifications of these are called
`BreakerSpec`, `CallSpec` and `HostSpec`.

How code becomes steps: a database statement is one step, since PostgreSQL
executes it atomically; everything a handler does between two statements, or
between a statement and a Graph call, belongs to the step of the first. A
statement of `db/queries` is an operator of its own, named as there
(`GetComment`, `UpdatePagePersona`), which the action of the handler uses. Local
variables that later steps read (a snapshot, a row read before a check) are
state of the process. Marks of the history ("history:" in the comments of the
VARIABLES) have no counterpart in the code and guard no action.

Operators called *breakage* in the comments change one definition the way a
plausible slip in the code would; they show that the properties notice it.

### What the models leave out

- A failed database call has not been applied. `Inbox` is the exception: there
  `db.Retry` repeats calls, and the lost answer of an applied one matters.
- A call that fails because the client of its request went away is a failed
  call (`DbFault`, `Abandon`, `Stop`); a server that goes down is up again at
  once, with new processes.
- Time is a counter in `ScheduledPosts`, and an age that stops growing in
  `CircuitBreaker` and `CommentMonitor`.
- The contents of posts, messages, comments and prompts; what the intent
  classifier says is a constant of `CommentMonitor`. Accounts and groups enter
  `RepostCampaign` as the answers of the checks; schedule and flags of a job
  are left out because a run does not look at them before it posts. What the
  sidecar reports of a post says nothing about whether it is there: `Post`
  allows every combination of the two.
- `CommentMonitor` and `Inbox` do not switch or delete pages; an `Inbox`
  delivery carries one entry.
- `AIReplies`: a window is the number of its entries of at most each age, in
  place of their times; an entry leaves it when it is too old, not when the
  code next prunes. The id of a page's row and Facebook's id of the
  page never agree (one is a UUID, the other a number), an assumption of the
  module. Reading the page stays in the step that reads the conversation: its
  error is dropped, and pages do not change here. Analyses for the comment
  monitor, which use OpenAI but neither limiter nor breaker, are left out.
- `AccountLogin`: an account is added once, under a profile path of its own
  (the plugin takes the time for a name). Cancels come from outside: the
  sidecar has the route, but neither backend nor plugin calls it. A relaunch
  of a login has a backend route without a caller in the plugin, although the
  plugin's message speaks of a button for it (`RepostTab.tsx:327`).
- `ContentQueue`: the requests are those the plugin sends. Facebook's side of a
  post is one step, since `RetryLoop` has the repetitions. The times
  `updated_at` and `last_active_at`, names, and the counts of followers are
  left out; the persona's columns of a page are one value. The text of a
  persona is not modelled, so neither is its update.
- `RepostPlanning`: a click on a flag sends the time of the view, or none:
  the handler accepts both, and the plugin sends none when it does not find the
  job in its list. Left out are the captions, and the status of jobs and campaigns; all
  groups are active and all accounts too, since nothing in the backend makes
  them otherwise. Scraping is a constant: the posts in the order the page
  shows them, each once.
- `SidecarManager`: a start waits for one health check after the other; here it
  ends with an answer or with `StartTimeout`. Servers of other hosts have
  sidecars of their own.

## Runs

Bounds are in the `.cfg` of the run's name. Every run passes.

| run | question | bounds and why they are enough |
|---|---|---|
| `graph_call` | Does a call stay in its attempts and waits, apply its request twice only after a lost reply, and end? | the loop itself with 4 retries, one more than the default of 3; every reply at every attempt |
| `sched_race` | Do two workers on two servers, a publish request and the user keep one row's history right? | one row: rows meet only in the batch; two workers and a request are every pair of processes; one fault and one crash can hit at any step |
| `sched_live` | Do the workers implement `PostLifecycle`, and does every due row move on? | two rows and a batch of one, so that one can stand in the other's way; two servers; a fault, a crash and a shutdown |
| `breaker` | Does the breaker open on failures in a row only, stay quiet, and settle? | thresholds of 2, 1 and 1 with 4 callers: a success can come between two failures, results can come late, and more callers probe than there are slots |
| `monitor` | Do overlapping sweeps act once per claim, mark truly, and get everything done? | one comment, as sweeps meet in one row; a worker and a request; a fault, a stop and a like by hand |
| `repost` | Do verdicts follow the sidecar's reports, and are overlapping runs, edits and deletion harmless? Does the campaign settle? | two jobs, for order and snapshot; two runs; every combination of post and report |
| `inbox` | Are messages counted once, shown as unread, and lost only for a cause and on record? | an entry of two messages of one customer, one more delivery of it, two deliveries at a time, a sync, a mark-read, one fault |
| `ai` | Is a customer who asks for a human heard, whatever goroutines overlap, and does each page keep its limit? | two conversations of one page, which share its limit, and one of another, since the limiter's key is at stake; two goroutines, two messages, either of which may not be stored, a redelivery, a toggle, a fault; a limit of two in a window of two ticks, so that entries age out one by one |
| `pages` | Is each field of a page what was last asked for, its token readable, its switch obeyed, and each post of the queue accounted for? | one page of Facebook with two rows, so that two requests can add it at once and one can add it again later; two tokens, of which one is base64 by chance; a key, set or taken away once; a persona; two values of the persona's columns; two clients and two publishers on one item; three requests and a fault: a lost update takes a reader, a writer and one to add the page |
| `planning` | Are jobs what plans and edits asked for, is no item of a plan lost, and does a crawl answer the newest posts? | three posts of which one is undated, shown in three orders (newest first, an older one first, an undated one first); a date that ends between two of them, and a limit of two; two accounts, a group, one campaign of two jobs; two clients; two edits of jobs, so that one can be of a view older than the other; a clock of three moments, with times for plans, edits and no time at all; three other requests and a fault: a plan of two items, a deletion in its midst and one more |
| `sidecar` | Has every process of the sidecar somebody to end it, and does a server keep the sidecar it found? | three servers, one without autostart; three processes, two starts each: two can spawn at a time and a third adopt |
| `login` | Is a success true, are browsers and rows cleaned up, and does everything end? | one account, as accounts share nothing but crashes; two polls, so that one can come before the end and one after; two faults, two cancels, a restart |

Deadlock is checked in the runs of `RetryLoop`, `CircuitBreaker`,
`CommentMonitor` and `AIReplies`, where something can always happen; in the
others (`ScheduledPosts`, `RepostCampaign`, `Inbox`, `AccountLogin`,
`ContentQueue`, `RepostPlanning`, `SidecarManager`) the bounded events run out
and the system rests.

`TypeOK` of most modules, and `ClaimedOnce`, `CancelBeatsWorkers`, `OneAtATime`
and `RefusedIsFinal`, are stated and not among the invariants of a run: the
theorems listed for them cover every instance, and the runs are kept for what
is harder to see.

### Disagreements met

Places where the code does otherwise than it, its comments or its documents
say. The properties named show how far it still does what it should.

- `MaybeReply` returns between `Allow` and `RecordResult` when the message list
  fails, the last message is an AI reply or a stop signal is found
  (`ai_responder.go:88`). In half-open such a return takes a slot for good, and
  with all slots taken the breaker refuses every call until the process is
  restarted. `HalfOpenIsSettled` has to except it.
- Two first messages of a customer both find no conversation and both create
  one (`inbox.go:146`); the loser's unique violation ends its entry, with a
  200. `LossesHaveACause` counts it among the causes.
- `conversations.page_id` holds the id of the page's row; `SendMessage` looks
  it up among Facebook's ids (`inbox.go:209`), finds nothing and returns. Every
  reply is paid for and dropped; only messages sent in some other way get out.
  The same lookup fails when a message or a reply to a comment is sent by hand
  (`handlers/comments.go:83,123`). It also makes the limiter's key the same for
  all pages, although the limits are "per-page" and the windows kept by page
  (`ai_protection.go:10-11,16,44`): the pages of a server share one page's
  limit. That no page gets more than its limit holds all the same
  (`PagesKeepTheirLimit`); that each could use it up does not.
- The breaker's half-open state is to admit "max probes in half-open (1)"
  (`ai_protection.go:84`). The call that opens it half takes no slot
  (107-111), so one more than `halfOpenMax` calls can be on their way.
- An inbound message that cannot be stored is only logged, and its reply
  goroutine starts (`inbox.go:183-188`, `webhook.go:160-178`): it looks at the
  message before, and a stop signal in the lost one is never heard.
  `StopIsHeard` speaks of the signals that were stored.
- `reset-ai` writes `reset_at`, which nothing reads: the turns that count
  towards the limit are all there ever were (`queries/messages.sql:31-34`).
- Publish-now reads the row, finds it SCHEDULED and posts without a claim. A
  cancel in between succeeds, which "not found or already started"
  (`handlers/scheduler.go:86`) would rule out, and the post still appears.
  `CancelBeatsWorkers` holds: the workers are not to blame.
- Each sweep upserts a comment with `processed = false` before it skips "if
  already processed" (`comment_monitor.go:76`): once its claim has expired it
  is analysed, liked and answered again. The upsert is also what makes
  retries work: without the reset (`KeepProcessed`) an action that failed is
  never repeated, and `WantedActionsHappen` breaks.
- A failed repost job that is edited goes back to pending "so the scheduler
  picks them up again" (`repo/repost.go:246-247`); there is no scheduler, and
  `RunCampaign` refuses a campaign that has ended.
- The shutdown comment promises to drain the worker
  (`cmd/server/main.go:171`) while a row in hand is left PUBLISHING
  (`ClaimedRowsGetAVerdict` excepts it).
- Changing a repost job's flags with an empty schedule, "unknown, skip update",
  deletes the schedule (`handlers/repost.go:638-650`); the plugin sends one when
  it has no schedule at hand (`useRepostQueue.ts:69`).
- A click on one flag "preserves the existing schedule" (`useRepostQueue.ts:19`)
  of the view, not of the job, and sends the other flag along as the view shows
  it (`RepostQueueView.tsx:108,116`): both undo what somebody else has changed
  since. `JobsAsAsked` has to except it.
- The sidecar reports a post when no dialog is to be seen three seconds after
  the click, or when the page has a word like "posted" on it
  (`publisher.js:165-171,236-240`); the backend then marks the job completed
  (`repost.go:192-205`). `VerdictsFollowReports` is about the report.
- A reschedule sets both flags of a job to false; the comment behind it says
  first that they "are NOT touched" and then that they are
  (`repost_v2.go:125-132`). `JobsAsAsked` has to except it.
- A crawl's date is documented as a lower bound, "từ ngày đã chọn trở đi"
  (from the chosen day on, `handlers/repost.go:470`) and "empty = no lower
  bound" (476); the code drops what is newer than the day. Without a date the
  answer is not "the top `limit` newest posts" (468) but the first that the
  browser gathered, in that order.
- The sidecar stops scrolling when it has `limit` posts, also when a date asks
  for older ones: then the filter may leave nothing.
- Every crawl stores its posts anew, whether or not they are there.
- `CreateGroup` from the plugin carries no status, which the table's check
  refuses; only groups added by URL come to be. The plugin's table of groups
  sends its assignment to a route that does not exist.
- The job statements for a dispatcher (`GetDue`, `ExpireOverdue` and others of
  `repo/repost.go`) have no caller; planned posts wait for a run by hand.
- `PublishNow` "re-fetches" an item because it "may have been picked up"
  (`queue.go:42-44`) and never looks at its status: items that are rejected
  ("No further actions", `queue.go:37`) or already published are posted.
- `touchLastActive` reads a page and writes it back for the sake of a time that
  the statement does not write: all it can do is undo somebody's change.
- The migration of tokens to encryption is not "graceful"
  (`encrypt.go:66-68`) for a token that is valid base64: it is read as empty,
  and the next write of its row stores that. `TokensReadable` excepts it.
- The plugin's form for a page sends no `id`, without which the handler refuses
  every change; its switch sends the whole page as the list shows it, and
  sets three switches by one (`tabs/PagesTab.tsx:135-156`).
- A sidecar whose server ended by `os.Exit` is found by the next server, which
  uses it and does not own it. A server that adopts another's sidecar loses it
  when the other shuts down, and nobody starts a new one
  (`SidecarStays`, `StraysHaveACause`).
- `_runLoginFlow` "awaits a successful login" (`account-login.js:18`) but
  passes over a login page that does not load, and takes the empty or error
  page, whose address is none of the login pages, for a login. `SuccessIsTrue`
  has to except it.
- A cancelled session whose browser is still being launched is reported
  cancelled, and the browser opens all the same ("closes the visible browser
  early", `account-login.js:23`); the flow then overwrites the status.
- `MaybeReply` says its message id is "used for idempotency"
  (`ai_responder.go:47`) and does not use it.

### Fairness

- A worker's goroutine goes on and its ticker fires: `WF(WorkerStep(w))`,
  `WF` of a worker's sweep. Nothing is assumed of requests that publish,
  run a campaign, or like by hand, except that one that has begun goes on
  (`RunStep`, `Handle`, `Finish`): Go schedules every goroutine, Graph and
  OpenAI calls have client timeouts, the sidecar has its own.
- `Inbox`: Facebook delivers an entry again until it is answered (the
  repetition that `009_webhook.up.sql:2-3` speaks of).
- `AccountLogin`: the request's handler, the polls and the flow go on. Their
  calls have timeouts, the polls are counted, and the flow gives up after ten
  minutes. `AIReplies` assumes none: its properties speak of what has
  happened.
- No fairness for users, crashes, faults or the clock, except the clock of
  `CommentMonitor`, where a claim has to expire. `CircuitBreaker` assumes only
  that an admitted call ends: OpenAI's client gives up after 30 s.

`SlowSweeps = FALSE` in `CommentMonitor`: a sweep is done with a comment
before its claim of five minutes expires. At most three Graph calls of three
attempts of 15 s and two waits lie between claim and finish, about 140 s.

## Proofs

Every invariant and every action property that a run checks, and the
refinement, is also a theorem. All theorems hold for every value of the
constants that satisfies the module's named assumption: any number of rows,
workers, servers, callers, comments, jobs, runs, messages, deliveries, pages,
clients, and any bounds on faults. Where a module names the statements of the
database, its proofs expand the names everywhere (`USE DEF` at the top of the
proof module).

What the assumptions say of the constants, beyond types: `None` and `Gone` are
not rows; the tables of accounts and groups are finite, so that a campaign has
finitely many items; a plan has an item (`repost_v2.go:48` refuses an empty
one); a page is looked up by a local id, which is no page's Facebook id
(`AIReplies`); a browser gathers each post once (`scraper.js` keeps the
permalinks it has seen).

- `ScheduledPostsProofs`: `TypeInv` (types, and a process at work has a row),
  then `ClaimInv`: a claim takes a row out of SCHEDULED, nothing puts it back,
  and the worker on a row is the one that claimed it. `ClaimedOnce` alone is
  not inductive, since it does not say that a claimed row cannot be claimable.
  `FeedInv` and `HistoryInv` follow a row from the post to its mark.
  `WorkersKeepTheLifecycle` is the refinement of `PostLifecycle`, under
  `Callers = {}`, since a publish-now posts without a claim: with `HeldInv` (a worker's row stays PUBLISHING, or is
  deleted) every step maps to one of the row's life or to a stutter.
- `CommentMonitorProofs`: `ClaimInv` (who acts holds an unexpired claim, and
  what is still ahead has not been asked for under it) assumes
  `~SlowSweeps`; `MarkInv` has no assumption.
- `RepostCampaignProofs`: `RunInv` says whose hands a job is in (`HandsApart`,
  `HandsOpen`), and that a job which has been posted or reported is completed,
  deleted, or with the one run that is about to mark it (`SentKnown`).
  `VerdictsFollowReports` and `PostedTwiceOnlyIf` rest on it; neither is
  inductive by itself.
- `InboxProofs`: `CountInv` (at most one delivery works on a message that is
  not excused, and it has not counted before `Bump`), `SeenInv` (from the
  count on something shows as unread), `LossInv` (what a delivery has left
  behind is stored or excused).
- `AIRepliesProofs`:
  - `HeardInv` follows a goroutine that carries a stop signal: on its way the
    latest message is still the signal, so it never reaches OpenAI, and when
    it is done the AI is off.
  - `WindowsInv`: at each age, what a page has got through is at most what the
    window of its key holds, whatever the key. At the oldest age alone, which
    is what `PagesKeepTheirLimit` says, this is not inductive: a tick drops that
    age and moves the one before into its place.
  - `BreakerInv` relates the age of the last failure to the time since
    opening. `AnswersUseTheBreaker` shows that every
    behaviour of `AIReplies` is one of `CircuitBreaker` (without its fairness),
    and `RepliesAreProtected` what follows for the breaker the replies share.
  - `LoopInv` ties a call's backoff and time waited to the attempt; from it
    the bounds, the sum of the waits, and that a request takes effect twice
    only after a lost reply. `GivingUpOn4xxIsEnough`: a client that gives up
    on all of 4xx never repeats a refused request (OpenAI's does, Graph's does
    not).
- `AccountLoginProofs`: `TrueInv` leads a reported success back to a page that
  was none of the login pages; `BrowserInv` adds that before its launch an
  account has no browser; `RowInv` says of each stage of the request what it
  has written. None of the three properties is inductive without them. The
  last part is about `SidecarManager`: whose hands a running process is in at
  each step of a server's start, and that a found one is not the finder's to
  end.
- `ContentQueueProofs`: `PagesInv` is about copies of a page: its row, the one
  in a client's list and the one a request has read all agree with what was
  asked for, except in fields that were changed behind the copy (`AsAsked`). A
  request writes its copy into the row, so `FieldsAsAsked`, which speaks of
  rows, needs the claim for all of them. The token of a copy opens to the one
  asked for unless its row is doubtful: `Sealed` shows that `Decrypt` undoes
  `Encrypt`. `QueueInv`: the posts of an item are in the history, about to be
  written there by one of finitely many requests, or noted as cut; and a
  request that looked its page up after its switch went off has seen that,
  unless an older copy undid it.
- `RepostPlanningProofs`: `PlanningInv` says of a request in the middle of a
  plan that each item before the one it is at has its job or a cause;
  `MissingJobsHaveACause`, which speaks of answered plans only, follows when
  the last item has had its turn. `Later` collects what any step may do to
  accounts, campaigns and jobs (a row that is gone stays gone, a job goes only
  by a cascade), and `CauseStays` proves once that a cause outlives it. For
  `JobsAsAsked`: each field of a view is the one asked for, unless it was asked
  for again since (`behind`) or written over (`undone`).
  `CrawlAnswers` is about operators alone: any posts can be put in the order
  of the crawl (`CanBeSorted`, with the least counterexample in place of an
  induction), the answer of one cut is right (`CutAnswers`), and the second
  cut changes nothing.

Only model-checked:

- liveness (`EveryCallEnds`, `DueRowsLeaveTheQueue`, `ClaimedRowsGetAVerdict`,
  `HalfOpenIsSettled`, `WantedActionsHappen`, `CampaignSettles`,
  `MessagesArrive`, `AddingEnds`, `SessionsEnd`): the prover reaches neither
  liveness under fairness nor `ENABLED`.

## Not modelled

- Configuration row (`service/config.go`): one row, read and written whole. A
  save with a blank secret erases the one that is stored.
- EcoHome prompt, prompts, hashtags, intent patterns: texts.
- Analytics, videos, the content of personas: single statements or fixed
  answers.
- Kling, the group poster and the scrapers of the sidecar: clicks and waits in
  a browser on sites that the repository does not define. Their outcomes enter
  the modules as any that the callers can see.
- Browser profiles shared by two calls: what two browsers on one directory do
  to each other is outside the repository.
- Router, middleware, environment, telemetry: wiring and counters.
- Seed data, scripts and test helpers.

## Plan

1. (done) Graph client, scheduled posts, breaker, comment monitor, repost
   campaigns, inbox, AI replies, account logins: modules, runs, proofs of
   their safety.
2. (done) `Pages` and `ContentQueue`, `Crawl` and `RepostPlanning`,
   `SidecarManager`: modules and runs.
3. (done) Proofs of all invariants of the runs: `SidecarManager`,
   `ContentQueue` with `Pages`, `RepostPlanning` with `Crawl`, and the limiter
   of `AIReplies`.
4. Proofs of action properties that the modules could state beside their
   invariants: what a claim, a mark and a verdict may never take back.
5. The configuration row beside the pages' tokens, under one key.
