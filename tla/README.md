# Formal models of notification_server

notification_server registers users by an OTP sent by mail, keeps their sessions, takes
requests for a personalised story, answers at once, generates the story in the background,
and notifies the user by email. This directory holds TLA+
models of it, TLC runs that check them on small instances, and TLAPS proofs for every
instance.

## 1. Inventory

| component | source (under `src/internal/`) | state | operations | what makes it correct |
|---|---|---|---|---|
| Story scheduling service | `usecase/story_service.go` | rows in PostgreSQL | `ScheduleStoryGeneration`: three writes in a row | a request either has no effect on the queue or puts one job on it |
| Task streams | `infrastructure/repository/redis/redis_job_queue.go` | per kind of job: stream, consumer group with its pending list, retry sorted set, dead-letter stream, all in Redis | `Add`, `Read`, `Ack`, `Delete`, `ScheduleRetry`, `ReEnqueue` | a job leaves one place only when it is in another |
| Worker pools (story, email) | `infrastructure/queue/streams_consumers.go`, `usecase/story_executer.go`, `usecase/email_executer.go`, `usecase/job_completion.go` | the message a goroutine handles and where it is | `Run`: `Read`, `Execute`, then `OnSuccess`, or `SendToDQL` and `OnFailure` | no job lost, no premature mail, retries bounded |
| Retry schedulers | `infrastructure/queue/scheduler_consumer.go` | the batch in hand | `Run`: every 2 s `ReEnqueue` | a retry happens, and only once |
| Story repository | `infrastructure/repository/postgres/user_postgres.go`, `src/migrations/` | rows of `users`, `stories`, `story_jobs`, `email_jobs` | inserts, updates, cascading delete | the statuses say what happened |
| Backoff | `infrastructure/utils/backoff.go` | none | `CalculateBackoffDelay` | the delay is positive and at most 5 min |
| Registration and verification | `usecase/user_service.go`, `infrastructure/repository/redis/redis_otp.go` | staging and verification rows, OTP hash and its counter in Redis | `RegisterUser`, `VerifyUser` | only who knows the OTP becomes a user, a limited number of tries |
| Sessions | `usecase/user_service.go`, `infrastructure/security/jwt_auth.go`, `infrastructure/repository/postgres/user_postgres.go` | refresh token rows | `AuthenticateUser`, `RefreshJwtToken`, `DeleteUser` | a refresh replaces one token by one, and no race locks a user out |
| Rate limiter | `adapters/http/middleware/rate_limiter.go`, `middleware.go` | a bucket per client address in Redis | `AllowRequest` (a Lua script) | no more than the bucket and the time allow, and refused requests put nobody off |
| Start and shutdown | `application/app.go` with the `Start`, `Cancel`, `Wait` of the pools | goroutines | `Run` | no job is lost and nothing cut off by it, and the process ends |
| Handlers, other middleware, DTOs, other security primitives, AI client, mailer, configuration, logging, domain types | `adapters/`, `infrastructure/security`, `ai`, `notification`, `configs`, `observability`, `domain` | none of their own | | |

The components interact through Redis and PostgreSQL. The HTTP handler puts a job
on the story stream; a story worker puts it on the email stream; a failing worker puts it
into the sorted set of its stage; a scheduler puts it back on the stream. No component
waits for another, but for `App.Run`, which at the end waits for the requests and for the
workers. The rate limiter runs before the handlers and shares nothing with them.

What is hard: every worker and scheduler runs concurrently with all others and with the
HTTP handlers; each handler is a chain of Redis and PostgreSQL calls, any of which can
fail after it took effect or be the last one before the process dies; the pending list of
a consumer group is never read again by the code; retries can overtake the handler that
scheduled them; two refreshes of one user pick the same row; the stamps of requests reach
the limiter out of order; a blocking read does not notice that its context is cancelled.
`PROJECT.json` lists these hazards line by line.

## 2. Modules

| module | models | depends on |
|---|---|---|
| `TaskStream` | what Redis keeps for one stage, and each command the code issues | |
| `StoryStore` | the rows of one user, and each query of the pipeline | |
| `JobPipeline` | request, workers, schedulers, faults, restarts; all properties of the pipeline | `TaskStream`, `StoryStore`, `JobContract` |
| `JobContract` | the abstract promise: a job is new, owed or settled in each stage | |
| `JobPath` | the way of one job through `JobPipeline` when no call fails: its places, its end, and the inductive invariants about them | `JobPipeline` |
| `MCJobPipeline` | symmetry sets for TLC | `JobPath` |
| `JobPipelineProofs` | the inductive invariant is inductive | `JobPipeline` |
| `JobContractProofs` | `JobPipeline` implements `JobContract`; no double delivery | `JobPipelineProofs` |
| `JobPathProofs` | without failed calls: the retry limit, what is stranded, no concurrent execution | `JobPath`, `JobPipelineProofs` |
| `JobEndProofs` | without failed calls and races within a stage: how a job ends, and that `completed` is final | `JobPathProofs` |
| `Registration` | `RegisterUser`, `VerifyUser`, their tables and the OTP in Redis; its properties | |
| `MCRegistration` | symmetry sets for TLC | `Registration` |
| `RegistrationProofs` | the inductive invariant of `Registration`, accounts are proved and completed, guesses are bounded | `Registration` |
| `Sessions` | `AuthenticateUser`, `RefreshJwtToken`, `DeleteUser` and the tables `users` and `refresh_tokens`; its properties | |
| `MCSessions` | symmetry set for TLC | `Sessions` |
| `SessionsProofs` | the inductive invariant of `Sessions`, sessions are conserved, nobody is locked out | `Sessions` |
| `RateLimiter` | `RateLimiterMiddelware`, `AllowRequest` and its script; its properties | |
| `MCRateLimiter` | symmetry set for TLC | `RateLimiter` |
| `RateLimiterProofs` | the inductive invariant of `RateLimiter`, grants are bounded, nobody starves | `RateLimiter` |
| `Lifecycle` | `App.Run` with the loops of the goroutines it starts; its properties | |
| `LifecycleProofs` | the inductive invariant of `Lifecycle`, no job is lost, nothing is cut off | `Lifecycle` |

### State and code

* `queue[s]`, `s` in `{"story", "email"}`: the Redis keys of a stage. `entries` is the
  stream, `delivered` and `pending` are the consumer group's cursor and pending list,
  `retry` is the sorted set `retry_<stream>`, `dead` the dead-letter stream. A payload is
  cut down to the job and `RetryCounts`; the other fields never change after the
  request. The scores of the sorted set are left out: which members are due at a tick is
  chosen freely.
* `db[j]`: the rows of one user. A user has at most one story, because the file name is
  made of his unchanging preferences and `(user_id, file_name)` is unique; so user, story
  and story job are one value `j`.
* `worker[w]`: the method of `WorkerPool.Run` that runs (`phase`), the next call it makes
  (`call`) and the message. `NextCall` is the order of the calls in the completion
  handlers and executers, `AfterError` and `AfterReturn` are the branches of `Run`
  (`streams_consumers.go:119-126`).
* `scheduler[p]`: the members a `ReEnqueue` has read and not yet added (`batch`), and the
  one between its `Add` and its `ZRem` (`removing`).
* `api[j]`: the next write of a `ScheduleStoryGeneration`.
* `mailed` stands for the SMTP server. `accepted` is a history variable: the jobs whose
  `XADD` on the stage's stream took effect.

In `Registration`:

* `users`, `staging`, `verification`: the rows of `users` (with `users_preferences`),
  `staging_users` and `email_verification`, per email. A call of `RegisterUser`, `r`, stands
  for the data it brings and for the OTP drawn for it.
* `otp[e]`: the hash `users:otp:<email>`. `HSet` clears the expiry of the fields, `HExpire`
  sets it, `HIncrBy` makes a hash without an OTP when there is none.
* `register[r]`, `verify[v]`: the next call of the handler. `saving` and `mailing` are the two
  goroutines `RegisterUser` starts.
* `SaveAgain`, `DelAgain` and `CountAgain` are a command that took effect, whose answer is
  lost and which the Redis client issues again (`client.go:21-24`, default options).
* `proved`, `wrong`, `uncounted`, `saves`, `deleted` and `interrupted` are history variables:
  `saves` counts how often the `HSET` of a registration took effect, `interrupted` has the
  emails whose account a failed or stopped `VerifyUser` left.

In `Sessions`:

* `rows[u]`: the rows of `refresh_tokens` of a user by `created_at`, with the time the token
  expires and whether it is revoked. `CreateJWTToken` puts the user and the second into a
  refresh token and nothing unique, so a token is the second it was issued in.
* `request[q]`: the next query of a request. `UpdateRefreshToken` is two actions, because at
  READ COMMITTED its subquery picks a row before its update waits for it.
* `known[u]`: the tokens a client got. `logins`, `lost`, `twice`, `rotated` are history variables.

In `RateLimiter`:

* `bucket`: the keys `rate_limit:<ip>:tokens` and `:last` with the time they expire. Time is
  counted in units in which the fill rate is one; a token is `Cost` units.
* `request[h]`: the stamp a handler took before it calls Redis. `LoseReply` is a script that
  runs and whose answer is lost, so that the client runs it again; `Unavailable` is the client
  giving up, whether or not the script ran.
* `granted`, `since` and `rewound` are history variables: what was granted, the stamp of the
  last grant, and the sum of the steps by which late stamps set `last` back.

In `Lifecycle`:

* `main`: the next call of `Run`. `cancelled` and `wg[s]` are the context and the WaitGroup of a
  pool, `server` and `handler[h]` the HTTP server and its goroutines.
* `worker[w]`, `scheduler[s]`: where the loops of `WorkerPool.Run` and `ReEnqueue` are.
* `group`, `unread[s]`, `retry[s]`: whether the consumer group exists, how many entries it
  will deliver, how many members the retry set has. Jobs are counted and not told apart; what
  a step does to a particular job is in `JobPipeline`.
* `accepted`, `done`, `abandoned`, `late` and `timedOut` are history variables.

Each call to Redis, PostgreSQL, the AI client or the mailer is one action, because any
other process may act between two calls. What a handler does between two calls touches
only its own variables and belongs to the action of the call before.

### Failure

* Redis and PostgreSQL calls made with `context.Background()` or the request context may
  fail; `Fault` bounds their number by `MaxFaults`. A failing call may have taken effect.
* The Redis client is made with its default options and repeats a command whose answer is
  lost, so that one call that succeeds may have taken effect twice, with steps of others in
  between. Each repetition counts against the same bound. In `JobPipeline` the repeated
  `XADD`, `ZADD` and `ZREM` are there (`RequestAdd`, `Forward`, `Reenqueue`, `ScheduleRetry`,
  `Remove`); a second `XACK`, `XDEL` or copy in the dead-letter stream changes nothing that is
  kept. A second `XREADGROUP` leaves the first entry in the pending list, as a failed one does.
* `GenerateStory`, `SendNotificationEmail` and the two writes inside `Execute` may fail
  any number of times: the AI client and the mailer are remote, and `Execute` runs under
  a deadline of 30 s.
* `Restart` may happen between any two actions, at most `MaxCrashes` times. It empties
  every goroutine and keeps Redis and PostgreSQL. A graceful shutdown, which is the
  subject of `Lifecycle`, stops the program in a subset of these states.
* In `Registration` failed calls, repeated commands and restarts together are bounded by
  `MaxFailures`; the mailer may always fail. `Expire` may happen whenever the fields have an expiry.
* `ScheduleRetry` panics at `OverflowRetry`, and the worker is gone until a restart.
* In `Sessions` failed queries and restarts together are bounded by `MaxFailures`.
* In `RateLimiter` lost answers are bounded by `MaxLost`, and a call of the client by
  `MaxDelay`; in `Lifecycle` a read may fail any number of times, a worker may panic
  (`MaxPanics` in all), a consumer group may not be created, the port may be taken, and
  `Shutdown` may time out. Redis does not fail after the start there: that is `JobPipeline`.

## 3. Runs

| run | instance | shows |
|---|---|---|
| `PipelineFaults` | 1 job, 1 worker per stage, 1 fault, 1 restart | no job lost, no premature mail, nothing written for a deleted user, the inductive invariant, refinement of `JobContract` |
| `PipelineRace` | 1 job, 2 story workers, 2 story schedulers | nothing is stranded unless it was dead-lettered; the story stage's retry limit; no double delivery, also of the copies two schedulers make; `LimitInv` |
| `PipelineStatus` | 2 jobs, 1 worker and 1 scheduler per stage, batches of 1 | what leaves the pipeline was completed; `completed` is final; `FinalInv` |
| `PipelineLive` | 1 job, 2 story workers, 1 scheduler | every job is resolved; a job is not executed twice at once; `PlaceInv` |
| `Registration` | 1 email, 2 registrations, 2 verifying handlers, 1 failure | accounts are proved by the mailed OTP and their address always is, guesses are bounded, a verification is completed, the inductive invariant |
| `FindingDeadLetter` | 1 job | a dead-lettered job is retried |
| `FindingForward` | 1 job, 1 restart | a notification can be lost inside `OnSuccess` |
| `FindingPoison` | 2 jobs | a job that keeps failing takes its worker away from the others |
| `Sessions` | 1 user, 3 requests, 3 rows, 3 seconds, 1 failure | sessions are conserved, a race locks nobody out, the inductive invariant |
| `FindingRotation` | 1 user, 2 requests at once, no failure | a refresh can revoke a token other than the one it replaces |
| `RateLimiter` | 1 address, 3 handlers, stamps up to 2 ticks old, 1 lost answer | grants are bounded by the bucket, the time and the rewinding; refused requests put nobody off; the inductive invariant |
| `Lifecycle` | 1 story worker, 2 email workers, 1 handler, 2 jobs, 1 panic | no job is lost by a start or an end, no handler is cut off, one late message per worker at most, `Run` returns or a worker waits for a message, the inductive invariant |

Bounds. One job is enough wherever a property speaks of one job, since jobs meet only in
the order of a stream and in the batch of a scheduler; the runs about order have two.
`MaxJobRetry` is 1 and `OverflowRetry` 2 or 3 instead of 33: the path to the limit, past it
and to the panic is there. With one fault and one restart every single failure and
every failure next to a stop occurs. Two workers or schedulers of the story stage race
with each other, in runs of their own (`PipelineRace`, `PipelineLive`); the code of the email
stage is the same. All jobs, and the processes of
a pool, are interchangeable, and symmetry is used only in runs without temporal formulas.

`Registration` needs one email only: no row and no key is shared by two. Two registrations
compete for it, before and after the first became an account and was deleted. Two handlers,
each good for any number of requests, race between `HGETALL` and `HINCRBY` or `DEL`, and in
the writes of `VerifyUser`. `MaxTries` is 2 instead
of the code's 3: a guess before the limit, one at it, and the race past it are there.

`Sessions` needs one user: requests of two share no row. Three requests are what the races
need, a refresh, another refresh or login between its queries, and a third that tries the
result; with tokens that live one second and a clock of three, expired, equal and different
tokens all occur.

`RateLimiter` needs one address, for the keys carry it. The bucket holds one token and a half,
so that fractions are kept and cut off; the clock passes the expiry of the keys.

`Lifecycle` has a pool of two, one of which may panic, and a second job that comes while the
first is worked on or late. Jobs an earlier run left in the streams and retry
sets, and groups that exist or not, are the initial states.

Deadlock is not checked: the system rests when every job is resolved and every worker
waits in `XREADGROUP`. What must not be left behind then is said by `QuietIsCompleted` and
`EventuallyResolved`.

Fairness (`FairSpec`). Go runs every goroutine that can run, hence weak fairness of every
worker's and scheduler's step. A tick comes every 2 s and takes the lowest scores first;
the score of a member is fixed and at most 5 min ahead, so while `j` waits in the sorted set
some tick takes it, though ticks without `j` come in between: strong fairness of
`TickFor(p, j)`. No fairness is assumed of requests, deletions, restarts, or of a call's
success: a job whose execution always fails is resolved by the dead-letter stream.
In `Lifecycle`, weak fairness of `Run`'s own calls, of each worker and of each scheduler:
`Execute` and `Shutdown` have timeouts, and a read returns when there is a message. Nobody owes
a signal or a request, and a read of an empty stream need not return.

Conditions. `CompletedIsFinal` and `QuietIsCompleted` need one worker per stage: with two,
`OnFailure` can write `processing` after the retry has written `completed`. They and
`NoConcurrentExecution` need one scheduler per stage: two scan the same members. These, and
`StrandedOnlyPastDLQ`, need that no call has failed and the program has not been stopped;
the retry limit needs the first only. The conditions stand in the properties, as `OneEach(pool)`
(at most one process of the pool per stage), `Calm` and `faults = 0`; the runs set the constants
so that the conditions hold in every state. `NoJobLost`, `NotifiedOnlyWhenReady`,
`NothingAfterDeletion`, `NoDoubleDelivery` and `KeepsContract` have none. `EventuallyResolved`
is of one job, without a failed Redis or PostgreSQL call and without a restart: a lost
answer or a stop strands an entry, and another job can kill the worker (`FindingPoison`).
`AccountWasProved` leaves out emails an account of which was deleted: a handler that passed
`VerifyOTP` before may persist a later registration, whose OTP nobody presented. `EmailWasProved`
has no such condition: the address, at least, was proved. `AccountIsCompleted`
leaves out the accounts whose own `VerifyUser` was kept from its remaining writes by an error
or a stop: nothing repeats them. `GuessesBounded` is what the code gives for the limit of 3:
every racing handler is worth one more guess, every increment that was lost another, and the
whole allowance is given again when the client repeats the `HSET`, which sets the counter back
to 0; that takes a failed call each time.
`SessionsConserved` counts what the code loses and doubles: `lost` are refreshes that failed
between their two writes, `twice` those that revoked a row another one had just revoked, so
that two tokens came of one. `GrantedBounded` has the term `rewound`: the time
that a late stamp gives to the request after it.
`ConfigAssumption` of `RateLimiter` is for the operator to keep:
a capacity below one token grants nothing, and a bucket that takes longer than an hour to fill
is filled by the expiration; `configs.go` checks neither. `ReturnsOrStuck` is all that the code
gives for an orderly end: `XREADGROUP` with `Block: 0` is not ended by the cancelled context, so
on an idle system every worker waits on, and `Run` with it, until the process is killed.

## 4. Findings

1. `FindingDeadLetter`: `Run` calls `OnFailure` after `SendToDQL`
   (`streams_consumers.go:120-123`), so a dead-lettered job is retried, for ever, and its
   status `failed` becomes `processing`. `src/README.md:29` promises the opposite order.
2. `FindingForward`: `OnSuccess` acknowledges and deletes before it adds to the email
   stream; a stop in between loses the notification.
3. `FindingPoison`: the retries of 1. reach 33, `CalculateBackoffDelay` overflows and
   panics, and the worker is not replaced. Once a pool is gone, other jobs starve.
4. `FindingRotation`: `UpdateRefreshToken` looks for the newest row again instead of revoking
   the one `RetrieveRefreshToken` compared (`user_service.go:379, 449`). After a login in
   between, the login's token is revoked and the token the refresh replaced is not; it is
   accepted again later. `src/README.md:52` promises rotation.

Reached by the models, and shown by no run of their own:

* the job is forwarded with the story stage's `RetryCounts` (`job_completion.go:93`) and the
  limit is tested by `==`, so after a dead-lettered story that succeeds later the email job
  starts past its limit and never gets to the email DLQ; `LimitInv` says that such a job has
  its dead letter in the story stage;
* nothing reads the pending list of a consumer group, so a job whose worker was stopped is
  kept and not retried;
* `VerifyUser` knows the email and not the registration (`user_service.go:213`): when two
  handlers have passed `VerifyOTP` for one registration and the account the first has made is
  deleted and the email registered again, the second makes an account of the new data;
* two refreshes that show the same token both pass the comparison, and both updates pick the
  same row (`user_postgres.go:453-460`); each stores a new one (`twice`);
* `now` is read before the script runs and `last` is set to it even when it is older
  (`rate_limiter.go:125`), so the time in between is refilled twice (`rewound`);
* a repeated `HSET` sets the counter of guesses back (`redis_otp.go:21`, `client.go:21-24`);
* an error or a stop between the writes of `VerifyUser` leaves an account without preferences
  or a staging row that blocks the email; one between the writes of a refresh ends the session;
* two refresh tokens of one second are the same string;
* with two workers `OnFailure` can overwrite the status `completed` of the retry it scheduled;
* `staging_users` has one row per email and only a successful verification deletes it: after
  the OTP has expired the email can be neither verified nor registered again;
* `RegisterUser` returns `nil, err` with the nil `err` of an earlier call when the OTP cannot
  be saved or mailed (`user_service.go:163`); the handler takes that for success and panics on
  the nil response (`handler.go:139`);
* on an idle system a signal does not end the process (`ReturnsOrStuck`), and the schedulers
  are neither cancelled nor waited for;
* the story workers start before the email group exists; the entries are safe, because the
  group is created at `0`;
* a story message that is read after `Cancel` fails at once, for its context is done, and goes
  to the retry set; an email message is mailed;
* when `ListenAndServe` fails, `app.go:145` calls `Error` on the outer `err`, which is nil, and
  the process dies of that.

## 5. Proofs

`JobPipelineProofs` proves `Spec => []IInv` for any sets of jobs, workers and schedulers and
any number of faults and restarts; the assumption used is `PoolsAssumption` (the pools are
disjoint, `None` is no message). `TypeCorrect`, `JobsAreKept`, `NotifiedWhenReady` and
`DeletedUsersKeepNothing` follow.

`NoJobLost` is not inductive alone. That acknowledging is harmless depends on what the
worker has done before, so `IInv` adds, besides the types:

* `IdsOK`, `HeldOK`: a stream numbers its entries, and what a worker holds is the entry of
  that id, delivered, and no longer pending when it is deleted;
* `ControlOK`: the calls belong to the method that runs;
* `AchievedOK`: what the calls so far have achieved, for example that `OnFailure` past
  `ScheduleRetry` has the job settled or carried with a higher retry count;
* `RemovingOK`: between `Add` and `ZRem` the job is carried by something other than the
  member. It compares retry counts: a member is never removed for the sake of itself;
* `OriginOK`: whatever is in a stage was taken in by it, so a mail implies a forwarded job.

The proof first classifies every step by what it does to a queue and to a row
(`StepMoves`), shows that no such move takes away what is settled or carried
(`SettledStable`, `CarriedStable`), and then treats worker by worker the call it makes
(`ReadStep`, `ExecuteStep`, `CompletionStep`).

`JobContractProofs` shows that a step changes the status of at most one job in one stage
(`OneStatus`), and by `IInv` never to "lost"; hence `ContractKept`. `DeliveredOnce` follows from
`HeldOK`: a read gives out an id above the cursor, and everything held is below it.

The properties of the pipeline without failed calls are about the steps of several
processes, and each needs an invariant of its own on top of `IInv`; `JobPath` states them.
`FaultlessStep` and `CalmStep` first leave out the branches that a failed call or a restart
takes, and `WorkerMoves` sorts a worker's step into what it achieves: it takes an entry, or a
method of its own executes, acknowledges, deletes, forwards, dead-letters, schedules a retry,
writes a status, ends, or dies.

* `LimitInv`, under `faults = 0`: whatever was retried more than `MaxJobRetry` times is of a
  dead-lettered job, wherever it is (`ExceededOK`), which needs the worker that stands between
  `SendToDQL` and `ScheduleRetry` (`HasExceeded`); a worker dies past the limit only, by
  `LimitsAssumption`, which says `MaxJobRetry < OverflowRetry` (`DeadOK`); and every pending
  entry is the message of a worker (`PendingOK`), since `Run` acknowledges before it lets go
  of one. `StoryExceeded` is the part of `ExceededOK` about the story stage; `StrandedPastDLQ`
  takes the worker from `PendingOK` and, if it is dead, its job's dead letter from `ExceededOK`.
* `PlaceInv`, with one scheduler per stage: a job is at one place at most of both stages
  (`OnePlace`): an entry not yet read, a member of the retry set, or a worker that still has to
  execute it or to hand it on. The window in which a job is in the stream and still in the
  retry set, between `Add` and `ZRem`, is why `Retrying` leaves out the member a scheduler
  is removing; `BatchOK` says that a scheduler never adds that member again. A story is
  requested once (`RequestedOnce`): the row of the first request refuses the second.
  `NoConcurrent` follows for any number of workers.
* `FinalInv`, with one worker per stage too: every job that was taken in has a place or has
  ended (`Accounted`), and the status columns say how far it is (`CourseOK`): what is forwarded
  has left the story stage but for the worker that writes its status (`HandedOver`,
  `StoryStatusOK`), what is recorded as completed was mailed and has no place left (`SentOK`).
  Its hard part is `RemovingOld`: while a scheduler is between `Add` and `ZRem` the worker can
  take the entry, fail and schedule the next retry, and `ZRem` must not take that one. It
  does not, because whatever the stage has of the job was retried more often
  (`NewerThan`). `CompletedStays` and `QuietCompleted` follow.

`RegistrationProofs` proves `IInv` of `Registration` inductive for any emails, registrations,
handlers and failures; `ConstantsAssumption` says that the handlers are finitely many and
`None` is none of the values. `AccountsAreProved` and `GuessesAreBounded` follow. `StagingOK`
is the core of the first: before an email has its first account its staging row does not
change, so it is still the row of the OTP that was proved (`FreshStep`, `StagingRow`). For
the second `CountOK` balances the books: every wrong guess since the last `HSET` of an OTP that
is still saved is in the counter, in the hand of a handler that is about to count it, or lost,
and those before it are within the allowance of the earlier `HSET`s. A handler adds
a guess only while the counter is below `MaxTries`, and the other handlers hold at most one
each (`GuessMoves`, `TriesKept`, `CountStep`, `GuessStep`). `AccountsAreCompleted` has an
invariant of its own, `CompletingOK`: a user's row is inserted once, and the handler that
inserted it, if it was not interrupted, is on its way to the writes that are missing
(`InsertedOnceStep`, `CompletingStep`). `EmailsAreProved` has `PresentedOK`: a handler that is
about to persist has found an OTP of its email proved, and by `CountOK` the OTP saved for an
email is of a registration of that email (`PresentedStays`, `PresentedStep`).

`SessionsProofs` proves `IInv` of `Sessions` inductive for any users, requests, lifetimes and
failures. `SessionsConserved` is inductive with `ControlOK` (the row a refresh has picked
exists) and `DeletedHaveNone` (whatever was in flight when an account was deleted writes
nothing, because of the foreign key); each write moves one unit between the live rows, the
rotating requests and the counts. `NoLockout` rests on the rows being in the order of
`created_at`: the row a refresh revokes may be the last one only if it stores the next.

`RateLimiterProofs` proves `IInv` of `RateLimiter` for any handlers, rates and delays under
`ConfigAssumption`. `FundedOK` says that what was granted and what is left came from one full
bucket and the time until `last`; that the expiration adds nothing to it needs `BucketOK`
(`last` is at least `TTL` before the expiry) and `StampsOK` (a stamp is at most `MaxDelay` old).
`KeptOK` says that a bucket that is not full holds at least the time since the last grant.

`LifecycleProofs` proves `IInv` of `Lifecycle` for any finite pools and any handlers. `PoolsOK` ties
the WaitGroup to the goroutines that run, and `Run`'s position to the pools it has started
and waited for; `ServerOK` and `LateOK` do the same for the server and the reads. For
`JobsAccounted`, `RemovingOK` says that what a scheduler removes is there; the proof counts
worker by worker (`WorkerAccount`) what each step moves.

Model-checked only: the liveness properties `EventuallyResolved` and `ReturnsOrStuck`, for
fairness and `ENABLED` are beyond the prover, and the runs that show a finding. Every
invariant and action property that a passing run checks is a theorem.

## 6. Not modelled

* The other HTTP handlers and middleware, DTOs, configuration, logging and domain types keep
  no state and map one request to one call; `docs.go` is generated. The AI client and the
  mailer are external and appear as the outcomes a caller can see. That a mail may be
  accepted although an error is reported (and so be sent twice) is in `JobPipeline`, which
  keeps only whether a mail was sent.
* `CalculateBackoffDelay` works on 64-bit words, which TLC's integers do not hold. By hand:
  2 s is 2e9 ns, less than 2^31 and more than 2^30; shifted by 32 it stays below 2^63 and is
  cut to five minutes, shifted by 33 it is between 2^63 and 2^64, so negative, and `Int63n`
  panics. Hence the constant `OverflowRetry`, 33 in the code.
* A command that Redis carries out only after the client has given it up, and the limit
  of three repetitions the client has (the models' bounds on failures take its place).
* Access tokens: they carry their own expiry, no row backs them, and one issued before
  `DeleteUser` is accepted until it expires.
* In `RateLimiter`: the rounding of the Lua numbers, a clock that is set back, and several
  machines (Redis is reached at `localhost`, so the stamps and the expiry share a clock).
* In `Sessions`: the time zones of the timestamp columns.
* In `Lifecycle`: dead-letter copies and Redis failures, which are in `JobPipeline`, and more
  than one scheduler per stage, whose races are there too.

Left for later: that the models of the sessions and of the rate limiter implement abstract
specifications of their own, as `JobPipeline` does `JobContract`.
