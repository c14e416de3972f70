# SaqBol in TLA+

SaqBol warns its users of telephone fraud. A mobile app (Flutter, with an
Android service in Kotlin) sends SMS texts, call transcripts and the numbers of
incoming calls to a Go backend, which classifies texts, keeps a history and a
reputation per phone number, and stores its data in PostgreSQL and its sessions
in Redis. The classifier is a Python service behind gRPC, or a mock inside the
backend. A web dashboard and an admin API read what was collected.

This directory holds TLA+ modules for the parts of it whose behaviour depends on
interleaving, failure and order, the TLC configurations that check them on small
instances, and proofs for every value of their constants that TLAPS checks.
`PROJECT.json` lists runs, theorems, hazards and, for each definition, the lines
of source it stands for. In what follows *backend* is `src/saqbol-backend`,
*mobile* `src/saqbol-mobile/lib/src`, *ml* `src/saqbol-ml`.

## 1. Inventory

### Backend

| component | state | operations | talks to |
|---|---|---|---|
| auth service, `internal/auth` | `users` rows (phone unique, role); `refresh:<jti>` keys in Redis with the TTL of the refresh token; signed tokens in clients' hands | Register, Login, Refresh, ParseAccess, ParseRefresh; EnsureAdmins at start-up | PostgreSQL, Redis; every authenticated route through `middleware.Auth` |
| SMS check, `internal/sms` | `messages`, `detections` rows | Check, CheckBatch | classifier, `numbers` |
| number reputation and reports, `internal/numbers`, `internal/reports`, `store/numbers.go` | `numbers` (report count, score), `reports` rows | RegisterScam, RegisterFalsePositive, Get, report submission | `messages` for ownership and the sender |
| migrations and start-up, `store/migrate.go`, `cmd/api` | `schema_migrations`, the schema, the process | Migrate, then administrators, Redis, classifier, listen; shutdown | PostgreSQL |
| live call stream, `internal/calls` | per connection: transcript so far, highest score; `call_sessions` rows | Analyze, Stream (WebSocket), SaveSession | classifier, the app's call socket |
| rate limiter, `middleware/ratelimit.go` | a counter per client address and minute in Redis | INCR, then EXPIRE by whoever created the counter; pass or refuse | Redis; in front of every `/api/v1` route |
| history, admin API | `model_versions` rows, otherwise none of their own | a user's list and summary; all messages, the overview, model versions | read `messages`, `detections`, `call_sessions` while checks write them |
| classifier, `internal/ml`, *ml*`/app` | the loaded rules, thresholds and model | Classify: rules, model, verdict, category | sms, calls |

### Mobile and web

| component | state | operations | talks to |
|---|---|---|---|
| token storage and interceptor, *mobile*`/core` | two keys in the secure storage, read and written one by one; nothing in memory | onRequest, onError, refresh, save, clear | auth service |
| auth controller and app gate | `AuthState`: unknown, signed in, signed out | restore, login, register, logout, sessionExpired | storage, interceptor |
| background SMS isolate, `guard_background.dart` | a second process image without the app's state, sharing its storage | handle one incoming SMS | storage, sms/check, notifications |
| inbox guard, `guard_controller.dart` | status, progress and findings of the scan, the number of the current scan, the watch switch with its preference | scanInbox, requestPermission, refreshPermission, startWatching, restore, clearScan, incoming SMS | sms/check/batch, sms/check, the system's permissions |
| call guard, `call_guard.dart`, `CallGuardService.kt` | enabled switch, cached token for the service | enable, disable, ringing call | numbers |
| voice controller and call socket | listening, transcript, last alert, recogniser restarts | start, stop, manual fragment, alert, dismiss, closed | call stream |
| manual SMS check, history providers | the result shown and the number of its check; the last list loaded | check, reset; reload | sms/check, history |
| preferences, verdict card | chosen locale and theme; report sent or not | set, restore; report | reports |
| web dashboard | tokens in the browser's storage | login, authorized fetch with refresh | auth service, history, admin |

### What is hard here

* A handler is several statements in as many transactions. Requests of all
  replicas interleave between them, any may fail with or without effect, and a
  client that hangs up cancels the rest (auth, SMS check, reports, migrations).
* The refresh token is spent before its successor is stored, and the client's
  copy is replaced by two writes. A crash, timeout or second caller falls in
  between.
* The app and the isolate share two storage keys and nothing else; calls of one
  app refresh independently of each other.
* A score is a counter changed by several handlers, capped at both ends.
* Summaries and the overview are two statements without a transaction, over
  tables that a check writes one after the other.
* A rate-limit counter is created by one command and given its end by another;
  either may fail, be sent twice, or come when the minute is over.
* A verdict is decided on one number and returned with another, the rounded one.
* Mobile controllers await in the middle of their methods and use state read
  before (inbox guard, manual check, call guard, voice), and a sign-out and a
  login of somebody else fit into each await. Two of them number their calls to
  tell late answers apart, the voice controller does not.
* The call stream is long-lived: alerts arrive late, a connection closes between
  a fragment and its verdict, the saved session is one statement that may fail.

`PROJECT.json` lists each such point as a hazard at its line, with the property
that covers it or the reason why none does yet.

### What makes each component correct

* **auth**: one registration per phone is answered; a rotated token opens
  nothing; a session belongs to an account that exists and proved itself; a
  claimed role is held; a spent token is not let through again.
* **SMS check, reports, reputation**: counts and scores are backed by rows and
  no increment is lost; reports are on one's own messages; a batch answers for
  every message.
* **migrations**: what is recorded was applied; files apply in order; nobody
  serves on part of the schema; racing replicas all come up.
* **rate limiter**: no more than the limit passes in a minute; nobody is refused
  for less; no counter stays for good, unless the command that created it or the
  one that gives it its end went wrong (finding 13).
* **history, admin API**: a list has every row that was stored before, and each
  answered one with the category it was answered with, unless it is filled to its
  LIMIT with rows as new; what was answered before is in every later count; the
  two statements of one answer agree.
* **classifier**: a text is filed under the rule that explains it best; the
  rounding of a probability takes no alert away.
* **mobile session**: a device does not lose a live session by itself, however its
  refreshes overlap; both tokens are the signed-in user's; a user without a usable
  token reaches the login screen.
* **call stream and voice**: every fragment is classified with what came before
  it, as far as the window reaches; the saved session has the whole text and the
  highest score, and no alert was sent that it does not flag; a session shown as
  active is connected; an alert on screen is the signed-in user's and stays away
  once dismissed; nobody listens after a sign-out.
* **inbox guard, manual check, history**: a scan shown as running is running; the
  findings of the current scan stay; the check shown is the latest; what is shown
  is the present user's; a check answered is in the history.
* **call guard**: its switch tells what the service does, and the token it holds
  is the present user's and valid. The code keeps neither half of the latter
  (finding 12); not modelled.

## 2. Modules

### `SessionLedger` and `Sessions` (auth service)

`SessionLedger` is the abstract promise: each refresh-token id is opened at most
once, for one account, and once closed stays closed. `Sessions` is the code: a
request is at a statement (`pc`), with the account it acts for (`who`), the token
it presents (`shown`), the role it read (`role`) and, at the end, its answer
(`code`, `granted`). Shared state is `accounts` (table `users`), `redis` (the
`refresh:` keys), `owner` (uid claims of signed tokens), `expired` (exp claims
that have passed). One action per statement: `CheckPhone`, `CreateUser`,
`LookupUser`, `GetSession`, `DeleteSession`, `ReadRole`, `IssueTokens`;
`Abandon` ends a request anywhere; `StartReplica` promotes administrators;
`ExpireToken`, `EvictSession`, `RedisRestart` are time and the cluster (Redis is
deployed without a volume). A write that fails may have taken effect.
`ImplementsLedger` is the refinement.

### `Reputation` (SMS check, reports, numbers)

One action per statement of `Check` inside `CheckBatch`'s loop and of the report
handler. Message rows are named by the request and position that made them.
Scores are integers in a unit in which the increments are whole (0.05 for the
values of the code). A verdict is scam or not; what the classifier answers is a
choice. Rows are never updated or deleted by the code, so a row stands for its id.

### `Migrate` (start-up)

Files are positions in the sorted list; `applied` is the schema, `recorded` the
rows of `schema_migrations`. A file is one simple-protocol query and thus applied
whole or not at all, but its row is another statement. `Idempotent` names the
files that may be applied twice (0002). Any error exits the process; the cluster
starts it again.

### `RateLimit`, `Classifier` and `Api` (HTTP API)

`RateLimit` is the middleware with the part of Redis it uses. A request is at
`incr` or `expire` between its two commands; `count` and `ends` are the counters
and their time to live, a counter being named by an address and the minute,
itself named by its first tick. `Incr`, `SetExpiry` may fail with or without
effect and then let the request pass; `ResendIncr` is the client library sending
a command again whose reply it lost; `Tick` is time with the expiry of keys.
`troubled` records the counters whose first INCR nobody saw the answer of
(`CountUnseen`), or whose EXPIRE failed: no later request sets their end.

`Classifier` has no state: `Mock` is the Go classifier, `Pipeline` the Python one,
both functions from a text to the set of results it may get. A text is what the
two see of it: how many triggers it has of each rule in the table of `mock.go`
(`byMock`) and in that of `rules.py` (`byRules`), which name different triggers
under the same rules, and the probability of the trained model. `HitsIn` is the
table of the classifier in use. `Leading` is the loop over the rules as a
recursive function, `Rounded` Python's `round`, which leaves a tie open.

`Api` is everything behind the limiter that writes or reads rows: the middleware
of the routes (`Dispatch`), then one action per statement. `Classify`,
`InsertMessage` and `InsertDetection` are a check, `Classify` and `SaveSession` a
call analysis, `CreateVersion` an administrator's new model version.
`ListHistory` and `ListMessages` are one statement, the summary is `CountOwn` and
`ListThreats`, the overview `CountAll` and `CountCategories`. Any statement may
fail, an insertion with or without effect. A row is named by the request that
inserted it, so that a table is a set of requests and the columns of a row are
what its request was asked and answered; `Newest` is ORDER BY with LIMIT, which
leaves rows of one time in any order. `limit` is the LIMIT a list was asked with,
or zero for model versions, which have none. `before` and `stored` are history
variables: the writes that had been answered, and the rows that a list may hold
that were there, when the request was let in; a message may be stored whose
detection never is. What a check does to
the reputation of a number is `Reputation`'s, the auth routes are `Sessions`'.

### `SessionClient` (mobile), composed with `SessionLedger`

The two storage keys, the interceptor's handling of each call, the auth
controller's flows, the isolate's calls (`Background`), process restarts. Every
await is a step, and `save` and `clear` are two each. The server is the ledger
that `Sessions` implements, with the rotation in two steps as in the code.
Accounts are numbered in the order in which they first sign in.
`disturbed` and `leaked` are history variables: `disturbed` records that a
refresh was rejected, failed or was cut off by the end of the process, that a
logout overlapped one, or that the server ended a session; `leaked`, that a
sign-out left a token or a refresh behind. The two invariants hold only for
behaviours without it, and findings 3, 11 and 14 show why. Refreshes that overlap
disturb nothing as long as each is answered with a pair.

### `CallPeer` and `CallStream` (live call, backend)

`CallPeer` is what the phone may rely on: a stream belongs to the account whose
token opened it, and its answers are to fragments of it, in order, at most one to
each. `CallStream` is `calls.Handler.stream`: one handler per WebSocket at a step
of its loop (`asked`, `read`, `classify`, `write`, `save`, `done`), with the
local variables of the function (`transcript`, `maximum`, `flagged`, the
`verdict` being answered, the `heard` window) and the two directions of the
connection (`sent`, `answers`). The phone connects, sends and closes, the network
is lost (`Lose`), and the process stops (`StopServer`: `http.Server.Shutdown`
does not wait for upgraded connections). A fragment is the number of its runes
and a rune in a transcript is the number of its fragment, which is all that the
window, the row and their properties tell apart. `ImplementsPeer` is the
refinement.

### `VoiceCall` (live call, phone), on top of `CallPeer`

`VoiceController`, `CallSocket`, the recogniser and the gate. The three
asynchronous methods may run any number of times at once, and `step` says at
which await each call is: `start` (`TapStart`, `ReadToken`, `Open`, then
`Initialized`), `stop` (`TapStop`, `SpeechStopped`, `SocketClosed`; it can be
called from the screen of an alert too, when the socket may have closed) and
`_startListening` from a status event (`SpeechDone`, `Initialized`). `socket` is
the field `_socket`, `events` the subscription of each socket; the two differ as
soon as calls overlap, and `stray` records that a socket was let go while it
still delivered, or was opened after a sign-out. The backend is `CallPeer`'s
`Tell`, so late answers and answers to closed sockets are included.

### `Gate`, `InboxGuard`, `SmsCheck` and `Screens` (phone)

`Gate` holds what both screens see of the login: the account signed in.
`InboxGuard` is `GuardController`. A call of `scanInbox` is at one of its awaits
(`scanAt`) with its local variables: the number it took (`number`, the code's
`scan` against the field `_scan`), how many messages the inbox had (`size`), how
many are checked (`upto`) and what they yielded (`found`). `NumberScan`,
`ReadInbox`, `PostBatch` and `BatchChecked` are the parts of the method between
awaits; `ScanFails` and `ScanStops` its two other ends. `TapGrant` and `Answered`
are `requestPermission` from the settings' card, or from the scan screen, which
goes on to scan. `Arrive`, `PostIncoming` and `IncomingChecked` are
`_checkIncoming`, `RestoreOn`, `MayWatch`, `Listen` and `SaveGuardOn` are
`restore` and `startWatching`. The permission is the user's to change at any time
(`SetPermission`). A message is a position, and the finding of a batch names the
batch's end, since how many of a batch are unsafe makes no difference to the
list.

`SmsCheck` is `SmsController` with the history each answer invalidates. `request`
is the local variable compared with `_current`, `rows` what the backend has
stored, `fetch`, `reply` and `list` the reload of `historyProvider`; while it
reloads a provider shows its last value. A reload that an invalidation overtakes
is dropped, which is Riverpod's part. An answer whose body cannot be parsed
throws past the handler of `DioException` and leaves the screen loading; the
backend sends no such body, and it is not modelled.

`Screens` composes the two under the gate of `app.dart`: `SignOut` clears the
scan (`LeaveInbox`) and tells the check nothing, `SignIn` renews the check and
the history (`EnterChecks`) and shows Home, which restores the guard
(`EnterInbox`); `Restart` ends the process with every call of both. How tokens
and state move apart at these moments is the subject of `SessionClient`; here
they move in one step.

### How the modules compose

| composition | by |
|---|---|
| auth service implements the ledger the phone is checked against | `Sessions!ImplementsLedger`; `SessionClient` instantiates `SessionLedger` |
| stream handler implements the peer the phone is checked against | `CallStream!ImplementsPeer`; `VoiceCall` extends `CallPeer` |
| handlers behind the limiter, with either classifier | `Api` extends `RateLimit` and `Classifier` |
| inbox guard and manual check under one gate | `Screens` extends `InboxGuard` and `SmsCheck`, which extend `Gate` |

MC modules add symmetry sets, numbers and, for `Screens` and `Api`, a constraint
on what is followed. Each property has a mutant, a variant of a definition that
the code could plausibly have had and under which the property fails; the variants
stand in the modules, marked "Mutant", before the definition they would replace,
and nothing uses them.

## 3. Model checking

| run | checks | shows |
|---|---|---|
| `sessions` | `OneRegistrationPerPhone`, `RotatedTokenIsDead`, `SessionsBelongToAccounts`, `ClaimedRoleIsHeld`, `NoReplay`, `ImplementsLedger` | four requests on two phones, one of them an administrator's, with failing stores, lost replies, restarts of a replica and of Redis |
| `sessions_rejected` | `RejectedOnlyWhenGone`, violated | finding: a Redis failure is answered like an ended session |
| `reputation` | `TypeOK`, `RaisesAreBacked`, `RiskIsEarned`, `ScamsAreCounted`, `ReportsByOwners`, `AnswersAreComplete` | two messages, in one batch or two, and two reports on one number, each statement of which may fail |
| `migrate` | `RecordedIsApplied`, `AppliedInOrder`, `ServingIsMigrated`, `ServesUnlessWedged` | two replicas racing through the three files with two crashes |
| `migrate_listens` | `AppliesAndListens`, violated | finding: a crash between file and row keeps every later start from listening |
| `session_client` | `SessionKept`, `OneAccount`, `LeavesHome` | a call of the app and one of the isolate, whose refreshes overlap, logins of two accounts, logouts, kills, timeouts; nobody is stranded on Home without a usable token |
| `session_client_ends` | `EndsOnlyWhenGone`, violated | finding: two calls refused together sign the user out of a live session |
| `call_stream` | `WindowHoldsLatest`, `SessionsAreWhole`, `AnswersAreOnFile`, `StreamsEnd`, `ImplementsPeer` | one stream with every failure, close and loss at every step |
| `voice_call` | `ActiveIsConnected`, `DismissedStaysQuiet`, `AlertsAreOwn` | two starts, a stop, a restart of the recogniser, two accounts |
| `voice_call_deaf` | `SignedOutIsDeaf`, violated | finding: the microphone comes on after a sign-out |
| `screens` | `StatusIsTrue`, `FindingsStay`, `ScreenShowsLatest`, `ShownIsOwn`, `AnsweredIsListed` | two scans, or a scan and an incoming message, and two manual checks, across logins of two accounts, sign-outs and restarts |
| `api` | `WithinLimit`, `RefusedIsOverLimit`, `CountersEnd`, `CategoryIsForemost`, `ScamRaisesAlert`, `ListIsCurrent`, `SummaryAgrees`, `OverviewAgrees` | three requests of a user or an administrator on one counter across the end of a minute; every reader while two checks, an analysis or a new version are at each of their statements |

Every module with a `TypeOK` has it proved (section 4); only that of `Reputation`
says something a run is needed for, that a score stays within its cap, and is
also checked.

### Bounds, and why they are enough

* **sessions**: properties of pairs of requests on one phone or one token. Four
  requests leave room for a pair and the registration and rotation before it;
  three ids allow two rotations in a row; a second phone, an administrator's,
  tells accounts and roles apart.
* **reputation**: requests meet only in the row of a number, so one number is
  enough; `ScamIncrement` 4, `ReportStep` 3 and `MaxRisk` 7 are chosen so that
  two scam verdicts reach the cap, two reports do not, and a false alarm meets a
  score below its step. Two messages are one batch or two requests. The values
  of the code (4, 3, 20 in units of 0.05) are an instance of what is proved.
* **migrate**: the files are the repository's three, of which the second may be
  applied twice. Two replicas and `MaxFaults` 2 let each fault meet each
  statement of either; safety is proved for any number.
* **session client**: one call of the app, one of the isolate and a login flow
  give three concurrent users of the storage. Three pairs of tokens allow a login
  and two refreshes, one begun before or after the other has stored its pair, or
  logins of two accounts and a refresh of either; the safety properties are
  proved for any number of calls, accounts and pairs. The violation of
  `session_client_ends` needs one account.
* **call stream**: handlers share nothing but the table and the stopping
  server, so one stream is enough. A window of four runes with fragments of one
  and four (two and five with the space) makes the text fit, fit exactly,
  overflow, and be overflowed by one fragment alone; three fragments make a
  window reach over two boundaries. `MaxLevel` 2 and `Threshold` 2 give a result
  below, at and above the maximum so far.
* **voice call**: a late event needs the old and the new session, hence two
  streams; one stop and one restart can overlap either. Two fragments let an
  answer arrive before and one after a dismissal. More of each is covered by the
  proofs.

* **screens**: a late result needs two calls, hence two scans, or a scan and an
  incoming message, and two checks; the second login (`Restore` has two members)
  is another account's. Up to three messages in batches of two give an empty
  inbox, one batch that is not full, one that is, and two. `MaxCurrent` 4 lets
  the number move for two logins and two checks, or for clearings in between.
  The constraint `Apart` leaves out states in which a scan, the switch or a check
  is at work while another one is. The three share no variable but `account`,
  `granted` and `status`, whose values at rest any of them can meet, so that a
  violation of a property of one would show without the others; the proofs need
  no constraint.

* **api**: with a limit of two, three requests of one address fill a counter and
  go over it; a minute of two ticks and a third tick let it end between the two
  commands of a request, and its counter expire. A limit of zero means none, and
  the handlers are followed under it: two writers and a reader give a reader two
  rows to choose from, one of them half written. Lists of one or two rows, a
  summary of one threat and a period of one tick are full, cut off or not. One
  text hits two rules alike, and not the same two in either table; one is more of
  the later rule for the mock and has no hit in the pipeline, whose model objects
  by a third of a hundredth (`Grain` is 3), so that the rounded probability is
  below the exact one; nobody objects to the last. The constraint `Apart` leaves
  out combinations of parts that do not read each other: the limiter decides
  whether a request enters the handlers and knows nothing of them; messages, call
  sessions and model versions are separate tables; the mock differs from the
  pipeline in `Classified` only, which neither time, the limiter nor a reader
  depends on, so that it is followed at one time, without a limit and without
  readers. The proofs need no constraint.

`CHECK_DEADLOCK FALSE` is set in every configuration: requests are served once,
fragments and tokens run out, and a phone may stop using the app.

### Fairness

* `Migrate!FairSpec`: a process that is alive takes its next step, and one that
  exited is started again (the deployment restarts containers). Nothing is assumed
  of the success of a statement: the faults are bounded in number instead.
* `SessionClient!FairSpec`, of the app's own calls only: weak fairness of their
  steps, since Dart resumes after an await that completes and a refresh completes
  or times out, and of sending them, since the user goes on using the app; strong
  fairness of their answers, since the network does not fail exactly each time a
  request is made. Nothing is assumed of the isolate, which Android may stop for
  good, nor of the flows of the login.
* `CallStream!Spec`: weak fairness of each handler. Each call it makes returns:
  classification has a 3 s deadline (`ml/grpc.go`), a statement ends with its
  connection, reading and writing end when the kernel gives the peer up. Nothing
  is assumed of the phone: it need not send or close.
* `Sessions`, `Reputation`, `Api`, `VoiceCall`, `Screens`: none; only safety is
  claimed. The code gives no reason to expect progress (clients come and go,
  statements fail).

### Findings

Each is listed with its lines in `PROJECT.json`.

1. Refresh answers 401 on any Redis error, and the app then discards a live
   session (`sessions_rejected`).
2. A crash between a migration and its row leaves a database on which no later
   start succeeds (`migrate_listens`).
3. Two calls refused together: one renews the session, the other ends it
   (`session_client_ends`).
4. The recogniser starts listening after a sign-out, or a stop, that came while
   it was being initialised (`voice_call_deaf`).
5. Overlapping starts, or a stop that ends after a later start, drop a socket
   that stays open; its alerts reach the next account's session. `AlertsAreOwn`
   is therefore stated for behaviours without a stray socket.
6. An incoming SMS whose answer comes after a sign-out is added to the findings
   just cleared, and the next account sees it. `FindingsAreOwn` is therefore
   stated for what scans find.
7. Scans, incoming messages and manual checks whose answer is lost store rows
   without invalidating the history, which its comment says never goes stale.
   `AnsweredIsListed` is therefore stated for answered manual checks.
8. A batch check answers an error for a message it has classified and perhaps
   stored.
9. A text that only the trained model objects to is answered with the advice for
   safe messages.
10. The verdict is decided before rounding, so a reply may say suspicious with a
    probability of 0.8, and the alert be raised on it. `ScamRaisesAlert` is the
    direction that holds.
11. Without a run of their own: failed refreshes of any kind count as rejections;
    the session is reported gone while its access token is stored; the errors of
    reputation updates, of a fragment's classification and of saving a call are
    dropped although FR-4, FR-11 and FR-14 promise their effect.
12. The call-screening service uses a copy of the access token that is made when
    the switch is turned on and neither renewed nor cleared: 15 minutes later its
    lookups are refused and no call is warned of. The service is not modelled.
13. A rate-limit counter whose first INCR failed after counting or was resent,
    whose EXPIRE failed, or whose process was gone in between, keeps no time to
    live and stays in Redis. `CountersEnd` is stated for all others.
14. A refresh that outlives a logout stores its tokens in the storage just
    cleared, or over those of the next account. `OneAccount` is stated for
    sign-outs that no refresh outlives.

## 4. Proofs

TLC checks the instances above; TLAPS proves the following for every value of
the constants that satisfies the module's assumption (`SessionAssumption`,
`ReputationAssumption`, `MigrateAssumption`, `StreamAssumption`,
`VoiceAssumption`, `GateAssumption`, `InboxAssumption`, `CheckAssumption`,
`ClientAssumption`, `RateLimitAssumption`, `ClassifierAssumption`,
`ApiAssumption`). The assumptions say that the sets are disjoint and the bounds
are numbers; `ReputationAssumption` and `RateLimitAssumption` also that the
requests are finitely many, because their bounds count rows and requests, and
`ClassifierAssumption` that the scam threshold is a multiple of the rounding
step, as 0.8 is of 0.0001: `ScamAlerts` rests on it.

Some theorems state a property that no run checks: their formula stands in the
proof module, beside its proof. They follow from the invariants the checked
properties needed, and say what those are good for.

**`SessionsProofs`**: `TypeCorrect`, `RegistersOnce`, `RotationKills`,
`SessionsHaveAccounts`, `RolesAreHeld`, `ReplaysFail` and `Implementation`
(`Spec => ImplementsLedger`). The properties speak of answered requests; the
invariant has to say what a request in the middle knows: which statement belongs
to which handler (`Shape`), that an inserted account belongs to the one request
that inserted it (`Accounts`), that whoever is about to be issued tokens has an
account and a role it holds (`Entitlement`), that an id is bound to one account
for good (`Binding`), and that a spent token is gone from Redis (`Spent`).
`EndsForGood` follows from the refinement step: an id keeps its account, and a
session that has ended never comes back, because the ledger has no step that
revives one and every step of the service is one of the ledger's.

**`ReputationProofs`**: `TypeCorrect`, `RaisesBacked`, `RiskEarned`,
`ScamsCounted`, `OwnersReport`, `AnswersComplete`. The bounds compare a counter
with the number of rows, and neither side moves in one step: the row is stored
first, the counter raised later or never. `Backed` and `Earned` add to the
counter what the requests on their way between the two statements may still
charge; with it each step leaves the balance as it was or lowers it. The lower
bound `ScamsCounted` counts the other way round, with `CleanFinish` for the
moment a check reports success. The library's facts on cardinality carry the
counting, so no induction is needed.
Where every check came back clean and no report confirms a scam, the two bounds
meet and `CountIsExact`. `ScoreStandsOnRows`, from `RiskEarned`, is the bound as
the call guard uses it: a score of `k` scam increments stands on `k` rows at
least. It supposes that a report's step is no larger than a detection's, which is
not zero, as with the code's 0.15 and 0.2; the guard's threshold of 0.6
(`CallGuardService.kt:134`) then takes three rows.

**`MigrateProofs`**: `TypeCorrect`, `RecordIsTrue`, `OrderIsKept`,
`ServesOnCompleteSchema`. Everything is a prefix of the sorted files: what is
recorded, and thus what each process has left to do, which is never more than what
others have recorded since. Two theorems delimit finding 2. `WedgedForGood`: once
a crash has left a file that cannot be applied twice applied, not recorded and in
nobody's hands, no replica ever serves again, however often the cluster restarts
it. `RacingNeverWedges`: it does take a crash. Replicas that race through the
files and make each other's statements fail never get there, since an applied file
that is not recorded is in the hands of the process that will record it
(`InHand`).

**`CallStreamProofs`**: `TypeCorrect`, `AnswersFiled`, `WindowsHoldLatest`,
`SessionsWhole` and `PeerRefined` (`Spec => ImplementsPeer`). The invariant counts
frames (answers are never more than the frames read, and one fewer while a verdict
is on its way), bounds every answer and the verdict at hand by the maximum, and
says that a row is the final state of a handler that has ended and never moves
again. The two properties of the text count the runes of a fragment, and counting
is induction; `Texts` avoids it by saying where they are: the places of a fragment
in the transcript are an interval as long as the fragment, the last of which ends
the transcript (`Blocks`, `LastBlock`), so that the window cuts it at one end.

**`VoiceCallProofs`**: `TypeCorrect`, `ActiveConnected`, `DismissedQuiet`,
`OwnAlerts`. That a session which is heard from is also shown as active, so that
no old connection's end hides it, and `OwnAlerts` need `OneSession`: without a
stray socket, a socket that delivers is the controller's own and the signed-in
user's; and `StartShape`: nothing of a stream moves before it is opened.
`SpokenAsSignedIn` rests on the same two: what is spoken goes out in the name of
the account signed in, never of another and never after a sign-out, so a
recogniser that a late start turns on is heard by nobody. It is the other half of
finding 4. `AnswersFollow`: the app handles no more answers about a call than it
sent fragments of it. `PeerUsed` (`Spec => UsesPeer`) closes the composition:
every step of the phone is a step of `CallPeer` or none, and `PeerRefined` shows
that the stream handler keeps to `CallPeer` too.

**`ScreensProofs`**: `TypeCorrect`, `StatusTrue`, `FindingsPersist`, `ShownOwn`,
`ShowsLatest` and `ListsAnswered`. Each part has an invariant of its own and a
step of the whole is a step of each part or leaves it alone (`StepOfParts`). For
the scans, numbers are given out once (`Numbered`), so that one running scan at
most is current, and what the screen shows of it is its local variables (`Shows`)
and the present session's (`Owns`): a sign-out takes a number, and what ran
before never becomes current again. `Owns` allows a request that went out without
a token while signed out; its answer is an error. For the checks, the number of
the latest check names one call (`Counted`), which was sent as the account signed
in (`CurrentIsOwn`), and a reload on its way lists every check answered by then
(`Listed`), because each answer drops it.
`ProgressAdvances`: within one scan the progress never goes back and its length
is set once. Its invariant (`ProgressIsCurrent`) ties what the screen shows to the
batches the current scan has behind it; a scan that was superseded, or whose
session is over, no longer moves it.

**`ApiProofs`**: for the limiter `LimitHolds`, `RefusalsJustified` and
`CountersExpire`; for the classifier `FiledForemost` and `ScamAlerts`; for the
handlers `ListsAreCurrent`, `SummariesAgree` and `OverviewsAgree`; `TypeCorrect`
for all. The loop over the rules is a recursive function, and what it computes is
shown by induction over a set of numbers, in first-order form (`Induction`), from
the library's theorem that every set of numbers has a least one: after each rule
the leading one has the most hits so far and was the first to have them. The
limiter's invariant (`LimitInv`) says that a counter of the present minute cannot
have expired yet, since its end is a window later than some moment of that
minute, and that it is at least the number of requests counted on it; it can be
more only if a command was resent; and that one without an end is troubled or has
its creator at EXPIRE. The handlers' invariant (`HandlerInv`) has two
layers. What a request has been through decides what it has left in the tables
and what its result is (`Course`), and rows never change once their request is
answered (`Settled`); what a reader has read so far contains all that was
answered before it (`Seen`, `Read`), which later steps can only add to, and what
a list has left out of the rows stored before it (`Told`) it left out because it
was full.
From the course of a request, by `Private`, also `RowsAreCallers`: nobody reads a
row of another user but an administrator on an administrator's route, whose own
summary and history are limited to his rows like everybody's.

Three facts about the classifiers are stated for every text. `PipelineNotMilder`:
the pipeline's verdict is never milder than that of its own rules, nor than the
model's alone. `TriggersWarn`: whichever classifier is in use, a text with one of
its triggers is not called safe, and one with two of the same rule is called a
scam, whatever the model thinks. `MoreTriggersNotMilder`: a text with more of the
triggers of the classifier in use, which the model finds no better, is never
judged milder, whichever rules they are of. The last two suppose that the scores
do not fall with the hits, and `TriggersWarn` that one hit is worth the suspicious
threshold and two the scam threshold: 0.05, 0.55, 0.82 and 0.94 with 0.45 and 0.8,
in `mock.go` and in `rules.py`, satisfy all. Nothing is said of one classifier
against the other: their tables of triggers differ, and so do their verdicts.

**`SessionClientProofs`**: `TypeCorrect`, `KeepsSession` and `KeepsAccounts`. Both
properties speak of quiet moments, and the invariant of what lies between: every
token in the storage or on its way was issued by the server (`Issued`); the status
tells which flow may be under way (`FlowShape`); undisturbed, any number of calls
may refresh, nobody clears anything, each pair on its way to the storage is alive
and no other call's (`Pending`), and while the stored refresh token is spent the
one that will replace it is on its way (`Renewed`), so that the last to store
leaves a live one (`Kept`); and every token stored or on its way belongs to the
one signed in, unless a sign-out has leaked (`Own`). The last is kept by three
arguments: a call passes on an account it got from the storage (`PassesOn`), a
sign-out without a leak leaves no token anywhere (`OutAfter`), and from there only
a login brings any (`OwnFromOut`). `UserSignsOut`, from `Kept`: undisturbed,
nobody but the user ends a session on the device: it takes a refresh that the
server rejects, as in finding 3, or that fails, to sign the user out against their
will. `LedgerUsed` (`Spec => UsesLedger`) closes the composition with the server:
every step of the phone and the network is a step of the ledger or none, and
`Implementation` shows that the auth service is such a ledger.

### What is only model-checked

* Liveness (`ServesUnlessWedged`, `LeavesHome`, `StreamsEnd`): TLAPS does not
  reason about fairness. Every safety property of the passing runs is proved.
* The findings: each is one counterexample.

## 5. Not modelled, and the plan

Not modelled because there is no state or order to get wrong: CORS, request
logging, recovery from panics, the health check and the metrics endpoint; the
lookup of one number's reputation, which is one statement; configuration;
screens and widgets beyond the calls they make; generated code; ML training and
experiments; deployment manifests (two facts are used: containers are restarted,
Redis has no volume). Of the classifier the trained model is a number of its
choice, and triggers and advice are left out: no other part reads them.

Of what has state, the following is left:

1. `CallGuard`: the copy of the token held by the call-screening service and its
   lifetime, the role, and what a sign-out revokes. The code promises little that
   a property could hold it to: see finding 12.
2. The feedback of a verdict card and the isolate's notifications; that the watch
   switch comes back after a restart (liveness of `restore`).
3. The web client: the same two-token protocol as `SessionClient` over the
   browser's storage, and page loads that answer out of order.
4. `Preferences`: theme and language, restored after an await that a choice may
   overtake.
