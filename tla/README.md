# Verification of the Nexus Erebus agent: TLA+ models, checks and proofs

This directory holds TLA+ models of the agent's stateful parts, the TLC
configurations that check them on small instances, and theorems that TLAPS
proves for every value of the constants. Line numbers refer to the files in
`src/`.

- [The system](#the-system)
- [The modules and the code](#the-modules-and-the-code)
- [The runs](#the-runs)
- [Bounds](#bounds)
- [Fairness](#fairness)
- [The proofs](#the-proofs)
- [Where the code and its documents differ](#where-the-code-and-its-documents-differ)
- [Left out](#left-out)
- [Plan](#plan)

## The system

`npm start` runs three Node processes side by side; the first of them, the agent,
starts three more and restarts each of them when it ends.

| Part | Files | What it does | Module |
|---|---|---|---|
| User store | `commands.js`, `db.js`, `utils-solana.js:165-216` | A Map of users in memory, mirrored in Redis hashes and a Redis set; hydrated at boot, changed by commands and by watchers of the chain | `UserStore`, `AddressBook` |
| Commands, AI replies | `commands.js` | Turns a text or a button into a call on the store, a trade or a prompt | the calls: `UserStore`; the turns of a conversation: `ConversationMemory` |
| Trade pipeline | `jobQueue.js`, `worker.js`, `metrics.js` | A BullMQ queue and two processes that take jobs from it | `TradeJobs` (partly) |
| Swaps and transfers | `utils-solana.js:47-162`, `retry.js` | Swap by Jupiter, transfer, burn and dev share, each with retries | `Swaps` |
| Bubble firewall | `firewall.js`, `metrics.js:78-93` | A health counter per process that falls with incidents, heals, and ends the process at zero; a gauge shows it | `Firewall` |
| API tokens | `api-server.js:208-397` | Signed tokens with a key per day | `ApiTokens` |
| API pipeline | `api-server.js` | Headers, CSRF, rate limits, routes | the routes' calls: `UserStore` with `AGENT = FALSE` |
| Launch dialogue | `telegram-client.js` | AI or manual configuration, confirmation, launch | `LaunchFlow` |
| Token launch | `utils-launcher.js` | Mint, supply, picture, metadata, pool | `LaunchFlow` |
| Launcher API | `launcher/server.js` | The same over HTTP, single steps of it, trades with a pool; captcha, API keys | `LauncherApi`; the steps of the routes: `LaunchFlow` |
| Conversation memory | `memory.js` | Redis streams with an expiry | `ConversationMemory` |
| Supervision | `index.js:24-40`, `package.json:9-12`, `docker-compose.yml:38` | Starts the processes and starts them again | `Supervisor` |
| Twitter client, checks, SPL helpers, Redis client | `twitter-client.js`, `check-env.js`, `ensure-deps.js`, `utils-token.js`, `redisClient.js` | see [Left out](#left-out) | – |

How they interact. The agent and the HTTP API both import `commands.js` and so
hold a Map of users each, over one Redis. The agent alone hydrates its Map
(`initializeUsers`) and watches deposits; a watcher may queue a sell. Commands and
watchers put trades into the queue, and the worker and metrics processes take
them. Both call the swap functions, which report failures to the firewall of
their process. Every process has its own firewall; all of them publish on one
Redis channel, on which the metrics process listens. The Telegram client calls
the store and the launch; the launcher process makes the same launch for HTTP
clients. A text that is no command goes to the language model, with the last ten
entries of the user's conversation in Redis. Docker, `concurrently` and `index.js`
start all processes again when they end, which is the fairness the other modules
assume of their boot.

What is hard to test here: an `await` is a point where any other handler may run;
a Redis command or a transaction goes on when the process that sent it has
ended; a rejected promise that nothing catches ends the process, which Docker
starts again. The hazards, each at its line and with the properties that would
catch it, are listed in `PROJECT.json`.

## The modules and the code

An action is what the code does between two awaits, all of it. The names of the
source are kept where they exist. Operators commented "Faulty" are what a mistake
in the code would look like; no specification uses them. `PROJECT.json` pairs each
property with the one that must break it.

### UserStore

One instance is one process that imports `commands.js`: the agent (`AGENT = TRUE`)
or the API. `users` is the Map, `profile`, `wallet` and `members` the Redis hashes and
set, `tasks` the calls in progress with the place where each is suspended, `chain`
and `notices` the balances and notifications of Solana.

- A persist call (`upsertUser`) is SADD and then HSET. ioredis answers the commands
  of its one connection in order, so that the calls are two queues, `sadds` and
  `hsets`. Commands on the wire outlive the process: Redis may execute those of a dead
  agent during the whole boot of the next, not later. (The API serves as soon as it
  starts, and its model takes them to be lost or executed by then.) `upsertUser` also
  stores a `chatId` (`db.js:57-60`); no caller passes one, and the model has none.
- `Start`, `HydrateUser`, `SkipUser`, `HydrateThrows` and `WatchDeposits` are the boot,
  user by user.
- `NewUser` is `ensure`: the Map is set, then the caller waits for the persist call.
  `ToggleAuto` and `SetRisk` change the Map and do not wait.
- `GetBalance`, `GetTokenAccount`, `Apply` and `Resume` are the awaits of a refresh, of a
  request or of a watcher; `Resume` queues the sell.
- `SaddRefused`, `HsetRefused`, `RpcErrorCaught`, `RpcErrorThrows`, `StoreErrorThrows`,
  `PreferenceThrows` and `RiskTextThrows` are the errors and where they end: in the
  caller's `catch`, or with the process. (In the API a preference of an unknown user is
  answered with 500 and changes nothing: no step.) `Kill` is a death that no statement causes.

Amounts are kept apart only as far as the code's comparison (`u.sol > 0.05`) does; a
key stands for its address; a wallet field is a format (encrypted, too short,
damaged, plain) and a key.

`minted`, `shown`, `told`, `unsaved` and `sells` record history for the properties.

### AddressBook

What the store promises about deposit addresses, in four actions: the process opens
with the stored addresses (the API with none), assigns a handle without an address
one that was never in use, tells a user the address of the book, and closes.
`UserStore!Book` is the refinement mapping: the book is the Map of a serving process,
the stored addresses are the wallets that decrypt, the used ones are `minted`. The
boot, user by user and over any number of attempts, is the one step `Open`.

### Firewall

`hp`, `quiet` (the healing interval has passed since the last incident) and the
PUBLISH commands under way of each process; the metrics process with its inbox and
gauge. `Record` changes HP and publishes in one step; whether HP is zero is
looked at when Redis has answered (`RedisPublish`, `Pops`). `PROMPT` says that the
answer comes within the healing interval.

### ApiTokens

`now` in seconds, the base secret, the tokens handed out, the last answer of `auth`. A
signature is the key it was made with. `DAY` and `TTL` are the code's numbers; the
clock moves between the times in `Instants`. `signToken` reads the clock three times;
the model takes the reads to fall into one second.

### Swaps

A call of `executeSwap` or `burnAndDev` and the transactions it has sent:
`inflight`, `landed` or `expired`. `Send` and `Confirm` are separate, and a transaction may
land long after the attempt that sent it failed. A swap's transaction is rebuilt
on every attempt, a transfer's is signed once: `CurrentTx` says which. An error
before the signature (`Prepare`) is outside `withRetry`. At present no caller reaches
these functions with a route (see TradeJobs and `quoteSOLto` below); the module
states what they promise to any caller.

### TradeJobs

The queue and its consumers up to the first statement of a processor that cannot
succeed: `getUser` has deleted the wallet that the next line parses. BullMQ is
modelled by its use: no `attempts`, one redelivery of a stalled job. `metrics.js:19` hands
BullMQ a client of another library (`redis`), so that the metrics process may never
take a job; the model lets it, and the violation does not need it.

### LaunchFlow

A task is one run of a handler. `lastConfigs` and `awaitingManual` are the agent's
memory; a configuration is named by the task that made it. `Order` lists the steps
of a launch; `made` is what each launch has left on the chain and in Redis. A step
that throws may have been made all the same, and so may one that was under way
when the process ended. The launcher's protected routes are further kinds of
handlers: `CreateToken`, `CreatePool` and `TradeToken` are their steps.

### LauncherApi

A request and the await at which it is suspended, in `captchaMiddleware`, in
`validateApiKey` or in a route; the captcha counters and API keys in Redis with the
ticks until they expire; the incidents reported to the firewall. A key is named by
the request that generated it. INCR and EXPIRE are two commands, and so are two steps.
SET is answered over one connection, so that its replies are a queue (`replies`).
`Throws` is the error of any await and the `catch` that gets it: the middleware's, the
route's, or, for `validateApiKey`, which has none, the error handler of Express 5
(`server.js:465`). When the process ends, a command on the wire may still be executed
(`LateCommand`). `told`, `age` and `cut` record history.

### ConversationMemory

A turn is one run of `dispatchAI`: `remember` the text, `recall`, ask the model, `remember`
the answer. A stream is a sequence of entry numbers, with the ticks until it expires.
`remember` is XADD and then EXPIRE; ioredis may send either again when the connection
broke before the reply (`SentAgain`), and either may come late from a process that
ended. `Newest` is XREVRANGE, `Recalled` the reversal. `own`, `lost` and `cut` record
history.

### Supervisor

The container, the three commands of `npm start`, the place of the agent's command in
its row of scripts, the processes and timers of `startService`, and the launcher's port.
Any process may end at any time. When a command ends, `concurrently -k` ends the others
and Docker starts the container again; when a service of `index.js` ends, a timer
starts it. Two launchers run. With Express 5 an error of `listen` goes to the callback,
which ignores it (`launcher/server.js:471`): the second launcher lives on without the port
(`Listen`). `DockerStarts` is the start after the prestart script (`package.json:8`) has
succeeded, which depends on files on the host.

### MC modules

`MCUserStore` gives the contents of Redis before the first boot and the symmetry set,
`MCApiTokens` the times of a day; the other MC modules only name the module to check.
Symmetry is used in `store_calls`, which has no liveness property, over handles, keys
and slots, which no definition names.

## The runs

Run one with `tlc -config X.cfg M` in this directory.

| Run | Module, configuration | What it checks |
|---|---|---|
| `store_calls` | `MCUserStore`, `UserStore_calls.cfg` | `StoreCatchesUp`: the last persist call under way carries what the Map holds, and when none is under way the hash reads back as the Map, unless Redis refused the last one or a command of a dead process overtook the boot. `OneAddressPerProcess`: concurrent first requests are answered with one key. `StoredKeyIsUsed`: a serving agent uses every stored key, after whatever restarts. `SavedIsListed`: every hash has its handle in the set the boot reads. `ImplementsAddressBook`: the whole is an implementation of `AddressBook`. |
| `store_live` | `MCUserStore`, `UserStore_live.cfg` | `CallsEnd`: each call ends. `BootEnds`: a process that is down comes to serve, when no stored key is damaged. `AutoSellsPerChange`: at most two sells for a balance change, one for each watcher. |
| `firewall` | `MCFirewall`, `Firewall.cfg` | `NoIdleAtZero`: a process without HP has a `record()` under way that will look at it. `ZeroIsFinal` and `PoppedExits`: with prompt answers, HP never leaves zero and the process ends. `GaugeIsExact`: the gauge ends at the HP of the process heard last. |
| `swaps` | `MCSwaps`, `Swaps.cfg` | `TransferOnce`: a transfer pays at most once though it is sent up to three times. `SwapsBounded`: a swap is executed at most three times. `BurnBeforeDev`: no dev share before the burn has landed. `PaidExactly`: the shares never exceed the amount, and add up to it when the call returns. `CallsEnd`: every call ends. |
| `launch` | `MCLaunchFlow`, `LaunchFlow.cfg` | `MadeInOrder`: wherever a launch stops, there is a pool only with metadata, metadata only with a supply, and all of it on success. `OwnConfig`: a confirmed launch uses a configuration of the same user. `ManualOnce`: one text for each press of "Manual Launch". `TasksEnd`: every handler ends. |
| `launcher_api` | `MCLauncherApi`, `LauncherApi.cfg` | `CounterExpires`: a captcha counter has an expiry or one on its way, unless its EXPIRE was cut off. `ToldKeyWorks`: the key told last works for its two hours, unless a later request of the user stored another. `ServedWithFreshKey`: a protected route runs only with the user's own, unexpired key. `ReportedRight`: the firewall hears of refused keys and errors and of nothing else, at most twice. `RequestsEnd`: every request ends. |
| `memory` | `MCConversationMemory`, `ConversationMemory.cfg` | `ExpiryUnlessCut`: no stream without an expiry, or one on its way, unless its EXPIRE was cut off. `HistoryInOrder`: what is recalled is a gapless run, oldest first. `OwnTextRecalled`: a turn recalls its own text unless newer entries or the expiry took its place. `TurnsEnd`, `Forgotten`: turns end, and so do conversations. |
| `supervisor` | `MCSupervisor`, `Supervisor.cfg` | `Supervised`: each service of `index.js` has one process or one timer. `PortNotLost`: who has the port runs, and while nobody has it a launcher is still to try. `SettlesDown`: when processes stop ending, everything serves and stays so. |

Four runs, `store_keys_lost`, `store_live_balance`, `token_hours` and `trade_retry`, are
expected to find a violation; see
[below](#where-the-code-and-its-documents-differ).

`TypeOK`, the type invariant of each module, is proved for every value of the constants
(`TypeCorrect` in the proof modules) and not checked again by the runs. Deadlock is not checked in `swaps`,
`launch`, `launcher_api`, `memory`, `supervisor` and `trade_retry`, where calls, handler runs,
requests, turns, deaths and jobs are used up and the system may stop.

## Bounds

- `UserStore`: one handle and two concurrent calls. No action relates two handles
  except by the order of Redis commands, which two calls of one handle show as
  well. Two keys tell a generated key from a stored one. Two persist calls may be
  in flight before a request adds another, so that three are queued: enough for
  two of one kind with one of another kind between them. One balance change and
  amounts on both sides of 0.05 run each watcher with and without a sell. Errors
  are not bounded: each may happen at every step, and the process restarts.
- `store_live` has one call at a time and no symmetry, for the temporal properties.
- `store_live_balance` has two calls at a time and two balance changes: a refresh that
  overlaps the watcher of a change.
- The API process (`AGENT = FALSE`) has no run: what is said of the store is proved for
  either value of `AGENT`.
- `Firewall`: two processes, so that one gauge has two sources; 4 HP and weights that
  reach zero exactly and by more; three incidents.
- `ApiTokens`: the seconds around 22:00 and around midnight; one restart, with a set
  secret.
- `Swaps`: two calls, the code's three attempts, 40 % as in `.env.example`, amounts 0
  and 3 (of which the burnt share is not whole).
- `LaunchFlow`: three handler runs of two users, one without a key: two AI dialogues
  and a confirmation, or a request for a manual launch and two texts; one request to
  the launcher among them, of each of its four kinds.
- `LauncherApi`: three requests, one address, two users: two requests for a key and one
  that uses it, or three that fail the captcha together; lifetimes of one and two
  ticks, so that a key outlives a counter and both expire within a run.
- `ConversationMemory`: two turns of one user, a lifetime of two ticks, `recall` of two
  entries (the code's ten): two turns add up to four entries and one repeated, so that
  a turn's own text may be pushed out. Streams of different users share nothing.
- `Supervisor`: the code's six processes, six deaths: each of them once, or one of them
  again and again while the others restart.

## Fairness

- `UserStore`: weak fairness of the boot (Docker restarts the process, `restart:
  unless-stopped`), of Redis answering each queue, and of the answer or the error of
  the RPC node for each call. Users, the chain and failures are not fair. Redis may
  stay away for any time: ioredis keeps commands (`maxRetriesPerRequest: null`).
- `Firewall`: Redis answers PUBLISH in the end.
- `Swaps`: each step of a call is taken in the end, an attempt by success or by error
  (`sendAndConfirmRawTransaction` times out). Transactions need neither land nor
  expire.
- `LaunchFlow`, `LauncherApi`, `ConversationMemory`: each await ends, by an answer or an
  error. Processes need not end, nor late commands arrive. In `ConversationMemory` the
  clock goes on.
- `Supervisor`: Docker starts the container (`restart: unless-stopped`), a timer of
  `startService` fires, `concurrently` ends the other commands, a script of the agent's
  row comes to its end, and a launcher comes to `listen`. No process is made to end.

`CallsEnd` of `Swaps`, `TasksEnd`, `RequestsEnd` and `TurnsEnd` say that in the end nothing is
under way, and stays so. There each call, handler run, request or turn of the model
runs once, so that this is the same as that each one that starts ends. In `UserStore`
calls come for ever, and `CallsEnd` is a leads-to for each slot.

## The proofs

`tlapm M.tla` checks module M. All theorems hold for any sets and numbers that
satisfy the named assumptions of the modules (which TLC evaluates in the runs).

| Theorem | Statement |
|---|---|
| `UserStoreProofs!TypeCorrect`, `OneAddress`, `StoredKey`, `Listed`, `CatchUp` | `TypeOK`, `OneAddressPerProcess`, `StoredKeyIsUsed`, `SavedIsListed`, `StoreCatchesUp` |
| `UserStoreProofs!BookImplemented` | `Spec => Book!Spec` (`ImplementsAddressBook`) |
| `UserStoreProofs!AutoSellsBounded` | `AutoSellsPerChange` |
| `UserStoreProofs!NoneLeftWaiting`, `CallsAreBounded` | a call that waits for `persist` has a persist call under way (`AnswersDue`); a call passes at most five phases and never goes back (`CallsGoOn`) |
| `FirewallProofs!TypeCorrect`, `NeverIdle`, `FinalZero`, `ExactGauge` | `TypeOK`, `NoIdleAtZero`, `ZeroIsFinal`, `GaugeIsExact` |
| `ApiTokensProofs!TypeCorrect`, `SameDayWorks`, `ServedFresh` | `TypeOK`; `WorksIfSameDay`: of the current secret, exactly the tokens signed before 22:00 UTC work; `ServedIsFresh`: no request is served with a token older than two hours |
| `SwapsProofs!TypeCorrect`, `TransfersOnce`, `BurnsFirst`, `SwapsAreBounded`, `PaysExactly` | `TypeOK`, `TransferOnce`, `BurnBeforeDev`, `SwapsBounded`, `PaidExactly` |
| `SwapsProofs!CallsAreBounded` | a call makes at most `6 * ATTEMPTS + 6` steps (`StepsLeft`) |
| `LaunchFlowProofs!TypeCorrect`, `FromTheFront`, `OwnConfigs`, `OneTextEach` | `TypeOK`, `MadeInOrder`, `OwnConfig`, `ManualOnce` |
| `LaunchFlowProofs!TasksAreBounded` | a handler run makes at most eight steps (`StepsLeft`) |
| `LauncherApiProofs!TypeCorrect`, `CountersExpire`, `ToldWorks`, `ServedFresh`, `Reported` | `TypeOK`, `CounterExpires`, `ToldKeyWorks`, `ServedWithFreshKey`, `ReportedRight` |
| `LauncherApiProofs!RequestsAreBounded`, `RepliesCome` | a request makes at most seven steps (`StepsLeft`); the reply a request waits for is in the queue (`RepliesDue`) |
| `ConversationMemoryProofs!TypeCorrect`, `NoneForEver`, `OldestFirst`, `OwnText` | `TypeOK`, `ExpiryUnlessCut`, `HistoryInOrder`, `OwnTextRecalled` |
| `ConversationMemoryProofs!TurnsAreBounded`, `SilentFade` | a turn makes at most eight steps (`StepsLeft`); after a user's last turn every tick brings the end of the stream closer (`Fades`) |
| `SupervisorProofs!TypeCorrect`, `AlwaysSupervised`, `PortKept` | `TypeOK`, `Supervised`, `PortNotLost` |
| `SupervisorProofs!RestsInService`, `WorkIsBounded` | when nothing is due all services run and the port is taken; every step leaves less to do (`WorkEnds`) |

**UserStore.** `StructureInv` is the invariant the others stand on: the types, `TasksInv`
(a call in progress belongs to a serving process and to a user in the Map) and
`CallsInv` (in a serving process a persist call is for a user in the Map, and the call that waits for it
waits for no other). Without `CallsInv` a step that answers a persist call could
resume a call that is not there. `StructureStep` shows it inductive, action by action.
On top of it

- `OneAddressPerProcess` is inductive: an address is shown only from the Map, and no
  action replaces a user in the Map;
- `StoredKeyIsUsed` needs `BootInv`: during the boot a stored key is in the Map or its
  handle is still to be visited, and every stored key has its handle in the set;
- `BookImplemented` needs `Hydrated`, the converse: during the boot of an agent the Map
  holds nothing but stored keys, so that the book opens with exactly those. `MapSteps`
  sorts all steps by what they do to the Map (nothing, a new user, a key shown, a
  boot, an end), and `BookStep` maps each of these to a step of the book or to none;
- `SavedIsListed` needs `ListedInv`: an HSET is sent only when its SADD was answered, so
  that the handle of every call in `hsets` is in the set;
- `StoreCatchesUp` is inductive as stated, because it speaks of the last entry of each
  queue and not of the hash alone. An append makes the new value the last entry;
  an answer moves an entry from `sadds` to `hsets` or from `hsets` to the hash. The lemmas
  `AppendLast` to `RefusedCatchesUp` are these moves. During the boot it says that a
  hydrated user is the stored one, unless an HSET of the dead process came after the
  read (`unsaved`);
- `AutoSellsPerChange` needs `SellsInv`: the sells of a user, the notifications that wait
  and the watchers that run are together at most twice the balance changes. A sell is
  paid for by a run, a run by a notification, and a notification by a change. The runs
  are counted by an injection into `1..m` (`AtMost`), since `Slots` may be infinite;
- `AnswersDue` is the converse of `CallsInv`. `CallSteps` shows of every step and every call
  that the step ends the call, or leaves it and its persist call alone, or takes it to
  a later phase, with a persist call of its own if it waits for one.

**Firewall.** `GaugeIsExact` needs `LastIsCurrent`: the last event waiting of a process
carries its HP, and, when none is waiting, so does the last message of the process
heard last. `NoIdleAtZero` follows from the order of the queue, and `ZeroIsFinal` from
`NoIdleAtZero`: with prompt answers the timer does not run while a `record()` waits.

**ApiTokens.** `Signed` says that each token has the expiry and the key that
`signToken` gives. `SameDay` then compares the two days by division with
remainder (`DivMod`, `DivUnique`).

**Swaps.** `IInv` says of every transaction ever sent that it carries the amount of its
call, that a transfer's is the one signed first, and that one to the dev wallet
exists only when the burn has landed; the last of every call at that leg; and that a
call which returned has its last transaction on the chain. The transactions of a swap
then differ in the number of the attempt only, which is the injection into attempts
that `SwapsBounded` counts by. Those of `burnAndDev` are at most two, of known amounts, so
that the sum in `PaidExactly` is that of the two parts of the amount. `Rank` counts the
steps a call has left; a failed attempt lowers it because the attempts are counted, the
change from burn to dev because it comes once.

**LaunchFlow.** `TypeInv` adds to the types which handlers may be at a step of a launch
(`Placed`). `MadeInOrder` alone is not inductive, since it does not say how far a launch
is: `ProgressInv` says that what a launch has made are the effects among its first n
steps, for the n that its place determines. `OwnConfig` needs `KeptOwn`, the same of
`lastConfigs`. `ManualOnce` counts: `AskedInv` says that the texts taken, plus one while a
text is awaited, are at most the requests that were answered; the sets counted are
finite because each step starts at most one handler, so `Tasks` may be infinite.
`TasksAreBounded` numbers the awaits of the handlers backwards (`Left`): the next step of
a launch, of whatever kind, has a smaller number (`FollowingLeft`), and an error has none.

**LauncherApi.** `ToldKeyWorks` is about two requests whose replies are under way:
`ToldInv` says of the key told last, and of the key of each waiting reply, that it is
the stored one, or expired, or followed by a later one which waits behind it or never
will be told. It is inductive because replies come in the order of the SETs.
`StoredInv` ties the ticks left of a stored key to its age, for `ServedWithFreshKey`.
`CounterExpires` and `ReportedRight` are inductive on top of `TypeInv`, the latter with
`Unreported` (nothing is reported before the request ends). `RequestsAreBounded` numbers
the awaits of a request backwards (`Steps`), the commands that come late included.
`RepliesDue` is inductive: a SET adds its request to the queue, and a request leaves the
queue only when it gets the reply, fails or ends with the process.

**ConversationMemory.** `Numbered` says that a stream holds consecutive numbers that end
with the last one given; `HistoryInv` adds that the own entry of a turn was added
(`OwnAdded`). `RecalledRight` derives both properties of a history from these. `TurnsAreBounded`
numbers the awaits of a turn, for the text and for the answer. `Fades` follows from
`ExpiryUnlessCut`: a stream none of whose turns goes on has an expiry, and only the clock
changes it.

**Supervisor.** `SupervisorInv` is inductive: `CommandsInv` (all three commands run while the
container is up, and nothing while it is down), `ServicesInv` (no service before
`index.js`, one process or timer for each while it runs, at most one afterwards) and
`PortInv` (who has tried to listen runs).

`AtRest` says that no timer, script, `listen`, kill or start of the container is due;
`SupervisorInv` then leaves one possibility, in which all services run. `Work` adds up what
is due, weighted so that a step that makes other things due (a kill, a stop, a start of
the container, a death) costs more than it makes: between two deaths at most 37.

Every invariant and every action property that a passing run checks is proved.
`WorksIfSameDay` and `ServedIsFresh` are proved and have no run. Checked by TLC only are the liveness properties, since the
prover has no rules for fairness and ENABLED. What of them needs no fairness is proved:

| Checked by TLC | Proved without fairness |
|---|---|
| `CallsEnd` of `UserStore` | `CallsAreBounded`, `NoneLeftWaiting`: what a call waits for is under way, and after it the call is further on |
| `CallsEnd` of `Swaps`, `TasksEnd`, `TurnsEnd` | the bounds on steps |
| `RequestsEnd` | `RequestsAreBounded`, `RepliesCome` |
| `Forgotten` | `SilentFade` |
| `SettlesDown` | `WorkIsBounded`, `RestsInService` |
| `PoppedExits` | `NeverIdle`, `FinalZero`: at zero HP a `record()` is under way that will end the process, and HP stays there |
| `BootEnds` | nothing: it is about fairness of the boot alone |

That the process then takes the step which is left, is the fairness of the section
above.

## Where the code and its documents differ

| Run | Property | What happens |
|---|---|---|
| `store_keys_lost` | `GivenKeysAreKept` | `README.md:373` says no user data is lost on crashes; the key that `ensure` generates is never written, so a restart loses the key of an address the user was given. |
| `store_live_balance` | `LiveBalance` | `commands.js:127` calls the watcher "Live balance / deposit watcher"; of two refreshes that overlap, the one that read first may store last, and the old balance stays until the next change. |
| `token_hours` | `WorksTwoHours` | `README.md:219` gives a token two hours ("2 h TTL"), and so does `SECURITY.md:152`; one signed in the last two hours of a UTC day never works, since `verifyToken` takes the key of the day of its expiry. `SameDayWorks` proves that, while the secret stays, these are the only ones. |
| `trade_retry` | `FailedJobsRetried` | `README.md:354` promises retries of failed jobs; jobs are added without `attempts`. Every job fails, because `getUser` has deleted the wallet that `worker.js:43` and `metrics.js:115` parse. |

Met while modelling, most of them hazards of `PROJECT.json`:

- A stored key that cannot be decrypted ends every boot, where `commands.js:124` announces
  that it is skipped (`HydrateThrows`; `BootEnds` is checked without such a key).
- `risk ...` as a text and `auto ...` as a first message end the agent; a plain-text wallet
  is never migrated; the API generates a key for a user whose key is stored.
- `quoteSOLto` calls a method the Redis client does not have.
- A configuration that was never shown can be launched by the button under an
  earlier one.
- HP may leave zero when Redis answers later than the healing interval.
- `getUserKP` and `generateImage` of the launcher report an error that the route's `catch`
  reports again.
- `getPortfolio` adds to a stream that is neither trimmed nor read (`commands.js:212`).
- A clone that `ensure-deps.js:27` did not finish leaves a folder that the next boot takes
  for the repository; every later boot then exits.
- `npm start` first runs `./redis/src/redis-server` (`package.json:8`), which `Dockerfile:22`
  removes; `docker-compose.yml:48` mounts the host's folder over it, so that the container
  starts only where Redis was built there.
- `index.js` starts a second launcher next to the one of `npm start`; it never gets the
  port, and does not take over when the first one ends.

And three sentences of the documents that the model of the code does not bear out:
without `RECAPTCHA_SECRET` the captcha "will be disabled" (`launcher/server.js:69`), but the
middleware still asks for a token; the captcha "raises challenge requirements"
(`launcher/README.md:195`), but `required` only appears in the text of the error; and the
memory's lifetime (`README.md:368`) is that of the whole stream, renewed by each entry.

## Left out

- Text: regular expressions, wording, menus, prompts, logging.
- The rest of a trade job (fuel, trade, balances, message): no job gets there.
- The `llm` and `apiTasks` queues: no file adds a job to them.
- The prestart script and the files it needs.
- API headers, CSRF cookies and rate limits: configuration of libraries.
- Loss of data by Redis itself: `docker-compose.yml:7` has it save once a minute, and a crash
  of Redis takes back what came after. The models let every other process crash.
- `quoteSOLto`, `fetchSolPrice`, `getPortfolio` after its refresh: reads without effect on
  any state that is modelled.
- `twitter-client.js`: a login with one fallback and no state afterwards.
  `check-env.js` and `ensure-deps.js`: one-shot scripts. `utils-token.js`: imported by no file.
  `redisClient.js`: its one option is an assumption of `UserStore` and `Firewall`.
- Cryptography: encryption, signatures and key derivation are taken to be
  injective; random keys never collide.

## Plan

1. `UserStore` with two processes over one Redis: what the API and the agent may do to
   each other's hashes.
2. `TradeJobs` to the end of a job, composed with `Swaps`, once the step that fails today
   is repaired: delivery at least once, and what it repeats.
3. `LauncherApi` composed with `LaunchFlow`, which now begins where the API key has been
   accepted.
