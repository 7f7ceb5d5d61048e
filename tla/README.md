# WOS-SFC: models, checks and proofs

WOS-SFC is the operations site of a game alliance: a NestJS server
(`src/server`) with HTTP routes, Socket.io gateways and a MySQL database, and a
React client (`src/web`).  Its core is the *battle tab*: spoken countdowns that
every browser has to play at the same moment, and of which only one may sound at
a time.  Around it are a live *operation board*, a chat that is translated while
it is read, uploads, lists, sessions, and a clock that every browser estimates
for itself.

This directory holds TLA+ modules that model all of these, TLC configurations
that check them on small instances, and TLAPS proofs of what holds for every
instance.  Comments in the modules name the code they stand for; `PROJECT.json`
maps each definition to its lines, lists every hazard at its line with the
properties about it, and gives for every property a *mutant*: an operator marked
`MUTANT of ...` that changes one definition as a bug would, and with which TLC
finds the property violated.

Contents: 1 the system, 2 the modules, 3 the runs, 4 fairness, 5 proofs,
6 disagreements between the code and what it says of itself, 7 abstractions,
8 what is not modelled, 9 what is left.

## 1. The system and its parts

| Part | State it keeps | Operations | Modelled in |
|---|---|---|---|
| Countdown lock (`realtime/busy-lock.service.ts`) | `holder`, `autoReleaseTimer` (memory) | `tryAcquire`, `reschedule`, `release`, `getHolder`, the timer | `BusyLock`, `AnnouncementGate` |
| Alliance countdown (`realtime/realtime.gateway.ts`) | `countdown` (memory), requests awaiting a query or the probe | `countdown:start`, `countdown:stop`, end of the lease, connection snapshot | `CountdownGate`, `Battle` (partly) |
| Rally groups (`rally-groups/*.ts`) | rows of groups and members, `runningCountdowns`, `runningGroups`, requests between two queries | start, stop, idle reset, restart, snapshots; create, remove, renumber; members, march overrides, settings | `RallyCountdown`, `RallyMembers`, `Battle` |
| Battle tab (`store/index.js`, `useSocket.js`, `components/Battle`) | `countdown`, `busyHolder`, `rallyGroups`, `rallyCountdowns`, the march time and its copy on the device | a store update per socket event, players mounted from the store, the panel that loads and saves | `BattleClient`, `MarchSettings`, `SpeechPlayer` (partly) |
| Audio players (`countdownPlayer.js`, `rallyGroupPlayer.js`, `tts.js`) | words reserved on the audio clock | schedule, reschedule, late and failed buffers, a clock that stands still, stop | `SpeechPlayer` |
| Readiness negotiation (`ready-negotiation.service.ts`, `useReadyProbe.js`) | probes on their way | probe every socket, nearest-rank percentile, cap | `ReadyNegotiation` |
| Clock synchronisation (`clockSync.js`) | offset, lifecycle token, timers | startup, retries, periodic, drift, other tabs, shutdown | `ClockSync` |
| Socket rate limit (`ws-rate-limit.service.ts`) | a window per socket and event | check, cleanup | `RateLimits` |
| Login throttle, request limits (`common/*`, `translation-rate-limit.service.ts`) | windows per account and address, per caller and in all | consume, clear, sweep | `RateLimits` (partly) |
| Socket authentication (`socket-auth.service.ts`) | lookups under way | the lookup that gateways share | `Presence`, `ApiSession` (partly) |
| Users, administration (`admin/*`, `users/*`) | accounts | change of role, ban, kick, ownership of nicknames | `Presence`, `Bulletin` (partly) |
| Sessions and tokens (`auth/*`, `api/index.js`) | refresh rows; per tab one refresh, requests, a socket | issue, rotate, revoke; login, 401 and retry, logout | `Sessions`, `ApiSession` |
| Live operation board (`operation-boards.gateway.ts`, `useOperationBoardSocket.js`) | elements, bytes, background, participants; a replica per browser | join, leave, add, remove, clear, replace, background, permission, chat; connect, disconnect | `OperationBoard` |
| Saved boards, background files | rows, files, the live background | save, remove, upload, purge of orphans | `UploadFiles`, `UploadQuota` (partly) |
| Operation board UI (`OperationBoardCanvas.jsx`) | the stroke being drawn | pointer, thinning, emit | `DrawingCanvas` (partly) |
| Chat (`chat/*`, `useChatComposer.js`) | messages, the input line | connect, history, send, acknowledge, remove old ones | `ChatServer`, `Composer`, `Retention` |
| Translation pipeline (`translate/*`) | queue, memory and table of translations, calls of the engine | run, split, retry, cache, detect the script | `TranslationQueue`, `TranslateEngine`, `PostTranslation`, `Texts` (partly) |
| Translation in the browser (`translationSync.js`) | marks of messages, one batch, waits and retries | push, wait, batch, retry, manual request, switch of language | `TranslationSync` |
| Boards and uploads (`boards/*`, `Board.jsx`) | posts, files, reservations, the page's form | guard, reserve, scan, save, remove, purge; translate, write | `UploadQuota`, `UploadFiles`, `BoardPage`, `Bulletin` (partly) |
| Notices, rallies, members, alliance notices | rows, lists in each browser | add, remove, read and broadcast | `Bulletin` |
| Speech synthesis (`tts/*`, `scripts/tts-generate.ts`) | files, metadata, pending table, characters | request, generate, invalidate, clean | `SpeechCache` (partly) |
| Database migration (`database/*`, `migrations`) | schema, history, GET_LOCK | lock, read, execute, record, exit; cutting of a file | `Migrations`, `Texts` |
| Application shell, i18n, layout | - | wiring, routing, rendering | not modelled |
| Deployment, documentation | - | scripts and text | not modelled |

"Partly" is explained in section 8.

How they interact.  Socket handlers and HTTP handlers run in one Node process: a
handler is atomic up to each `await`, and anything else may run there.  Both
countdowns call the lock synchronously.  The lock's timer calls back into the
service that took it.  Services read and write the database with an `await` each
and broadcast in between.  Every broadcast goes to every connected socket, in
emission order; a browser that is offline misses it and gets snapshots when it
comes back, one from each gateway, after the queries that gateway makes.  A
translation is pushed when its call ends, while the browser may ask for the same
one in a batch.  A countdown that is announced is spoken by each browser on its
own estimate of the server's clock, by words reserved on the audio clock.  A
crash loses all memory and keeps the database and the files.

What is hard here, and what the properties are about: handlers that check, await
and act; leases armed before their end is known; timers that fire early; a lock
in memory next to a state in the database; several queries of several requests
about the same rows; results that come after the setting they were asked under
has changed; measurements that are stale when used; browsers that miss a
broadcast; retries of what was already done; restarts between two steps.

## 2. The modules

```
BusyLock - BattleClient - CountdownGate - RallyCountdown - Battle - MCBattle
                                                             |
                                AnnouncementGate -(refined by)
                                                             |
OperationBoard - MCOperationBoard                       RoomProofs

MCStorage   UploadQuota  UploadFiles  Bulletin    StorageProofs
            SpeechCache  RallyMembers  Migrations   and RecordsProofs
MCAccounts  Sessions  Presence  RateLimits        AccountsProofs
            ApiSession
MCChat      ChatServer - TranslationSync          ChatProofs
            TranslationQueue  TranslateEngine     PipelineProofs
            PostTranslation  Retention  Texts
MCBrowser   ClockSync  SpeechPlayer               BrowserProofs
            ReadyNegotiation  Composer  MarchSettings  BoardPage
            DrawingCanvas

Lists       filters, rests and totals of lists, the recursion as functions
Counting    what the proofs share about sums, lists, moments and finite sets of numbers
```

### The battle and the board

* **BusyLock**: the lock as a value `[holder, timer]` and its methods as
  operators on it (`Acquired`, `Rescheduled`, `Released`, `Expired`), because
  handlers call several of them in one synchronous block.  Time is relative: a
  timer carries the ticks that are left.  A timer is due when at most
  `EarlyFire` ticks are left, which is how Node's timers behave against
  `Date.now`.
* **BattleClient**: one browser.  `client.stage` is `offline`, `joining`
  (socket up, snapshot still being read) or `online`; `See...` is what each
  event does to the store; `Broadcast` applies it unless the browser is
  offline.  `Playing` is what the mounted players speak.
* **CountdownGate**: `countdown:start` and `countdown:stop` as requests with a
  stage per `await`: `starting` (the sender is looked up), `probing` (the lock
  is taken, the negotiation is awaited), `stopping`.  `Refused` gathers every
  early return, because each leaves everything alone; it may be taken by any
  request, since whether a sender is an admin or too fast is data.
  `CountdownLeaseEnds` is the callback of the lease.
* **RallyCountdown**: each HTTP request, and each idle reset, is a job: `load`,
  `write`, `read` while a query is on its way, `loaded`, `written`, `readDone`
  when it was answered and the service has not gone on.  So a query takes effect
  in one step and its handler goes on in a later one.  `snapshot` and `cached`
  are the gateway's `runningCountdowns` and `runningGroups`.  A request of kind
  `publish` stands for the tail that the requests about members and `remove`
  share: read a group, broadcast what was read.
* **Battle**: the composition: both gates, the browser's drops and
  reconnections, `Tick`, `Restart` (with `onModuleInit`), fairness and the
  properties.  `Faults` names what the environment may do: `overlap` (a second
  call about a group while one is in flight), `dbError`, `slowDb` (a lease ends
  while the start that took it still waits for the database), `clientDrop`,
  `probeError`, `restart`.  A run that leaves one out says so by its constants.
* **AnnouncementGate**: the abstract specification: one announcement at a time,
  nobody takes the gate from its holder, and it always opens again.
* **OperationBoard**: the live board.  `link[b]` is `looking` from the
  connection until the account lookup all gateways share ends; `joining` are the
  joins that wait for it, and only joins wait.  `sent[b]` holds the joins and
  leaves of a browser in order, buffered while it is offline as
  socket.io-client does; an edit is one step, since a browser may send any.
  `inbox[b]` are events on their way, `Handle` is what the hook does with one.
  `Settled(b)` is the replica once the inbox has arrived, which is what the
  properties compare with the board.

### Bundles

The other components share no state with each other.  Each has its module with
its `Init`, its next-state relation and its properties; a bundle (`MCStorage`,
`MCAccounts`, `MCChat`, `MCBrowser`) extends them and chooses in the initial
state one `part` that runs, while the others stay where they began.  So the
states of the parts add up instead of multiplying, one run checks the properties
of all of them, and every part is explored completely.  Some components occur as
several parts with one difficulty each, for instance the chat while settings
change, while the connection breaks, and with more than one candidate.

What is kept (`MCStorage`):

* **UploadQuota**: reservations of the guards and of the interceptor, a scan
  shared by whoever waits, and `changed`, which throws it away when a reservation
  ends or a file is deleted while it runs.  A scan reads in several steps.
* **UploadFiles**: files, the rows that name them, what is shown live; saving,
  removing, and the purge, which lists, queries and deletes in three steps.
* **Bulletin**: a table, requests that change it, read it and emit it, a browser
  that is sent lists by all of them; creation stamps in whole seconds, and
  nicknames that come back with another account.
* **SpeechCache**: clips, the pending table, metadata and its atomic
  replacement, releases that change a setting, the script beside the server.
* **RallyMembers**: transactions on the members of a group, the numbers of
  groups, the list that the start of a countdown loads.
* **Migrations**: containers that acquire, read the history, execute statement
  by statement, record and exit; kills between any two; files that a release
  changes; a database that is not there, or has been migrated up to any file, or
  has tables of any definition and no history.  A statement of a `Guarded` file
  (`CREATE TABLE IF NOT EXISTS`) leaves alone what it finds, whatever its
  definition, and an `Atomic` file is one transaction.

Accounts (`MCAccounts`):

* **Sessions**: the rows of one account, one step per query of `issue`, `rotate`
  and `revoke`, with the prune that follows an insert.
* **ApiSession**: tabs that share cookies, requests that meet a 401 together and
  share one refresh, the logout, the socket.
* **Presence**: connections with the lookup, the snapshot and the way out; edits
  of accounts and the kick; the coalesced list; the tracker that turns lists into
  messages.
* **RateLimits**: the windows of the logins with the sweep, of the provider, of
  the events of a socket.

Chat and translation (`MCChat`):

* **ChatServer**, **TranslationSync**: the server and the viewer's browser with
  an inbox between them: messages, translations under way, history, pushes and
  batches; the switch of the language or of the translation in the middle.  Which
  languages the server does not translate a message into (`ServerSkips`) and
  which the browser does not ask for (`ViewerSkips`) are two constants, since
  each decides by its own classes of characters.  What the server skips in a batch
  is quietly done (`Settle`, and `told` remembers it), and a scan asks for the
  `ScanItems` newest only.
* **TranslationQueue**: slots, the line, the window and the limit.
* **TranslateEngine**: the parts of a request cut into calls that fit the output,
  and cut again when an answer is short or no JSON.
* **PostTranslation**: memory, table and one shared call per text.
* **Retention**: runs that delete in batches and may overlap.
* **Texts**: the language a text is certainly in, by the server and by the
  browser.  A character is what each takes it for: the script that Unicode gives
  it and whether it is a letter there (`script-detect.ts`), the range it falls in
  here (`script.js`).  And the two automata that
  strip comments and cut statements, against a reference of what MySQL takes for
  strings and comments, over all texts of up to five of the characters that matter.

The queue, the engine, the posts, the scripts and the retention are the pipeline
(`PipelineSpec` in `MCChat`), each of which takes its steps in any order;
`PipelineSound` is what they promise together.

One browser (`MCBrowser`):

* **ClockSync**: samples by ping or HTTP, the estimate as an offset, `skew` for
  the true one, lifecycle tokens, loops of retries that outlive a session.
* **SpeechPlayer**: both players, which have the same code but for the words;
  the reservations on an audio clock that may stand still.
* **ReadyNegotiation**: the sockets counted by their answers, the delay against
  what the clients need.
* **Composer**: an input line, sends with acknowledgements lost or late; a send
  that was given up may still be taken by the server, whatever has been typed or
  sent since (`TakenLate`).
* **MarchSettings**: the panel's loads and saves across remounts, the copy on the
  device, which may be there from the start and be another account's, the store
  that the players read, and other devices that save (`SavedElsewhere`).
* **BoardPage**: translations of posts across a switch of language, the form
  while its pictures are uploaded.
* **DrawingCanvas**: a stroke and its thinning against the server's limit.

## 3. The runs

| Run | Instance | Checks |
|---|---|---|
| `countdown` | 3 requests, no group, drops, restarts, early timers | `ActiveHoldsLock`, `LeaseEndsWithCountdown`, `CountdownSeen`, `BusySeen`, `EndsOnTimeOrByStop` |
| `rally` | 2 groups, 2 HTTP requests, 1 countdown request, one call at a time per group | `RunningIsBacked`, `OnlyHolderIsHeard` |
| `disorder` | 1 group, every request, every fault | `TypeOK`, `LeaseOfHolder`, `RallyLosesLockByItself` |
| `progress` | 1 group, 1 request each, fairness | `GateSpec`, `RunningEnds`, `CountdownEnds`, `BusyClears`, `JobsEnd` |
| `boardReplica` | 1 administrator, 3 strokes of which 2 share an id, 1 image, refused requests, 1 restart | `BoardTypeOK`, `BoardBounded`, `ReplicaFollows` |
| `boardShared` | an administrator and a member, 1 stroke, fairness | `PresenceFollows`, `BoardOfConnected`, `TabJoins` |
| `storage` | the parts of `MCStorage` | `TypeOK`, `StorageSound`, `FilesSurvive`, `ListsTrue`, `WaitersEnd` |
| `accounts` | the parts of `MCAccounts` | `TypeOK`, `TokensSound`, `SessionLasts`, `PresenceTrue`, `LimitsHold`, `SessionSettles` |
| `chat` | the parts of `MCChat` | `TypeOK`, `ViewerServed`, `PipelineSound`, `SqlSound`, `TranslationsEnd` |
| `browser` | the parts of `MCBrowser` | `TypeOK`, `BrowserSound`, `BrowserSettles` |
| `replaced` | 3 countdown requests | `NeverReplaced`, violated (section 6) |
| `boardGhost` | 1 browser | `NoGhost`, violated (section 6) |

**The battle.**  One tick stands for about a second.  `ReleaseGrace`,
`EarlyFire`, `Lead` and `IdleGrace` are one tick: the properties depend on which
deadline comes first, not on how far apart they are, and the assumption
`IdleGrace >= EarlyFire` keeps the order the code's values have.  Lengths of one
and two ticks make countdowns differ; three requests are needed for the longest
scenario (start, stop, start).  Two groups and one request each are what a race
between groups needs.  With one call at a time about each group and a database
that answers, the mutual exclusion works: what is heard holds the lock, a running
group is always going to be reset.  The lock itself survives everything:
whatever requests overlap, queries fail and processes die, it is leased to its
holder, an active countdown holds it unless a probe was rejected, and a rally
group loses it only by its own request or lease.  Symmetry over requests and
groups is used in `countdown` and `rally`, whose properties name neither, and
never with liveness.

**The board.**  Limits of two elements and three units of size (`MaxElements`,
`MaxBytes`) let every
rejection and both caps happen, an id that repeats lets one removal take two
elements, and two messages each way let a join, a leave and edits cross.  The
longest crossing needed is a join, a leave and a join.  A browser that the
gateway counts as a participant never loses an edit and never misses a change of
rights, although replicas have no version and presence is coalesced.

**`storage`.**

* `StorageSound`, an invariant, is `QuotaHolds` (files and reservations never
  exceed the quota, `NeverOvercommitted`; what is reserved is what the uploads
  under way hold, `ReservationsExact`), `SpeechSound` (no stale clip stays but one whose
  deletion failed, nothing is deleted that would be made again alike, one maker per
  clip, no broken file is sent but one that the script was writing: `NothingStale`,
  `NothingWasted`, `OneMaker`, `NothingBroken`), `MembersSound`
  (`PlacesSound`, `AddsSucceed`, `CalledInOrder`, `GroupsNumbered`) and
  `MigrationSound` (`OneMigrates`, `HistoryTrue`, `ServedOnOwnSchema`).
* `FilesSurvive`: the last removal of a saved board reclaims its file, also when
  two are deleted at once, and neither the purge nor a removal takes a file that
  was referred to all the while it ran (`LastRemovalReclaims`,
  `PurgeSparesSteady`, `RemovalSparesSteady`).
* `ListsTrue`: `ListSettles` (once the requests have ended, what a connected
  browser shows is the table, unless a broadcast failed or an answer of the
  database was overtaken by a newer one), `EmitsOwnChange`, `SuccessorOwnsNothing`.
* `WaitersEnd` (`Waits ~> ~Waits`): who waits for room or for a clip is answered.

Three uploads and a quota of two files are the least for which two fit and the
third depends on a measurement.  A clip of each kind, one slot and three askers
make the pending table, the waiting line and a retry meet; two releases can
change a setting and change it back.  Groups of at most two with three captains
reach the cap and a gap in the order.  Images, backgrounds under two removals and
backgrounds under a purge beside one removal are parts of their own (`images`,
`backgrounds`, `purged`); of the clips one request at a time is made again, and
either two releases come or one while the script runs.  Two containers, three
files of two statements, of which one leaves alone what it finds and one is a
transaction, and one changed text are the least in which a kill half way, a
second runner, a checksum that differs and a table that stays meet.  `HistoryTrue`
says that what is recorded has been executed, all of it and in order; of the
objects it says that they are of the recorded text but for those that a guarded
statement found (`LeftAlone`, section 6).

**`accounts`.**

* `TokensSound` (action property): the rows are within the cap but for logins
  that are under way or failed, one row per token, only rows behind the cap are
  pushed out and a refresh leaves each in its place (`SessionsCapped`,
  `OneRowPerToken`, `OldestPushedOut`, `RotationKeepsRows`).
* `SessionLasts`: the session of the only tab is not lost by requests that meet a
  401 together, whoever waits waits for a refresh, and nobody is sent to the login
  but for a ban, a lost answer with new cookies or a socket cut off twice (`SessionKept`, `WaitersHaveRefresh`, `NotExpelled`).
* `PresenceTrue`: `OnlyConnectedListed`, `OnlineFollows`, `MessagesAddUp`,
  `StaleOnlyIfMissed`.
* `LimitsHold`: `LoginWithinLimits`, `StrangerMayTry` (an address that never
  tried is let in however busy the account is), `KeysBounded`, `PromiseExact` (who
  is refused for his own calls may come back at exactly the moment he is told),
  `EventsWithinLimit`.
* `SessionSettles`: every request ends, and a banned user leaves.

Three logins at a cap of one let two prunes overlap.  Two requests of a tab are
what shares a refresh.  Two connections of two users let one window of the list
hold a leave and a join.  Windows of two ticks over five moments let entries
expire one at a time; once (`MaxEvictions`) a sweep may drop attempts that still
count, since more keys than it keeps are in use.

**`chat`.**

* `ViewerServed`: `SpinnersBacked` (a spinner has something under way that will
  end it), `CandidatesMove`, `MissingIsSought` (what the viewer should read
  translated and cannot has a spinner or the mark of a failure, or the server has
  said that there is nothing to translate, or a scan prefers newer ones),
  `NoMessageLost`, `LanguageFollows`.
* `PipelineSound`: `SlotsExact` (the counter of the queue is the number of calls
  that run, and nobody waits beside a free slot), `WindowWithinLimit`;
  `EngineSound` (`EachOnce`, `CallsFit`, `CallsBounded`); `OneCallPerText`,
  `LatelyUsedKept`; `ScriptsAgree` (server and browser decide alike on texts of
  characters that both classify alike, `AgreeOnLetters`, and they never leave out
  two different languages unless of letters outside the browser's ranges,
  `NeverContradict`); `RetentionComplete`.
* `SqlSound`: the statements and the comments that the two automata cut are those
  that MySQL would take (`CutsRight`, `DropsRight`).
* `TranslationsEnd`: what is being translated comes to an end.

Two messages, one that the server skips in every language although the browser
asks for it and one on which they agree, with a scan and batches of
one item, make a batch wait for another and a message wait for the scrolling; one
retry is one more than none.  Texts have up to four of sixteen classes of
characters, among them those that only one side knows; the decision depends on
which scripts occur, and four are two more than make a mixture.  Part
sizes up to beyond the budget of six make calls of one, of several and of a part
that cannot fit.  Four parts can be halved twice.

**`browser`.**

* `BrowserSound`: of the clock `TimersOfSession`, `ClockNear`; of the players
  `SpokenInTime`, `NothingSkipped`, `SilentWhenHidden`, `FollowsClock`; of the
  probes `GraceCovers`, `NobodyWaitedFor`; of the input line `NothingVanishes`,
  `OneAwaited`; `MarchAgrees`; of the board page `InItsLanguage`, `DraftKept`;
  `StrokeKept`.
* `BrowserSettles`: whoever is logged in comes to have an estimate or leaves, a
  start is decided, a message is acknowledged or given up; and if the device
  clock is left alone the estimate comes near and stays so (`ClockSettles`).

Two sessions and two calls of `syncTime` let a synchronisation of the last
session end in the next, with one failure (with two beside a second tab); one
jump of four seconds is beyond the limits of the drift check and of the jump.  A countdown of two seconds with one number spoken
before, two captains a second apart, and four seconds to hear them in let a
word be reserved, be late, and be cut; in the rally the audio clock stops or a
buffer fails, not both.  Crowds of nineteen, twenty and twenty-one
are where the nearest rank of 95 percent changes.  Strokes of five places of one
or two digits pass the limit of the path in every way, with three of one.

The parts of a bundle may come to an end because requests, edits, changes and
time are bounded, so the bundles do not check for deadlock; the four runs of the
battle and the two of the board do.

## 4. Fairness

Nothing asks a person to press a button: requests, edits, joins, drops,
restarts, remounts and changes of settings are never fair.

* Battle: time passes, due timers fire, queries and probes are answered and their
  awaits resume, a browser without a socket reconnects (Socket.io retries for
  ever) and its snapshot arrives.  A request is fair as a whole (`Refused`,
  `StartAcquires`, ... in one disjunction): it may be refused for ever, but not
  left unanswered.
* Board: what was received is handled, a lookup ends and an event in flight
  arrives, or the connection breaks; reconnecting is not assumed.
* `QuotaFairness`: as long as a scan can start, read, end or fail, or an upload
  whose promise is resolved can go on, one of these happens (promises and file
  operations of Node settle); no order among them is assumed.
* `SpeechFairness`: a request for a clip goes on; the provider answers or fails.
* `ApiFairness`: of each tab the refresh goes on, the logout goes on and every
  request is answered or breaks off, one assumption for each; a socket that tries
  again opens.  The refusal of a socket without a valid
  account is strongly fair: the connection may break before each refusal and come
  back, but not for ever.
* `WireFairness`: the server's steps, the delivery of what is on the wire, and
  the browser's timers, which `setTimeout` guarantees.  A batch is answered or
  fails.
* `QueueFairness`, `EngineFairness`, `PostFairness`: a call under way ends (the
  engine has a timeout) and the code after its await runs.
* `ClockFairness`: the steps of a synchronisation (pings time out, HTTP requests
  end) and the periodic timer; the timers that only help, drift and visibility,
  are not fair.
* `NegotiationFairness`, `ComposerFairness`: the deadline of the probes, the
  timeout of an acknowledgement.
* Uploads, lists, sessions, presence, members, migrations, limits and the players
  have safety properties only and no fairness.

## 5. What is proved

Of every constant that satisfies the modules' assumptions, TLAPS proves:

| Theorem | Statement | Assumes besides |
|---|---|---|
| `Typing` | `Spec => []TypeOK` | - |
| `LeaseSafe` | `Spec => []LeaseOfHolder` | - |
| `CountdownHoldsLock` | `Spec => []ActiveHoldsLock` | `"probeError" \notin Faults` |
| `LeaseMeetsCountdown` | `Spec => []LeaseEndsWithCountdown` | `"probeError" \notin Faults` |
| `BrowserSeesCountdown` | `Spec => []CountdownSeen` | - |
| `BrowserSeesBusy` | `Spec => []BusySeen` | `Groups = {}` |
| `CountdownEndsRightly` | `Spec => EndsOnTimeOrByStop` | - |
| `GroupKeepsLock` | `Spec => RallyLosesLockByItself` | - |
| `GroupsAreBacked` | `Spec => []RunningIsBacked` | no `overlap`, `slowDb`, `dbError` in `Faults` |
| `HolderIsHeard` | `Spec => []OnlyHolderIsHeard` | `Faults = {}` |
| `GateIsSafe` | `Spec => Gate!Init /\ [][Gate!Next]_(lock.holder)` | - |
| `RightsEndWithConnection` | `BoardSpec => []BoardOfConnected` | - |
| `BoardCountsItsBytes` | `BoardSpec => [](BoardTypeOK /\ BoardBounded)` | - |
| `TabsFollow` | `BoardSpec => [](ReplicaFollows /\ PresenceFollows)` | - |
| `FilesSafe` | `FilesSpec => FilesSurvive` | - |
| `ListsAreTold` | `BulletinSpec => ListsTrue` | - |
| `QuotaIsKept` | `QuotaSpec => []QuotaHolds` | - |
| `SpeechIsSound` | `SpeechSpec => []SpeechSound` | - |
| `MembersAreSound` | `MembersSpec => []MembersSound` | - |
| `MigrationsTrue` | `MigrationSpec => []MigrationSound` | - |
| `StorageIsSound` | `Spec => [](TypeOK /\ StorageSound) /\ FilesSurvive /\ ListsTrue` (`MCStorage`) | - |
| `SessionsSound` | `SessionsSpec => TokensSound` | - |
| `PresenceAgrees` | `PresenceSpec => []PresenceTrue` | - |
| `SessionIsKept` | `ApiSpec => SessionLasts` | - |
| `LimitsAreKept` | `LimitsSpec => []LimitsHold` | - |
| `AccountsAreSound` | `Spec => [](TypeOK /\ PresenceTrue /\ LimitsHold) /\ TokensSound /\ SessionLasts` (`MCAccounts`) | - |
| `QueueSlotsExact` | `QueueSpec => []SlotsExact` | - |
| `QueueConcurrency` | never more than `Concurrency` calls run | - |
| `QueueWindowKept` | `QueueSpec => [](WindowWithinLimit /\ QueueTypeOK)` | - |
| `PipelineServed` | `PipelineSpec => [](PipelineSound /\ PipelineTypeOK)` | - |
| `WireServed` | `WireSpec => [](ViewerServed /\ WireTypeOK)` | - |
| `ChatIsSound` | `Spec => [](TypeOK /\ ViewerServed /\ PipelineSound)` (`MCChat`) | `Langs # {AccountLang}` |
| `ClockIsSound` | `ClockSpec => [](TimersOfSession /\ ClockNear)` | - |
| `SpokenTogether` | `PlayerSpec => []SpeechInTime` | - |
| `StartIsFair` | `NegotiationSpec => [](GraceCovers /\ NobodyWaitedFor)` | - |
| `LineIsKept` | `ComposerSpec => [](NothingVanishes /\ OneAwaited)` | - |
| `MarchIsSound` | `MarchSpec => []MarchAgrees` | - |
| `PageIsSound` | `TranslationSpec => []InItsLanguage`, `FormSpec => []DraftKept` | - |
| `StrokesAreKept` | `CanvasSpec => []StrokeKept` | - |
| `BrowserIsSound` | `Spec => [](TypeOK /\ BrowserSound)` (`MCBrowser`) | - |

The specifications with a name of their own (`QueueSpec`, `FilesSpec`, ...) are
those of the components by themselves, without fairness; a behaviour of the
bundle that runs the component is one of them.  `StorageIsSound`,
`AccountsAreSound`, `ChatIsSound` and `BrowserIsSound` are about the bundles: a
step of one part is a step of its component and leaves the others alone
(`OnePartSteps`, `PartsOfAccounts`, `PartsStep`, `OneBrowserSteps`), so the
invariants of the components hold together.
`WireSpec` has the changes of settings, the breaks of the connection and several
candidates all at once, which the run takes one at a time.  `ChatIsSound` needs a
language besides that of the account, since a part of the bundle begins with a
viewer who reads another.

**Lock** (in `RoomProofs`).  The methods return locks (`LockTypes`), keep the
lease with the holder provided no lease is empty (`LeaseKept`), and nobody but
the holder changes who holds a held lock (`HolderKept`).

**Battle** (`RoomProofs`).  `TypeOK` is inductive, with one conjunct more than
types: a job under way is about a group, which the lease a start takes needs.
Lemma `LockSteps` says that a step of the whole battle does to the lock one
method call, the end of the lease (after which a countdown may take it again), a
tick or a restart; `LeaseOfHolder` follows from it and `LeaseKept`.
`ActiveHoldsLock` is not inductive alone: the end of a *rally's* lease frees the
lock, and only `LeaseOfHolder` says that it is then not the countdown that held
it; and the end of the countdown's own lease must not come while the countdown
has time left.  `CountdownInv`, its conjunction with `LeaseEndsWithCountdown`, is
inductive over `TypeOK` and `LeaseOfHolder`.  The assumption about probes is
needed: the catch branch releases the lock by the type of its holder, so with two
starts a rejected probe of the first takes the lock of the second.  `BusySeen`
needs `BusyInv`: where the browser has not been told of the holder, the countdown
holds the lock and some start is still probing, whose end will tell it.  With
groups it does not hold, since the idle reset of a group tells that nobody holds
the lock after two queries (section 6).  The two action properties follow from one lemma each
about a step: what ends a countdown, and what takes the lock from a group.

**Rally groups** (in `RoomProofs`).  `RunningIsBacked` is satisfied by any job about
the group, which a step of that job may take away; `Backed` says which: a running
group holds the lock or a stop or an idle reset has yet to write it.  To keep it
one has to know that a start still has its group, and from its write on the lock
(`Kept`), and that no two requests are about one group (`Apart`): a removal beside
a start, or a stop between its write and the lock, breaks it, and so do a lease
that ends under a slow start and a query that rejects after the write (run
`disorder` has these faults, and checks what survives them).  `ResetsOnly` keeps the resets in
their own slots and `LeaseOfHolder` makes the end of a lease that of the group
that holds the lock.  For the browser, `HeardInv` is the same argument one step
later: a group that is heard holds the lock, or a job that has not sent its stop
yet will send it.  The countdown's half of `OnlyHolderIsHeard` comes from
`CountdownSeen` and `ActiveHoldsLock`.

**Board** (in `RoomProofs`).  `ConnectionInv` adds the types of three variables to
`BoardOfConnected` and is inductive: a join only waits where the lookup runs, the
end of the lookup takes every waiting join with it, and a break takes the
participant and the waiting join in one step.

The gateway counts bytes as elements come and go; `SumBytes` shows what one that
is added, replaced or removed does to the sum over the drawing, and that the
refusals keep sum and number within the limits.  For the replica the invariant
says what each tab *will* show: what a run over the events on their way makes of
it, both of the tab as it is and of one opened anew before they arrive, shows the
server's board if it has a session by then.  An edit changes the board and every
such run alike, since it is sent to the whole room; a join sends the snapshot from
within the room; all open tabs end up alike where a snapshot is on its way.
Presence is coalesced, so what is shown of it is owed only while no broadcast is
pending.

**Files.**  `FilesSurvive` speaks of a step; the invariant says why the step is
safe.  `steady[p]` is what has named its file ever since `p` began, so what a
request has seen to name nothing is not in it: `Orphans` for the purge, which when
it deletes has only old files or such as were deleted, and `Counted` for a removal, which has
looked at the rows and then at the live board.  That the last removal reclaims
needs `Leaves`: a background of a removed row is on some other row, was spared, is
gone, or is still in the hands of a request.

**Lists.**  Every change of the table is an edition.  What was read at an edition
was the table then (`ReadAt`); a request is about to tell of the current one, or
its telling was lost, or every browser has it, will have it or was overtaken
(`Told`).  An entry of an account that is gone is no younger than the account that
has its nickname now (`Authors`), and the ownership check compares these stamps.

**Quota.**  `Bookkept` says that the bytes nobody holds a reservation for and the
reservations are within the quota together.  The guard does not see these bytes but
a measurement: one of the current version is no less than they are, and a scan of
the current version has counted no less of them than there is where it has been.
What could make it less, the end of a reservation, makes a new version.

**Speech.**  Metadata, whether on disk or in the memory of a process that reads
them, must reveal every old clip (`Revealed`, `Knows`); from the listing on, the
process holds a superset of what is bad.  `FreshTrue` is the converse that makes
deletions necessary (`NothingWasted`).  A clip that is being made has one owner,
whoever awaits it awaits an owner that is queued or at work, the free slots are
the limit less the slots held, and the line holds queued requests once each.  A
file that is cut short needs the script to be writing it (`TmpInv`).

**Members.**  The sort assigns each captain one more than the number of those
ahead of it; ahead is a strict total order, so the ranks are different, and
different numbers out of 1 to n of n captains are all of them (`PlacesFill`, a
pigeonhole).  `Room` says that what a request has counted is still an upper bound
unless another request has changed the group in between.  `NumbersInv` does the same for the numbers of groups.

**Migrations.**  `MigrationSound` alone is not inductive, since a container acts
on what it has read.  `Honest(r)` says of each container by its phase that what
it knows is true: while it holds the lock the history it read is the history, the
files before the one in work are recorded with its own texts, and the statements
of that file up to the next have been executed, what they are about being of its
text but where a guarded statement has left it alone.  The lock makes it stable
against the others.

**Sessions.**  The cap is exceeded while logins insert and before they prune, and
prunes overlap.  The invariant counts: the rows of logins that are over are, up
to some time stamp, within the cap together with everything as old (`Settled`),
and an active login that counts the newest rows knows which are behind the cap
(`Counted`).  `OneRowPerToken` rests on each rotation's new token being its own.

**The session of a browser.**  That the cookie is the token of a row is not
inductive, as a rotation writes the row before its answer brings the cookie.
`ApiInv` follows the refresh: while it is sent it carries the cookie's token, once
its row is found the row still holds that token, and once it is answered a row
holds the one it brings (`KeptBy`).  It asks this only of whoever is in, or comes
in with a request the server will accept (`Inside`), and of one tab: with two, the
refresh of one makes the other's token old.  A request that is sent again has the
new cookie (`Own`), so that a second 401 means a ban.

**Presence.**  `StaleOnlyIfMissed` speaks of listed connections only; `Honest`
adds the role that a lookup has read and not yet used.  `MessagesAddUp` needs
that a tracker that has not started has nothing to tell.  One lemma,
`SocketStep`, serves every step of a connection: either the list is due, or the
step changes nobody's place on it.

**Limits.**  The attempts at a key are a sequence of moments that never
decreases, of which the window is a rest (`Later`), so what still counts of it is
what a sweep leaves of it.  What all addresses together may add to an account needs
who made the attempts: `Spread` gives an address to each, such that behind
the share of the account no address comes twice, whence at most one more for each
address.  It is claimed as long as no sweep has dropped attempts that still count,
which the code does when it would keep too many keys.

**Queue.**  `CountInv` ties the counter to the cardinality of the running calls,
`LineInv` says that the line holds each waiting call once and that nobody waits
beside a free slot; a call that ends hands its slot to the head of the line
without touching the counter.  For the window, every call that was let in lately
has a reservation of its own of exactly its age (`Reserved`): pruning leaves those
that are young, and everything grows older together.

**Engine.**  `WellCut` says that the calls still to be made have parts, each part
in one of them only, and fit what the model can take unless they are of one part.
Every part is to come or was tried.  That the calls are bounded needs a measure:
each part is worth one call, and one more where its call may be cut off behind it
or tried again (`MayCost`); a call and what it is cut into cost no more than what they had
(`Spare`), so calls made and calls that may come stay within two for each part.

**Posts.**  `Owners` says whom a pending call belongs to: the request that makes it
and no other, and whoever waits for it waits for one that is under way with the
same text.  The memory holds each text once in the order of use (`MemoryInv`), so
what a full memory drops is what nobody has used for longest.

**Cleaning.**  What a run means to delete has been old since it began and stays so,
whatever another run deletes meanwhile.

**Messages of the viewer.**  `NoneLost` says of every published message that the
browser shows it, or an event on its way will show it, or the history that is
being attached holds it (`Coming`).  For the translations the invariant has three
parts, each kept by every function of `translationSync.js`: `Sound` (a spinner has
something that will end it, what is missed is being sought, the candidates are
different and not in flight), which is stated with a set of messages that are just
being looked at, since the functions call each other half way; what a scan leaves
out has `ScanItems` newer ones that count (`Crowded`), and more messages or
answers only crowd it more; `Moves` (candidates
wait for a batch or for the timer); and `Answering` (an answer is to the batch in
flight).  `Told` is what the server knows, or will know from what is on its way, of
the viewer's language.

**Clock.**  `ClockMeasures` says of a synchronisation that began after the last
jump of the device clock that its best sample is near, and `ClockNear` the same of
the estimate; that a jump is adopted or halved away is arithmetic (`Halves`,
`ErrorBound`, `EstimateIs`).  `ClockTokens` says that whoever waits has an older
token, or the newest while somebody is logged in, so that only such a startup
starts the timers.

**Players.**  By the latest plan, the two clocks and the offset the audio second of
the start is determined (`StartOf`); everything reserved and everything that waits
for its buffer is in its second relative to it, whatever call put it there
(`AllInTime`).  `AllThere` is the converse and is claimed only when no call is under
way.  Pausing the audio clock shifts the one second against the other, and the
plan is anchored anew when it resumes.  `Followed` bounds how far the planned
offset may be from the current one.

**Start.**  The probes under way and the tally of the outcomes add up to the sockets
probed.  The percentile is a time at whose rank the outcomes no slower suffice
(`SlowestOf`); the tally splits at that time, and since the rank is rounded up no
more than five of a hundred are slower.

**Line, march, page.**  Sends are numbered and the line waits for the last only; the
server takes older ones, given up, when it likes.  A
panel waits for what it has asked, no two saves are under way, and unless an
answer was lost, a panel came back in the middle of a save or another device saved
beside it (`crossed`) what an
answer brings is what the server has (`PanelWaits`, `OneAtATime`, `ServerKnown`).
A translation under way is of a text that has not come and did not fail, and every
picture chosen is in the form or in a post that was stored.

**Canvas.**  A stroke follows the pointer if a strictly increasing map of places
leads from one to the other; such maps compose, so thinning a stroke that was
thinned follows the pointer still (`AlongAlong`).  A thinning keeps the places
whose positions are in a set; the ranks of the set (`Ranks`, `PlacesInOrder`) are
the map.  Some thinning fits the limit, since the thinnest has two places of at
most thirteen characters.

**Types.**  A type invariant says more than what the safety proofs use: that clocks,
counters and tokens stay within the bounds the instance is given, and that lists and
numbers hold nothing from elsewhere.  Each component has an invariant of its own for
that, inductive over the one of its safety proof (`SessionBounds`, `ApiBounds`,
`PresenceBounds`, `LimitBounds`, `ListsBound`, `MembersBound`, `TextsBound`).  Some
are not plain: no group has a number above how many there may be, because who has
counted the others counts a group that was none of them, however many requests
overlap (`NumbersBound`); and no text is recorded that is newer than the releases
have made it, however old the container that records it (`TextsBound`).

**Sums, counts and lists.**  Induction over data uses sets instead of operators: a
set of numbers without a least counterexample is empty (`NatMin`), from which
`Counting` proves what it takes of sums over finite sets (`SumsArith`, `SumSplit`,
`SumWithin`), of greatest elements, of ranks and of places that fill.  The filters
and the totals of lists in `Lists` are recursive functions, because the prover
cannot expand the library's folds with an operator for an argument: `Recursion`
gives their equations and `ThoseSifted`, `ThoseMembers` and `TotalAdds` what they
return.  `LaterIs`, `LaterAgain` and `LaterAppend` say what dropping the moments that
are over leaves of a list of moments, which is what every sliding window is.

**Assumptions.**  Besides types, the modules assume of their constants what the
code's values satisfy: in `ReadyNegotiation` that the fallback of an unknown
round trip (`FallbackRtt`, 200 ms) is within the limit for one (`OutlierRtt`,
500 ms) and that the greatest delay those give is below the ceiling (`MaxGrace`);
in `SpeechPlayer` that the numbers counted before the start (`PreCount`, 3) are
among those that are spoken (`MaxOffset`); in `DrawingCanvas` that the browser's
limit of a path (512) has room for two places and is not above the server's (512);
that the delays, the round trips, the captains of a rally, the texts of posts and
the rows of messages are finitely many, and that a request to the engine has a
part; that what bounds an instance (ticks, jumps, failures, sends, edits, mounts,
saves, evictions) is a number, of which the clocks have at least one; and that zero
is among the offsets of the clock, the personal offsets and the march times that may
be chosen, and a stroke may have a place.  The runs evaluate them.

Only model-checked:

* everything about progress (liveness under fairness and `ENABLED` are beyond the
  prover);
* `SqlSound`, which compares two recursive functions with reference definitions
  over bounded texts: what a recursive definition computes for every input would
  be an induction over data, which is out of the prover's reach.

Every other invariant that a run checks is stated by a theorem, and so is every
property of steps.

## 6. Disagreements between the code and what it says of itself

Shown by a run that finds the property violated:

| Run | Violated | What happens |
|---|---|---|
| `replaced` | `NeverReplaced` | Start A takes the lock and probes; stop releases it; start B takes it.  A's guard sees *a* countdown holding the lock and goes on; when B's probe is answered it replaces A's countdown.  The comment at `realtime.gateway.ts:330-334` says such a start aborts. |
| `boardGhost` | `NoGhost` | A leave overtakes the join before it, which awaits the account lookup; the browser stays on the board without the tab. |

Met while modelling; the models behave as the code does, and the properties are
stated so that they hold beside it:

* Battle.  `stopCountdown` frees the lock before it writes idle, so another group
  may be written running in between.  When the read after the update is rejected,
  lock and lease are given back and the database says running.
  `handleAutoIdle` tells that nobody holds the lock after two queries during
  which somebody may have taken it.  A browser that misses the stop of a group
  keeps it, as groups are fetched when the panel mounts
  (`RallyGroupPanel.jsx:31-33`), where the list may in turn overwrite newer
  events.
* Groups.  `remove` of a running group leaves the lock to its lease, so the gate
  stays closed for a group that is gone.  Two creates at once get the same `display_order` and may exceed the
  limit, which the comment at `rally-groups.service.ts:171-172` excludes.
  Deleting an account leaves a gap in `order_index`, after which `addMember`
  fails with a duplicate key until something sorts.  Overrides and settings that
  overlap a start change order or times between its sort and its load.
* Sessions.  A token that is rotated twice at once succeeds twice; a logout with
  an expired token leaves the row; a role survives a kick that came during the
  lookup.
* Lists.  Two requests that read a list and emit it after their `await` may emit
  in the opposite order, and the older list stays on the screens until the next
  change (`realtime.gateway.ts:453`).
* Files.  The purge may take a background that comes to be shown between its
  query and the deletion, and so may the removal of a board when another board
  with the same background is saved in between (`operation-boards.service.ts:230`).
* Speech.  A later unlink may remove the file that the first request has just
  made, and an unlink that fails leaves a stale file under new metadata; the
  first migration of the metadata presumes that the template has not changed.
* Scripts.  `script-detect.ts:7` and `script.js:1` say that both sides have the
  same rule.  The server asks Unicode for the script of a character, the browser
  has ranges (`script.js:5-11`), and they differ.  The signs of multiplication and
  division (U+00D7, U+00F7) are Latin for the browser and nothing for the server:
  it asks for the translation of "1×2", the server skips it, and the message is
  quietly done.  The kana dot (U+30FB) and the long kana sign (U+30FC) are kana
  for the browser and of no script for the server: a Chinese text with a kana dot
  is Japanese for the browser, so a viewer who reads Japanese never asks for it,
  while the server would translate it.  Full width and Vietnamese Latin, the
  Roman numerals, the sign that repeats a Han character (U+3005) and half width
  hangul are unknown to the browser: next to letters that it knows they do not make the
  text mixed.  Letters of other scripts, Thai or Greek, are "mixed" on the server and
  "none" in the browser.
* Chat.  What a batch is answered neither with nor as failed is done without a
  mark (`translationSync.js:226-228`), so a message that the server skips stays as it
  was written.  A message that was given up after the time limit may still be
  broadcast (`socket.emit` buffers it while the connection is away), and what the
  user sends again then arrives twice; its acknowledgement changes nothing.  An
  empty push for another language counts as an answer.
* Migrations.  `CREATE TABLE IF NOT EXISTS` (`000_initial_schema.sql:21-24`)
  keeps a table that is there, whatever its definition.  The comment says so of
  tables older than the runner; it holds as well when a file fails half way and is
  changed before it is recorded: the tables that the older text made stay, and
  the checksum of the newer is recorded (`migrate.ts:173-197`).  `stripComments`
  takes `--;` for a comment, which MySQL does not.
* Clock.  The HTTP fallback measures from before the ping that timed out
  (`clockSync.js:85-144`), which moves the sample by up to half the timeout,
  while lines 83-84 promise four time stamps for both ways.  A synchronisation
  under way at shutdown still writes its state, against lines 356-362.  A device
  clock set back during a sample gives a negative round trip, which wins.
* Players.  The effect on the march time (`Countdown.jsx:187-213`) schedules by
  the current offset and leaves `lastOffsetRef`, so that speech may be off by
  twice the threshold: the bound of `FollowsClock`.  In
  `RallyGroupCountdown.jsx:100-120` a snapshot with equal values schedules again
  when the offset has moved and may cut a word, which lines 31-36 exclude.
* Pages.  A manual translation in flight when the language is switched is stored
  under the new one (`Board.jsx:61-99`, `Noticeboard.jsx`);
  `AllianceNoticeboard.jsx` never resets its translations.  Ctrl+Enter posts
  again while posting (`Board.jsx:185-187`), and a post that succeeds empties a
  form that was changed meanwhile (150-158).  A remount of `PersonalPanel` during
  a save lets a late load restore the old march time.  A server without one makes
  the panel and the store adopt the device's copy (`PersonalPanel.jsx:51-60`), left
  by an earlier session, another account, or before another device removed the
  value: the departure is then spoken from a time that the account never had.
  `MarchAgrees` allows for that copy and no other.
* `finishDraft` emits a stroke although the permission may be gone (the server
  refuses it); the second loop and the slice of `compactOperationPath` change
  nothing; `RallyTimer.jsx` is imported nowhere.

## 7. What is abstracted

* Lengths, marches and graces are ticks; names, roles, wording and payloads are
  model values; a refusal needs no reason.
* The database answers queries one at a time, and a transaction commits in one
  step after its reads; a query that rejects has had no effect, except where the
  code has to cope with one that had (migrations).
* Node's event loop: a handler is atomic between awaits.
* The browser of the battle is one.  Broadcasts reach it in order or not at all.
* Of the board: a stroke is an id and a size, and an invalid one is a request
  that changes nothing; so are the rate limits of edits.  The gateway and the
  browser see a connection break at the same time.  A join whose account is
  already known completes in its turn.
* The members of a group are for the countdown a schedule `[march, span]` with
  `span <= march`, which is what `computeFireSchedule` gives.
* A text is what decides about it: its classes of characters, its estimate of tokens,
  the languages there is a translation for, or for a migration the characters
  that matter.
* In `ClockSync` the server's clock is true and time is not counted; in
  `SpeechPlayer` the device clock is the server's and offsets are what the
  estimate is off by.
* All five lists have the same steps and share `Bulletin`; both players share
  `SpeechPlayer`; images and backgrounds share `UploadFiles`.

## 8. Not modelled

* Application shell, i18n, layout and styles: wiring and rendering without state
  of their own.  Deployment and documentation: scripts and text.
* Alliance countdown: the lookup of the sender's role is data; the ping for the
  clock is a delay in `ClockSync`.
* Battle tab: editors and displays without state beyond their inputs, and
  `RallyTimer.jsx`.
* Socket authentication: the verification of the token and the CORS options.
* Users and administration: updates by a single query.
* Login throttle and request limits: the tracker of the framework and the parsing
  of proxy addresses.
* Saved boards: listing and loading, which change nothing, and the limits of a
  body.
* Operation board UI: the tab, the toolbar, the lists and the chat panel, which
  hand clicks to the hook.
* Boards: paging.
* Translation pipeline: glossary, prompts and the evaluation script, which are
  data.
* Speech: `preGenerateAll`, which makes the requests of a browser by itself when
  the server starts; the arguments and the report of the script; voices and
  headers, which are data.

## 9. What is left

An abstract board whose events carry a version, to be refined by the live one.
Larger instances of the battle, with two calls about two groups and restarts at
once.
