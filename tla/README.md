# Verification of the Proton Bridge agent

This directory holds a TLA+ model of the program in this repository: the *sidecar*
that logs a Proton Mail Bridge in, watches its mailboxes and posts notifications of
new mail to Discord, the tool an operator drives it with, and the start of the pod
they run in. The modules are translated from the Go, Python and shell source under
`sidecar/` and `build/`; TLC checks them on small instances and TLAPS proves theorems
about them for every value of their constants.

## 1. The system

    REST callers --HTTP--> api.go --calls--> BridgeClient --gRPC--> Proton Bridge
                                               | starts/stops          | IMAP
                                               v                       v
                                          IMAP watchers  <-------  All Mail
                                               | Notify
                                               v
                                        DiscordNotifier --HTTP--> Discord

| Component | State | Operations | What is hard about it |
|---|---|---|---|
| Bridge client (`bridge.go`) | `state`, the session fields, `monitorStop`, under `mu` | `TryAutoLogin`, `StartLogin`/`doLogin`, `finishLogin`, `Logout` | logins, logouts and the monitor are goroutines that share the fields and release the lock between their steps; every gRPC call may fail; the order of StopEventStream and of closing a connection matters |
| Monitor (`monitorBridge`) | `imapRunning`, `watcherStop`, its event stream | sync with `GetUser`, event loop, reopening of the stream | answers out of date when used, lost events, two owners of a channel to close |
| IMAP watcher (`imap.go`) | `highUID`, `lastUIDNext`, `seen` | poll, search, fetch, folder lookup | the mailbox changes between commands; connections break; two watchers overlap |
| Discord notifier (`discord.go`) | `pending`, `timer`, `lastFlush` | `Notify`, `flush`, `formatBatch`, `post` | the timer runs on its own goroutine; posts overlap and may hang; a size limit |
| REST API (`api.go`, `main.go`) | none of its own | POST, GET, PUT, DELETE credentials | requests are served concurrently |
| Proton Bridge (not in this repository) | user states, one event stream, its config file | the gRPC calls and events | restarts, and quits when a stream is torn down |
| Notifier configuration (`config.go`) | the YAML file | `loadDiscordConfig` | absent, broken or incomplete files only switch the notifier off |
| bridge-ctl (`bridge_ctl.py`) | what it waits for | its menu, `_poll_until_done` | takes the status it polls for that of its own login |
| Keychain (`build/init.sh`) | gpg keys, the store of pass, the sentinel | the commands of the script | runs again over what an interrupted run left |
| Connection (`connectAndReady`) | the config file on the volume | rounds of read, dial and GuiReady | the file may be that of a bridge that is gone |
| configure.py, Makefile, images, charts | files | scripts | see section 7 |

What makes each correct: of the client, that a session in `bc` is alive and can be
logged out, that `pending` ends, that nothing panics and that the bridge is never made
to quit; of the monitor, that status and watcher follow the user's state; of the
watcher, that each new message is looked up, once; of the notifier, that nothing is
stranded and the rate is limited; of bridge-ctl, that what it tells of a login is that
login's; of the keychain, that the bridge only runs on one that is ready and that its
key never changes; of the connection, that it is to a live bridge and none leaks.

## 2. Modules

| Module | Models | Form |
|---|---|---|
| `GrpcBridge` | the bridge as the sidecar uses it (external) | operators on the bridge's state, which the sidecar's steps compose, and the bridge's own actions |
| `BridgeClient` | `bridge.go`, `api.go` | one action per stretch of code between two points where another goroutine may come in |
| `BridgeClientProofs` | | the inductive invariant and the theorems |
| `Session` | what the client promises the rest of the sidecar | abstract specification |
| `BridgeClientPromise` | | the refinement of `Session`, and the truth of the status |
| `MailWatcher` | `imap.go` | one action per IMAP command and what is done with its answer |
| `MailWatcherProofs` | | its inductive invariant and theorems |
| `MailboxKeptProofs` | | what more holds while nothing is expunged |
| `DiscordNotifier` | `discord.go` | Notify, the timer, flush, the end of a post |
| `RateLimiter` | the promise of the notifier | abstract specification |
| `DiscordNotifierProofs` | | invariants, the refinement, what `formatBatch` returns |
| `Sidecar` | `main.go`, `config.go` and the parts together | INSTANCEs of `Session`, `MailWatcher` and `DiscordNotifier`, joined by the calls between them; crashes |
| `SidecarProofs` | | the invariants of the whole, from those of the parts |
| `BridgeCtl` | `bridge_ctl.py` | the tool beside the whole of `BridgeClient` |
| `BridgeCtlProofs` | | when the tool can be believed |
| `PodStartup` | `init.sh`, the start of the pod, `connectAndReady` | one action per command of the script and per step of a round; kills |
| `PodStartupProofs` | | its inductive invariant and theorems |
| `MC*` | | the constants of the TLC runs |

### BridgeClient

`bc` is the `BridgeClient` struct. `finishLogin` writes the connection, the user, the
credentials and `monitorStop` together and `Logout` clears them together, so one
value, `bc.session`, stands for them: the login attempt they come from. `lpc` and `luser` are
the program counters of the login goroutines and the user each is about; `mon[a]` is
the monitor of attempt `a` with its two channels and a count of the watchers nobody
told to stop; `hpc` and `hloc` are the handlers inside `Logout` and their local copies.

Attempts are reused when nothing is left of them (`Free`), so `Logins` bounds how many
are alive at once, not how many there are. `AutoLogin` is the attempt of
`TryAutoLogin`, which writes the status unconditionally.

A call and the handling of its answer is one action except where the code holds an
answer across a point at which others run and then writes shared state:
`MonitorSync`/`MonitorApply` (GetUser, then the verdict), the four steps of `Logout`,
`FinishList`/`Publish`, and the pending receive of every loop.

`Client` says what the callers of the API do, because some promises only hold for
some callers: `"any"` does whatever it likes; `"polite"` makes one request at a time,
waits for logins to end, and posts only in the states `idle` and `error`; `"careful"`
posts only when no session is held, too.

### GrpcBridge

The bridge's code is elsewhere; what is modelled is what `bridge.go` says of it in its
comments (lines 136-142, 280-281, 347-356, 480-483, 541-549, 672-674). The assumptions:
one event stream is served at a time; a stream opened beside it ends at its first
Recv; a stream whose context or connection goes away while it is served makes the
bridge quit, which is modelled as a restart without `restarts` going up; a connection
is of no use after a restart, because token and certificate are new.

### Session and its refinement

Of the client, the watchers and the notifier only see that an attempt to log in is
held, left and ended, and that a watcher is started and stopped for it. `Session` says
that in seven actions. `Stage` and `Watched` of `BridgeClient` are the refinement mapping:
an attempt is held while its monitor's `stop` is open, left from the close until the
monitor has returned, and watched while a watcher of its monitor is not told to stop.
`KeepsSession` is the refinement. It holds of careful callers only: a POST beside a
session leaves two held.

### MailWatcher

A message's UID is its place in the order of arrival. `handled` records each folder
lookup with its answer and its watcher; a notification was sent for those whose folder
is not skipped. Two parts of a watcher are history: `seed` (the highUID the connection
began with) and `missed` (what fetches that failed were to bring). `UidSearch` models
IMAP's `n:*`, which always matches the last message of the mailbox. A fetch that fails
has put what it read until then into `seen`, as the code does, and looks nothing up. A
watcher may start while others, told to stop or not, still run.

### DiscordNotifier

Time is kept as what the code compares: the time since `lastFlush` up to the window,
and the time left to the timer. A timer fires at the end of its delay or later. A
mail is the length of its block. `posts` and `answer` record the batches handed to
`post` and what became of them.

### Sidecar

The client is `Session`: what is checked of the composition holds of every client that
implements it, and `KeepsSession` says that this one does. A `Watch` of a session is a
`StartWatcher` of the mail part in the same step, an `Unwatch` or `End` a `StopWatcher`;
a `Lookup` whose folder is not skipped is a `Notify`, in the same step too, unless there
is no notifier. `owner` tells whose monitor started a watcher. A crash forgets all that
is in memory and reads the configuration again. A mail is its place in `handled`, so
that the order in which Discord gets them can be compared with that of the lookups.

### BridgeCtl

`ctl` is where the tool is and which attempt it waits for. Its requests are the actions
of `BridgeClient`, with the answer of PUT and DELETE when the handler is through; the
tool's timeout of 10 seconds lets it leave before. It is the only caller, so `careful`
here means an operator who waits for each answer and does not log in over a session.

### PodStartup

The volume at `/root` keeps the keys (a number, since they are made one after the
other), the store of pass, the smoke test, the sentinel and the bridge's config file;
sockets and processes go with the pod. `PodKilled` may come between any two commands of
the script, and a failing command is a kill too (`set -e`). The number of a bridge process
stands for its token, certificate and socket: `cfg = server` with the bridge up is what
makes GuiReady succeed, unless the bridge refuses (`MaxRefusals`). The file may be read
before it parses (`torn`), or name a socket that grpc.Dial makes no target of
(`Undialable`): that ends `connectAndReady` at once (`bridge.go:82-89`), whereas everything
else is tried again.

## 3. What the runs check

Invariants and action properties under `Spec`, liveness under `FairSpec`.

| Run | Instance | Shows |
|---|---|---|
| `session` | 2 logins, 2 handlers, 1 user, any caller, any call may fail | `NoPanic`, `PendingHasLogin`, `WatcherOwned`, `SessionLive`, `NoLostWakeup`, `TypeOK` |
| `careful` | 2 logins, 1 handler, careful caller, failing Login and RunEventStream, fair | `MonitorReachable`, `KeepsSession`, `LoginsEnd`, `StopIsHeeded` |
| `monitor` | 1 restored session, 2 users, 1 restart of the bridge, fair | `StatusMatchesWatcher`, `StopBeforeCancel`, `Heals`, `Quiesces` |
| `discord` | 4 mails, window of 3 ticks, fair | `NothingStranded`, `ListsAllThatFit`, `LimitsRate`, `EachFlushed`, `TypeOK` |
| `mail` | 4 messages (1 old, 1 without Message-ID, 2 that share one), purges, `seen` of 1, SEARCH, FETCH and the lookups may fail, fair | `NoneBelowHighWater`, `EachLookedUp`, `StoppedEnds`, `TypeOK` |
| `sidecar` | 1 attempt, used again and again, 2 watchers, 2 messages, 4 lookups, 1 crash, 4 configuration files | `EachPostedOnce`, `OncePerWatcher`, `TypeOK` |
| `podstart` | 3 rounds, 2 kills of the pod, 2 deaths of the bridge, 1 refusal, 1 socket that cannot be dialled, fair | `KeychainReady`, `KeyKept`, `OneConnection`, `ConnectedHere`, `NextRoundConnects`, `TypeOK` |

Why these bounds are enough: the races are between pairs, so two attempts (one to be
overtaken, one to overtake), two handlers (two Logouts of one session) and one or two
users show them; an attempt may be used again, so the number of logins over time is not
bounded. `FailingRpcs` is cut down where a failure that is already the subject of
another run would hide what is asked: in `monitor` no call fails on a connection that is
up, since `quit_login` shows what happens when Login does, and nobody posts or logs out
beside the restored session, which the theorem `NeverQuits` adds to `StopBeforeCancel`.
After a restart of the bridge every call on an old connection fails in every run. Three
messages allow one old, one purged and one that arrives between two commands; the fourth
shares its Message-ID with another. In `sidecar` folder lookups are answered, since an
answer `unknown` only makes one more notice; two watchers are one and its successor, two
messages one that is notified and one that is not, and four lookups (`MaxNotices`) let
each be looked up by both watchers; one crash separates what was before from what is
after, and the window may begin again. Two kills (`MaxKills`) cut the script short
twice, so that there are two keys when it gets through; two deaths (`MaxDeaths`) leave a
stale file and replace it during the rounds. One process that cannot be dialled (the
second) has others before and after it. Three ticks in a window let Notify fall before,
within and at its end.

### Disagreements found

| Run | Property | What the trace shows |
|---|---|---|
| `quit_login` | `StopBeforeCancel` | the Login call fails and the connection is closed under the open stream (`bridge.go:334-338`), against the comment at 280-281 |
| `ctl` | `ReportsOwnLogin` | a monitor already told to stop reads the SIGNED_OUT that Logout brought about and writes `error` over the `pending` of the next login (`bridge.go:597-600`): bridge-ctl says that the login failed while it runs. In the same way it may write `connected` (`bridge.go:566-570`), and GET answers with empty credentials |
| `lost_monitor` | `MonitorReachable` | the user of a session is signed out, the state is `error` and the session is kept; the POST that follows overwrites `monitorStop` (`bridge.go:464-474`), though no other request or login runs: Logout no longer stops the old monitor |
| `discord_limit` | `WithinLimit` | the suffix makes a truncated message longer than the limit (`discord.go:112-114`) |
| `mail_old` | `OnlyNewMail` | the new message is purged before the search, and `n:*` finds an old one (`imap.go:137`) |

Section 4 says what it takes for three of them to hold: `OnlyNewMail` with a mailbox from
which nothing is expunged, `WithinLimit` up to the length of the suffix, and
`ReportsOwnLogin` when a login begins only after the monitors are gone.

The same properties fail in other ways when the constants of a passing run are changed:
`StatusMatchesWatcher` with callers (a POST that fails sets `error` beside a healthy
monitor), `OncePerWatcher` with purges or with `maxSeenIDs` reached (`n:*` finds the last
message again), and `StopBeforeCancel` with a handler, even of a careful caller: Logout
does not wait for the monitor it has told to stop, which may be in GetUser, and closes the
connection under its open stream (`bridge.go:777-779`), against the comment at 280-281.

Two more disagreements need no interleaving, and no property of the runs decides them:

- `config.go:25-28` says that the notifier waits the window "after the first new message
  before posting". `Notify` sets the timer for what is left of the window since the last
  post (`discord.go:73-76`), so that the first mail after a quiet period is posted at once,
  as `discord.go:60-63`, the README of the repository (213-219) and the chart's
  `values.yaml` (98-102) say.
- `docs/openclaw.md:124`, `docs/quickstart-kubernetes.md:108` and
  `docs/quickstart-docker.md:74` say that messages in Sent and Drafts are not notified.
  They are when the lookup connection or the lookup fails (`imap.go:227-232`, 335), and
  when a draft has no Message-ID to look it up by (`imap.go:192-195`): the folder is then
  `unknown`, which is not one to be skipped.

Some more is visible while modelling:

- A connection that breaks loses the mail it had not looked up (`imap.go:82-93`).
- A stopped watcher finishes its poll beside its successor, and both notify what arrives
  then (`OncePerWatcher` allows this and nothing else).
- A crash forgets `lastFlush`, so that two posts may fall within a window.
- A config file that does not parse, or a socket path that cannot be dialled, ends
  `connectAndReady`, where the comment at `bridge.go:67-68` promises to retry "until all
  three succeed".
- `docs/gpg-howto.md:24-25` says that the init container makes a new key when the keychain
  is corrupted; with the sentinel there it does nothing, and without it `head -1` takes
  the old key as long as gpg lists one.

### Fairness

Goroutines run, gRPC and IMAP calls return (each has a timeout), and timers fire: weak
fairness of each goroutine's steps. A `select` with several ready cases picks at random,
and the poll timer and the 60 second timeout become ready again and again: strong
fairness of `SeesStop`, `PollTick` and `AutoTimeout`. Nothing is assumed of the
callers, of events, of the bridge's restarts, of failures going away, or of posts to
Discord ending. The run that checks liveness of the monitor lets no call fail on a live
connection, since from a GetUser that always fails nothing could recover.

In `PodStartup` the three containers run; a killed pod and a dead bridge are started again.
`Sidecar` and `BridgeCtl` are checked for safety only.

`CHECK_DEADLOCK FALSE` is used where the system may be at rest for good: in `monitor`, when
TryAutoLogin found nobody; in `podstart`, when connected with kills and deaths used up; and
in `ctl`, where a counterexample is looked for.

## 4. What is proved

For every set of users, logins and handlers, every set of failing calls and any number of
restarts (`BridgeClientProofs`):

- `TypeCorrect`, `NeverPanics`, `PendingIsLive`, `OneWatcherEach`, `SessionIsLive`:
  the safety invariants of the runs. None is inductive alone. `IInv` adds
  `MonitorHasUser` (a monitor that runs knows its user), `LoginFresh` (the attempt of a
  running login has no monitor and is nobody's session), `LoginEquipped` (past a
  certain point it has its connection and its user) and `LogoutOwns` (the session
  in a handler's hands is nobody else's, and its channel is still open until closed).
  `SessionLive` needs them at `Publish`, and `NoPanic` needs `LogoutOwns`.
- `WakeupIsKept`: `NoLostWakeup` on top of `IInv`.
- `CarefulReach`: `Client = "careful"` implies `[]MonitorReachable`. It needs that at most
  one of login, session and logout exists at a time.
- `NeverQuits`: with no handlers, and Login and StopEventStream not failing on a live
  connection, `StopBeforeCancel` holds. It needs that a stream is served only for
  an attempt whose program counter will still stop it.

On top of them (`BridgeClientPromise`):

- `PromiseIsKept`: `Client = "careful"` implies `Spec => KeepsSession`. Each step of the client
  is a step of `Session` or a stutter. It uses `IInv`, what `CarefulReach` showed, and that
  a monitor that has returned has left no channel behind.
- `StatusIsTrue`: with the restored session alone, `[]StatusMatchesWatcher`. It needs that the
  status says `connected` already while the monitor has yet to start its watcher.

For every mailbox, every number of watchers and every set of failing commands
(`MailWatcherProofs`): `TypeCorrect` and `NothingSlipsThrough`. `NoneBelowHighWater` speaks of
watchers that are polling; its invariant `IInv` follows the other places of a poll: of what
is present since `seed`, all up to `highUID`, and once the search has answered all below
the UIDNEXT of the poll, is in `found`, or its Message-ID is that of a message pending,
handled or `missed`; and so is each Message-ID in `seen`. UIDs grow with the mailbox and
nothing expunged comes back, so arrivals and purges keep it. `highUID` is the greatest of
what was found, which needs that `Max` of a bounded set exists.

While nothing is expunged (`MailboxKeptProofs`, for `~Expunging` and the same constants):

- `OnlyNewIfKept`: `[]OnlyNewMail`. The message that raised UIDNEXT is then still there, so
  `n:*` finds nothing older. Commands may fail and connections break.
- `OnceIfKept`: no watcher looks a message up twice, over all its connections
  (`HandledOnce`). `SeenSuffices` is its hypothesis: there are no more Message-IDs than
  `maxSeenIDs`. The code's `maxSeenIDs` is 10000; past it `seen` is emptied, and the next
  `n:*` may find the last message again.

`KeptInv` says for every place of a poll that what the watcher works on is above its
`seed`, and that `seen` guards all it has handled since.

For any number of rounds, kills and deaths (`PodStartupProofs`): `TypeCorrect`,
`ReadyWhenStarted`, `KeyStays`, `NoneLeaks`, `NotOfAnEarlierPod`. The invariant counts keys
and processes, says that pass has no key but the first (`head -1`), that a sentinel means a
store with its key and without the smoke test, and that a running bridge has a number
above those of earlier pods.

For every window, limit, set of mails and block lengths (`DiscordNotifierProofs`):

- `TypeCorrect`, `NeverStranded`, and `WaitsNoLonger`: the timer ends together with the
  window since the last flush. Their conjunction is inductive.
- `RateIsLimited`: `Spec => LimitsRate`, the refinement of `RateLimiter` with
  `waiting <- pending`, `taken <- posts`, `cool <- Window - since`. A flush is a `Take`
  because something is pending (`NothingStranded`) and the window is over
  (`EndsWithWindow`); a tick cools the limiter; posts and timers are stuttering.
- `ListsWhatFits`: `[]ListsAllThatFit`, for batches of any length. `formatBatch` is a loop,
  so its model is a recursive function, and to know its values one needs that such a
  function exists (`RunExists`) and a loop invariant (`Listing`: before the break it has
  written all blocks so far and they fit; after it, the blocks that fit and the next does
  not). The library's theorems for both take operators; here induction is stated of sets
  (`SetInduction`, from the well-foundedness of the natural numbers) and the steps of a
  recursion are a function.
- `NearLimit`: if no mail is longer than the limit by itself, no message is longer than the
  limit and the suffix together. This bounds the violation of `WithinLimit`.

For every set of accounts, watchers, messages and configuration files and any number of
crashes (`SidecarProofs`):

- The steps of the whole are steps of the parts, or crashes (`ClientStep`, `MailStep`,
  `DiscordStep` and so on), so the parts keep the invariants their own modules prove. These
  come in by `INSTANCE`, as `MP` and `DP`. `PartsKeepTheirs` names what follows of the parts;
  `PartsAreThemselves` says that without crashes the composition implements `Session`,
  `MailWatcher` and `DiscordNotifier`.
- What is left is how the parts agree: which watcher was started for which attempt (`Agree`),
  and what became of every notice (`Posted`, `InOrder`, `NoneLost`).
- `TypeCorrect`: `TypeOK`, which says that each watched attempt has one watcher nobody told
  to stop.
- `PostedOnce`: `[]EachPostedOnce`. Notices are numbered in the order of the lookups, and the
  batches with what is pending after them are in that order, so no sequence has to be
  concatenated.
- `OnceEach`: `[]OncePerWatcher`, under the hypothesis of `OnceIfKept` about `maxSeenIDs`.

For every instance of `BridgeClient` with a careful operator (`BridgeCtlProofs`):

- `BelievedIfClean`: `CtlSpec` and `[][BeginsClean]_ctlVars` imply `ReportsOwnLogin`. If every
  login begins when the monitors have returned, a verdict on a login is told when it has
  ended. The operator need not know: the hypothesis is on the schedule, and a `LogoutUser`
  that takes its time fulfils it. With the violation in the run `ctl` this says that a monitor
  left over by a Logout is the one cause. The invariant is that a login that runs has the
  status `pending` to itself (`LoginAlone`), and that the tool waits with no request under
  way (`ToolWaits`).

The assumptions are the ASSUMEs of the modules; TLC evaluates them in every run.

## 5. What is only model-checked

Every liveness property (`Heals`, `Quiesces`, `LoginsEnd`, `StopIsHeeded`, `EachFlushed`,
`EachLookedUp`, `StoppedEnds`, `NextRoundConnects`): the prover handles neither fairness nor
ENABLED. Every safety property of the passing runs is proved, some under hypotheses that
the instance of the run fulfils and section 4 gives. That the violated properties are
violated is shown by the runs alone.

That `Sidecar` may take `Session` for the client rests on `PromiseIsKept`, that is, on
careful callers; the composition of `BridgeClient` itself with the watchers is neither
checked nor proved as one specification.

## 6. What is left out of the modelled components

Texts of messages (`stateMsg`), logging, the wording of a block, addresses and
passwords (`finishLogin` 441-454 is only whether there is a user), the lengths of
backoffs, TLS, InternetStatus and UserBad events (which are only logged), and the
goroutines that read a stream into a channel of one element, whose receive is one step.
The IMAP server always sends the envelope that was asked for (`imap.go:188-190` passes over
a message without one).

## 7. What is not modelled

`configure.py` and the Makefile (prompts and calls of git and docker at build time), the
images and the development container (recipes), the port forwarders of `entrypoint.sh`,
services, ingress and resources of the charts (declarations without state), request
binding and routes of the API, and of the proto file what the sidecar does not call.

## 8. Plan

Done: the core (`GrpcBridge`, `BridgeClient`, `MailWatcher`, `DiscordNotifier`), their
compositions (`Session`, `Sidecar`, `BridgeCtl`), the start of the pod (`PodStartup`), and
proofs of every safety property of the passing runs. What may be added:

- proofs: `NearLimit` and `ListsWhatFits` inside `Sidecar`; what `StopBeforeCancel` needs when
  there are logouts; `OncePerWatcher` in the terms of one connection, without `SeenSuffices`;
- models: the tag that `compute_tag` of `configure.py` makes of the state of git, the lengths
  of the two backoffs, and mail of several accounts in `Sidecar`.
