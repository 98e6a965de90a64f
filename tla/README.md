# A TLA+ verification of csp-bot

csp-bot is a chat bot built on the csp stream-processing engine. Messages come
in from the chatom adapters of several platforms, commands are extracted from
them and executed now, later, or on a cron schedule, and answers go out
rate-limited. Agent commands run a language model in a thread pool and keep
conversations. This directory models the parts of it in which order, time,
crashes and concurrency decide whether it is right, checks them with TLC on
small instances, and proves the main results for all instances with TLAPS.

## The system

One csp engine thread runs everything in `bot.py`. A chat message flows

    adapter -> _tag_message_backend -> flatten -> _process_incoming_messages
      (_is_message_to_bot, _is_authorized, _extract_commands, preexecute)
      -> commands channel -> _handle_commands -> messages_out -> adapters
              ^                     |
              +---- loop back ------+    (commands that resubmit themselves)

| Component | State | Operations | What is hard | Correct when |
|---|---|---|---|---|
| Delayed and recurring commands (`_handle_commands`, `ScheduleStore`, `commands/schedule.py`) | stored records; outstanding csp alarms; `s_to_process`; the commands channel | a command arrives, an alarm fires, a command runs and may resubmit itself, a schedule is removed, the process starts | alarms cannot be cancelled; crash between any two steps; dates that pass during a downtime | no command runs twice, early, or after its removal; none is forgotten; store and alarms agree |
| Agent commands (`commands/agent.py`, reply routing in `bot.py`) | sessions and reply index in the state store; `_futures`; pool of four threads; polls in the schedule store | preexecute, execute, expiry, reply routing, response tracking, timeouts | several requests in flight, duplicate delivery, replies across users, expiry at any call, restarts | index and sessions agree; conversations stay apart; each agent run gives one answer; every command ends |
| Rate-limited output (same node, `connect`) | `s_buffer`, `s_buffer_last`, the ratelimit alarm | a message is buffered, a batch goes out | deduplication against the last batch; simultaneous ticks in `flatten` | nothing is lost, nothing is sent twice, the alarm keeps going |
| State stores (`persistence.py`) | a map of records with expiry, under a lock; files below a URL | get, put, delete, records, cleanup, clear | two lock acquisitions in `records`; a crash while a file is written | one atomic expiring map |
| User access (`bot.py`) | `_authorized_users` | refresh from the access channels (own thread), check per message | channels are fetched one after the other while users move; partial failure of a refresh; stale answers | no stranger is served; who leaves is shut out in the end |
| Hearing (`_process_incoming_messages`, `_fetch_bot_info`) | the cached id and name of the bot | is a message to the bot, may its author talk | the bot may not know who it is, asks once to hear a message and again to read it, and each time may get no answer | a message that is heard for its mention of the bot is also read |
| Words of a command (`_parse_command_args`) | none | channels and mentions are taken out | what a word means depends on what earlier words used up | every word has one use, which does not depend on the order of the loop |
| Registry and dispatch (`bot.py`, `framework.py`, `base.py`, `legacy.py`) | `_commands`, the decorator registry | load models, entry points and decorators; extract, preexecute, execute | several kinds of runners; declared, active and message backends | a registered command runs when it is asked for on a backend it supports |
| Schedule arguments (`commands/schedule.py`) | none | the token loop of `add` | tokens that do not parse | the inner command is what remains |
| Command executor (`commands/executor.py`) | a loop in a thread of its own | the four signatures, timeouts | a generator that ignores its timeout; coroutines that outlive it | asynchronous commands hold the engine no longer than their timeout |
| Connected backends | one event loop per backend | connect, resolve a channel, download an image, run an agent | one loop that several threads drive, or submit to | one thread drives it, and who waits for it comes back |
| Context, structs, help, echo, status, gateway, cli, configuration, utils | none that outlives a call | formatting and wiring | nothing of the above | left out |

## Modules

| Module | What it is |
|---|---|
| `Scheduler` | the delayed and recurring commands, one action per step of an engine cycle |
| `OneShots` | what the bot promises of a command that is to run once, without alarms, stores or restarts |
| `SchedulerRefinement` | the mapping under which `Scheduler` implements `OneShots` |
| `MCScheduler` | cron functions and instances for TLC |
| `SchedulerProofs` | the theorems about `Scheduler`, with lemmas about queues without repetitions |
| `AgentCommand` | sessions, reply index, futures, pool and polls of agent commands |
| `MCAgentCommand` | symmetry of the instances for TLC |
| `AgentProofs` | the theorems about `AgentCommand` |
| `MessageFlow` | the graph of `connect`: adapters, both flattens, the rate-limited buffer |
| `MCMessageFlow` | two adapters for TLC |
| `FlowProofs` | the theorems about `MessageFlow` |
| `Dispatch` | how commands are registered, extracted from messages and executed |
| `DispatchProofs` | the theorems about `Dispatch` |
| `UserAccess` | who may talk to the bot, and the thread that keeps asking |
| `Arguments` | the words of a command and of schedule add, turn by turn, with reference definitions |
| `ArgumentProofs` | both loops compute their reference definitions |
| `Inbound` | composes `Dispatch`, `UserAccess` and `Arguments`: a message from the adapter to its run |
| `MCInbound` | models, plugins, messages and words for TLC |
| `InboundProofs` | the theorems about `UserAccess` and `Inbound` |
| `StoreCalls` | the calls of a state store, as its callers see them |
| `StateStore` | what a store promises: a map from which records vanish when they expire |
| `InMemoryStore`, `FsspecStore` | the two implementations |
| `Stores` | either implementation, and the mapping under which it implements `StateStore` |
| `StoreProofs` | the theorems about `Stores` |
| `MCStores` | lifetimes and symmetry of the instance for TLC |
| `EventLoops` | the threads that share the event loop of a backend, and the command executor |
| `LoopProofs` | the theorem about `EventLoops` |
| `MCEventLoops` | two workers for TLC |

Each module abstracts the others at its edge. `Scheduler` decides *when* a command
runs, `AgentCommand` what an agent does then, `MessageFlow` how a message reaches the
bot and an answer leaves it, `Inbound` whether a message is listened to and
`Dispatch` *which* runner it leads to, `Stores` what becomes of the
records that `Scheduler` and `AgentCommand` keep, and `EventLoops` how long the threads wait that
the others let take their steps. What one
module needs of another is a property the other is checked for: the fairness of
polls in `AgentCommand` and of `Running` in `Inbound` is `DueCommandsRun` of
`Scheduler`. That engine steps end, which the fairness of all of them assumes, is
what the run `stuck` shows to fail in one place.

In the modules of the components the definitions marked *Faulty* are broken
versions of the definition below them. No action uses them; they record, for
each property, a plausible mistake in the code that the property would find.

### Scheduler

| State | In the code |
|---|---|
| `records[c]` | the record of command `c` in the `ScheduleStore`, its `next_run_at` |
| `armed[c]` | outstanding `a_scheduled` alarms carrying `c` |
| `inbox` | commands that `unroll` and the loop back have yet to deliver on the commands channel |
| `toProcess` | `s_to_process` |
| `delay[c]` | `BotCommand.delay` |
| `phase` | how far the current cycle of `_handle_commands` has come |
| `up`, `boot`, `boots` | the process, and when it started |
| `sent`, `removed`, `ran` | history that no action of the code reads |

One engine cycle is `AlarmTick` (lines 634-648), then `CmdTick` (650-666), then
`RunCommand` for each entry of `s_to_process` (668-692), then `EndCycle`; each of
the first two may be missing. `Crash` may come between any two of them. `Receive`
and `RemoveSchedule` stand for `_process_incoming_messages`, which runs before
`_handle_commands` in its cycle. `Restart` is the `csp.start` block.
`NextRun` stands for croniter and is only assumed to return a later date or
`NoTime`, where `get_next` raises: nothing catches that in the node, so the engine
stops (`Dies`). Dates are instants of one clock: `_datetime_for_now` and `_to_utc`
change the representation of an instant whose stored value is UTC, and nothing
else. A poll (`Polls`) is a `BotCommand` that `AgentCommand.execute` returns to
run again; a command is recurring or a poll, never both, because no agent command
reaches preexecute with a cron.

Assumed of csp, which is external: the engine is one thread, an alarm never ticks
early and may tick late, one value of an alarm or of a channel ticks per cycle,
and commands looped back arrive in a later cycle.

### AgentCommand

| State | In the code |
|---|---|
| `store.sessions[k]` | the session stored under `command:user:channel`; `turns` is `message_history` as the set of messages whose turns it holds, `resp` is `bot_response_id` |
| `store.index[i]` | the entry of the response namespace for message id `i` |
| `futures[m]` | the entry of `_futures` for message `m`, as the number of the delivery that submitted it |
| `jobs[d]` | what that delivery gave to the pool: the history it was given, and how far it is |
| `chain[d]` | `times_run` of a `BotCommand` that waits for its next poll |
| `outcome[d]` | how the command of delivery `d` ended (history) |
| `msg`, `key`, `delivered` | the messages of the users, and the session key each became |

`Receive` is the part of `_extract_commands` that concerns agents, with the whole
of `preexecute` (expiry of all sessions, submission or joining, the session that
is resumed or created) or the help text. `Poll` is `execute`, with the tracking
of the answer by `_handle_commands` that follows it in the same step. A message also says how its
arguments read: `execute` takes a text that begins with `ERROR:` for a failure of preexecute, sends it
back and ends (`Echo`), even if preexecute has submitted an agent; then the future stays where it is
until the bot stops. When a poll
comes is decided by `Scheduler`; here it may come at any time, and `RemovePoll`
and `Restart` say what the schedule store can do to it. `StartJob` and `EndJob` are the pool.
All of these but the pool run on the engine thread, so each is one step.
Messages are on one backend, every agent command is registered, and a session
store and a schedule store are durable together.

### MessageFlow

| State | In the code |
|---|---|
| `arriving[b]` | messages adapter `b` has received and `csp.unroll` has not yet ticked |
| `accepted` | messages that became commands |
| `phase` | how far the engine cycle has come: heard, executed, flushed |
| `wait` | time until `a_ratelimit` is due |
| `buffer`, `last` | `s_buffer`, `s_buffer_last` |
| `batch` | the list on `messages` that `csp.unroll` has yet to hand out |
| `refusal` | the tick of `unauthorized_message` in this cycle |
| `answers`, `out`, `seen`, `refused`, `told` | history that no condition of the code reads, but for the id of an answer |

`Hear` is the first flatten with `_process_incoming_messages`: any set of adapters may
tick in a cycle, and only the message of the leftmost is heard. `Execute` appends
one answer, as often in a cycle as commands and their lists of results ask for. `Flush`
is the branch of the ratelimit alarm, and `EndCycle` the second flatten, which
prefers the unrolled answers to a refusal, with the filter of each backend. Answers are
numbered in the order in which commands return them, so lists of answers
become sets of numbers, and order becomes a property. Nothing of this is
persisted: a crash loses what is in the buffer, and `Scheduler` has already counted
that command as run.

Assumed of csp: in a cycle each input ticks at most once, `flatten` passes on the
leftmost input that ticked, `unroll` hands out one element per cycle in order, an alarm
may be late and is never early.

### Dispatch

| State | In the code |
|---|---|
| `stage` | how far `load_commands` has come; `failed` when it raised |
| `models`, `next` | `command_models` and the position of its loop |
| `plugins` | entry points that have yet to be loaded |
| `registry` | `_COMMAND_REGISTRY` of the decorator |
| `pending` | names that the loop over `get_registered_commands()` has yet to visit |
| `commands` | `Bot._commands` |
| `channel` | commands that were extracted and have not run |
| `asked`, `misread`, `executed` | history |

A runner is its kind and the backends it declares, in the spelling of its author:
registration compares in lower case and with the active backends, dispatch compares as
declared. Plugins register in any order, and one that raises may do so before or
after it has registered. `Extracted` is `_extract_commands` up to its first return: a
name that is not registered becomes help (`Helped`), a runner without `preexecute` raises and the
message is dropped, `/schedule add` replaces the name by that of the inner command
without a look at its runner. The field `sub` is the subcommand of `/schedule`: `remove` and one that does
not exist yield no command (`Ends`). `Misread` is `_extract_commands` of a bot that does not know itself:
what is left of the text begins with its mention, no command is seen in it, and help is all there is.
Replies to agent sessions, which are seen at the same place, are in `AgentCommand`.

### UserAccess, Arguments and Inbound

| State | In the code |
|---|---|
| `members[i]` | the users of the `i`th access channel, on the chat platform |
| `authorized` | `_authorized_users` of the backend that has access channels |
| `cursor`, `collected` | the loop of `_update_user_access` and its set `users` |
| `started` | `connect` has come back from its first refresh |
| `known` | backends with an entry in `_bot_user_ids` and `_bot_names` |
| `seen`, `steady`, `lastSeen`, `lastSteady`, `everSeen`, `passedBy` | history |

`Begin`, `Fetch` and `Store` are `_update_user_access`, first in `connect` and then in
`_update_user_access_loop`; a `Fetch` may fail, which leaves its channel out, and
users may `Move` between any two steps. `Hear` is `_process_incoming_messages`. `_get_bot_id` and `_get_bot_name` are called twice each, first to hear
the message and then to read it, and ask again while nothing is cached: `failed` says how many of these
lookups in a row came back with nothing, as far as `MayFail` allows, and `IdAt` and `NameAt` what each of
them yields. `ToBot` is the decision of `_is_message_to_bot`, `MayTalk` that of `_is_authorized`; then comes
`Process` of `Dispatch`, or `Misread` if `Stripped` says that a mention is left at the beginning of the text.
A direct message is heard unless the bot knows that it is its own, and its own is heard too if it mentions
the bot. How an adapter finds mentions in text, and the tests by which a channel counts as a direct one,
are in the fields `mentions`, `leads` and `dm` of a message.

`Parse` and `Add` are the loops of `_parse_command_args` and of `schedule add`, as functions of the
turn (`ParseTurns`, `AddTurns`); croniter and dateparser are the predicates `IsCron` and `IsDate`.
`ParsesTo` and `AddsTo` say what they should find without going through the words in
order: a word names a channel if an odd number of directives stands before it, the nth
word with an @ is the nth mention, and so on. The command inside a `schedule add` of a
message of `Inbound` is what `Parse` and then `Add` make of its words.

### The stores

| State | In the code |
|---|---|
| `kept[k]` | the record of a namespace and key: in `_records`, or in a file; `Torn` is a file that does not load |
| `call[t]` | what thread `t` is doing in the store, or what its last call returned |
| `clock` | `_utc_now()` |
| `kind` | the class of the store |

What a call does under the lock is one step. `put` and `cleanup_expired` read the clock
before they take the lock, `records` takes it twice. A crash of the durable store may
tear the file that some `put` was writing, or come in the middle of a `clear`; the
lock is one of the process, so there is one such call at a time. In `StateStore` there is no lock, no
sweep and no expired record: time removes records, and `records` returns at one
moment everything that is there. It may also return what was live when it was called, or was put
since, and is not there any more because it has expired. The second of these is less than `persistence.py`
says of `records`: such a put may have read its clock before `records` was called, and write a record
that had expired by then (see `expired` below). `offer` is history that says what `records` may still return.
What `delete`, `clear` and `cleanup_expired` return is left out: their callers only log it, or pass it on
to one that does.

### EventLoops

| State | In the code |
|---|---|
| `injected` | the backend is in `AgentCommand._backend_loops` |
| `driver` | the thread that is in `run_until_complete` of its loop |
| `task[t]` | the coroutine of thread `t` on that loop |
| `at[t]` | where thread `t` is; `look` is before `is_running()`, `submit` and `drive` after it |
| `goal` | what the engine goes back to when its use of the loop ends |
| `queued` | jobs in the queue of `_executor` |
| `patience`, `late` | the timeout of `future.result(timeout)`, and coroutines that it left behind |

The engine resolves channels and asks for the bot info with `run_until_complete` and no look (`Resolve`),
downloads images with a look (`Build`, `Download`, `Look`), and waits for commands in
`execute_command_func` (`Execute` and what follows it). A worker takes a job and runs its agent on the loop of the
backend with a look, or on a loop of its own if the backend was not connected when `set_backends`
was called. `run_until_complete` on a loop that another thread drives raises, and then a channel keeps
its name, an image is left out or a job has an error. A loop that is not driven runs nothing: what was submitted to it
stays pending until somebody drives it again.

## What TLC checks

| Run | Instance | Shows |
|---|---|---|
| `durable` | one delayed, one recurring command, one poll; 3 instants; 2 boots | `AtMostOnce`, `NeverEarly`, `SingleAlarm`, `ArmedUnlessMissed`, `RemovedStaysSilent`, `NothingVanishes` and the inductive invariant `TInv`; `KeepsPromise`: `Scheduler` implements `OneShots`; `DueCommandsRun` under fairness. Three kinds of commands meet at every order of alarms, arrivals, removals and a crash; the cron ends at instant 2, so the exception of croniter is reached too |
| `downtime` | a cron on the even instants; 5 instants; 2 boots | violates `ListedCronsStayArmed` |
| `sessions` | three messages of two users, one delivery each, sessions that expire at the next instant | `IndexAgrees`, `Isolation` and the inductive invariant `AInv`, over every shape of replies between three messages |
| `delivery` | one message delivered up to three times, a text that reads as an error or not, a timeout after two polls, one restart | `AnswerPerRun`, `FuturesPolled`, the inductive invariant `RunInv`, and `EveryCommandEnds` under fairness |
| `inflight` | two messages of one user | violates `TurnsKept` |
| `reply` | two messages of one user | violates `RepliesResume` |
| `flow` | two adapters, four messages of which two are refused, three answers with or without one id | `NothingLost`, `InOrder`, `FirstAdapterHeard`, `RefusalsYieldToAnswers`, the inductive invariant `FlowInv`, and `AnswersGoOut` under fairness |
| `inbound` | six lists of models, two plugins, two backends of which one counts as active, three messages, one user and the bot, two access channels; all texts of up to four of eight words with up to two mentions, all schedule adds of up to five words | `LoadsAsConfigured`, `OnlyWhereDeclared`, the inductive invariants `DispatchInv` and `AccessInv`, `AccessIsFresh`, `NoStrangers`, `HeardIsRead`, `WordsAreParsed`, `AddIsUnderstood`, and `AskedIsAnswered` and `RevokedInTheEnd` under fairness |
| `stores` | two threads, two keys, two values, TTLs of none, -1, 0 and 1; 3 instants; either store, any number of crashes | `StoreInv`, and `ImplementsStore`: both stores implement `StateStore` |
| `expired` | the same | violates `RecordsAreUnexpired` |
| `loops` | the engine and two workers, two jobs in the queue, a timeout of two | `LoopInv`, and `DrivenCallsEnd` and `AsyncCallsEnd` under fairness |
| `stuck` | the same | violates `EngineComesBack` |

Bounds: `MaxTime` bounds the clock, `MaxBoots` and `MaxRestarts` the restarts,
`MaxDeliveries` the deliveries of a message; a command is sent once. Two boots
have a downtime between them; that a third one changes nothing is for the
theorems to say. Comparisons are between
a date, the clock and the last start, and three instants have room for a date
before, at and after each. `TimeoutPolls = 2` separates the first poll, a later one and
the timeout. In `flow` the clock only counts down to the alarm and needs no
bound; `MaxAnswers = 3` lets a batch be unrolled while the next one is
buffered and a third has an id of the first, and two refusals meet one answer. In
`inbound` the lists of models have one of each kind of declaration, and let a
name be taken, an unknown backend come before or after what can be loaded, a plugin
lose to a model, and a broken class end the startup; five words are enough for two crons that parse and a
third word that does not. One user moves
between two channels: what is said of users is said of each alone. Of the three messages one begins
with the id of the bot, on the guarded backend; one is a `/schedule add` in a direct message that begins with its
name; and one is a direct message of the bot itself that begins with both, on the backend whose name is in
the configuration, with a subcommand of `/schedule` that does not exist.
In `stores` three instants give a record a time before, at and after its expiry, and a clock that was
read before the lock can be behind by any of them; a record with a lifetime of -1 has expired before it
is written, one with 0 when it is, and one with 1 at the next instant. In
`loops` two workers are enough for one to drive, one to wait and the engine to
meet either; `MaxQueue` and `MaxLate` cap counters of which only zero is looked at.
Deadlock is not checked where the system may stop: at the bound on the clock, once every
message was delivered, when the bot has failed to start, or when the engine waits for ever. It is
checked in `flow` and `stores`. The theorems below do without the
bounds.

Fairness: `Scheduler` assumes that the engine thread goes on while the process is
up (weak fairness of `EngineStep`) and that time passes; nothing is assumed of
users, crashes or whoever restarts the bot. `AgentCommand` assumes that a waiting
poll is run, which is what `DueCommandsRun` gives; nothing is assumed of agents,
which may never finish. `MessageFlow` assumes that the engine completes its cycles,
takes an alarm that is due, and that time passes; nothing of adapters and commands.
`Inbound` assumes that an extracted command is executed, and that the thread of the
refresh goes on: its loop catches everything, and each fetch returns or raises.
`EventLoops` assumes that threads go on, that time passes, and that a coroutine ends after
finitely many steps on a loop that is driven again and again (strong fairness of
`Finish`, because the loop may stop before it); nothing of commands, nor that anybody
asks the bot for anything.

### What the violations show

* `downtime`: `_restore_scheduled_commands` (bot.py:121) arms only records whose
  date is not past. For a recurring command that is the end: it stays in the store
  and in the list and never runs again.
* `inflight`: two requests of a user in flight together are each given the history
  at submission. `execute` replaces the history (agent.py:700), so the
  second answer drops the turn of the first.
* `stuck`: `_download_on_loop` (agent.py:582) finds the loop of the backend running, because
  an agent drives it, submits the download to it and waits without a timeout. The agent
  ends, its thread leaves `run_until_complete`, and the download stays pending; only another agent or channel lookup
  would drive the loop again, and the engine, which starts those, is the one that
  waits. `DrivenCallsEnd` in `loops` is the part that holds. `_run_agent`
  (agent.py:218) waits in the same way, but blocks only its worker.
* `expired`: a `put` with a lifetime of 0 reads the clock; then `records` reads a later one and sweeps; then the `put`
  gets the lock and writes; then `records` takes the lock again and returns a record that had expired
  before it was called (persistence.py:140 and 158, 220 and 246). The Protocol says "Return unexpired records" (line 82).
* `reply`: the id that platforms put into a reply to the bot's answer is not known when
  the answer is tracked (bot.py:338), and `on_response_sent` has no caller.

Other disagreements are not violated by a run of their own, but stand in what holds:

* The refusal and the unrolled answers share
  one flatten (bot.py:204), and when both tick in one cycle the refusal is gone, so the
  `unauthorized_msg` of bot_config.py:56 does not always reach the user it is for.
  `RefusalsYieldToAnswers` in `flow` says that this is the only way in which one is lost.
* `_extract_commands` calls `preexecute` on every runner (bot.py:1026). Runners that the decorator or a
  `Command` subclass registers have none; the `AttributeError` is logged and the message dropped, although
  framework.py:3 offers both and `_execute_command` knows how to run them. `AskedIsAnswered` leaves them out by
  `HasPreexecute`.
* An agent command with the one argument `ERROR:x` submits its agent (agent.py:617), and `execute` then takes the
  argument for an error (agent.py:632) and never takes the future: the answer is lost, and the entry
  stays. `FuturesPolled` leaves out the texts that `ReadsAsError`.
* `execute_command_func` has a "timeout in seconds for async operations and generators"
  (executor.py:164), but `_run_sync_generator` does not look at its own: a generator that does not end keeps the
  engine. In `EventLoops` nothing makes `EndGenerator` happen, and `AsyncCallsEnd` speaks of the
  asynchronous kinds only.
* A subcommand of `/schedule` that does not exist is logged (schedule.py:51) and its author hears nothing.

## What is proved

Every theorem holds for all values of the constants that satisfy the named
assumptions: `SchedulerAssumption` (kinds of commands, natural bounds),
`NextRunAssumption` (a later date, or none), `AgentAssumption`
and `NoneAssumption` (the absent values differ from all others), `FlowAssumption`,
`DispatchAssumption`, `InboundAssumption` (the guarded backend is configured, the author of a message is a user or
the bot, and its text begins with mentions that it has), `StoreAssumption`
(lifetimes are integers, the absent and the torn record differ from records),
`LoopAssumption` (the engine is no worker) and `WordAssumption`: directives are words with a
slash or an exclamation mark, no word starts with @ too, and `/schedule` and
`/delay` are neither crons nor dates.

*Scheduler.* `AtMostOnce` is not inductive: what keeps a delayed command from a
second run is that it is in one place only. `PlaceInv` says so of the channel, the
store with its alarm, and `s_to_process`; `SpentInv` says that a command that was
removed, or has run, is in none of them; `CleanInv` that nothing of the
process outlives it; with `ArmedUnlessMissed` and `SingleAlarm` they make
`IInv`, and `Invariance` is proved with one lemma per action. `NoSecondRun`,
`OneAlarmEach`, `StoreMatchesAlarms`, `RemovalIsFinal` and `NothingIsDropped` follow from it.
`TimelyInv` adds the dates: what the next run has to wait for is respected by
the channel, the record and `s_to_process`. It gives `NoEarlyRun`, and
with it `Refinement`: `Scheduler` implements `OneShots`, crashes as `Lose` or a stutter.

*AgentCommand.* The functions of `SessionStore` get one lemma each: they return a
store whose index agrees with its sessions, and only lose index entries and
sessions, keep turns, or start an empty session under the key of the caller
(`Follows`). `IndexKeyInv` says that the index leads from a message to the session of
its own key, `KeyInv` that a message keeps its key when it is delivered again, and
`TogetherInv` that sessions and jobs hold turns of connected messages only.
Together they are `AInv`, which gives `IndexIsSound`, `ConversationsStayApart` and `AgentTypes`.
`AnswerPerRun` counts, and is not inductive: the future of a run that is done can still be
answered with. `RunInv` counts without it: there are no more answers than runs that are
done and have no future any more. An answer pops the future of its run, which makes room for itself; a timeout or a
restart only takes futures away, and a text that reads as an error leaves its future behind without an
answer, which `RunInv` says of such texts alone. With the conjunct that nothing is
known of deliveries to come, so that a new delivery starts with no outcome, it gives
`NoSecondAnswer` and `NoFutureLeaks`.

*MessageFlow.* `FlowInv` adds to the three safety properties the type, that every
answer in `last` was delivered, and that adapters queue their own messages only.
`NothingLost` needs the former: an answer is left out because of an id in `last`, so what
`last` holds must be on its way to the users. `AnswersAreKept`, `AnswersKeepOrder` and
`FirstAdapterIsHeard` follow for any number of adapters and answers, assuming
`FlowAssumption`. `RefusalsYield` counts: `RefusalInv` says that a refusal lives for one
cycle and that the set of lost refusals is finite and no larger than what was
published. A cycle can only add to it when `MessagesOut` takes the other branch, and by
`InOrder` the answer it publishes then is a new one.

*Dispatch.* `LoadsAsConfigured` speaks of the end of `load_commands`. `LoadInv` is what holds
on the way: the models before `next` are loadable and `commands` is what they say;
in the last loop the names that were visited have what model and decorator say, the others
what the models say. `LoadingIsRight` and `RunsWhereDeclared` follow for any models, plugins and
backends, assuming `DispatchAssumption`.

*UserAccess and Inbound.* `AccessIsFresh` speaks of a refresh that is over. `AccessInv` is what holds
in the middle of one: who was in a channel all the time is among the `collected`, if the cursor
has passed that channel, and otherwise still a member; whoever is a member or was collected was
seen in this refresh, and at some time. The proof goes through the actions of the refresh and
of the users; the other actions of `Inbound` leave its variables alone. `StrangersAreKeptOut` needs
of it that only users who were seen are authorised. That `InSpec` implements the specification
of `Dispatch` (`InboundDispatches`) carries the theorems of `Dispatch` over to the composed system.
`HeardAreRead` is an induction over `Hear` alone: lookups that fail come before those that succeed, so an id by
which a message was heard is known when it is read, and a name too (`MisreadWhen`). What is left are direct messages,
and the name in the configuration, by which a message is heard without anybody having asked for the id.

*Arguments.* A turn of `_parse_command_args` depends on what the turns before it have skipped and
used up, and the reference definition on nothing but positions. `Parsed` says what the loop has after `n`
words in terms of the reference: the arguments and targets among them, the last channel
they name, what they cause to be skipped, and that the mentions that are left are those after the
`n`th count. `ParseStep` hands that on from a turn to the next one, case by case; it rests
on `ChannelNames` (in a row of directives every other word is a channel), on `LeftByTurn`
(a word with an @ is matched exactly if a mention is left) and on `SkippedByTurn`. The prover has no induction over
data, so `TurnByTurn` takes the least turn that fails, which exists because the naturals are well-founded
(`LeastNumber`). `ParseIsRight` and `AddIsRight` hold for texts of any length, any words and any
mentions; `InboundParses` and `InboundUnderstandsAdd` are what they say of whatever
is in `Texts`, `Mentionings` and `Plans`.

*Stores.* Both implementations are first shown to take the same steps (`Step`, `Crash` of `StoreProofs`).
`StoreInv` says of a call of `records` between its two acquisitions of the lock that
what it will find was live when it was called or put since, which is its `offer`, or will be swept by the clock it read; `StoresAreSound` proves
it for any threads, keys and lifetimes. `StoresKeepPromise` then maps every step: an expired
record that is still kept does not exist for the promise, so the removal of one, by `get` or by a sweep, is a
stutter there, and the tick of the clock is what removes it.

*EventLoops.* `LoopInv` is inductive as it stands: each step of a thread that
joins or leaves the loop changes `driver`, `task` and the place of that thread together.
`LoopIsSound` holds for any number of workers, jobs and timeouts.

Only model-checked: the liveness properties `DueCommandsRun`, `EveryCommandEnds`, `AnswersGoOut`,
`AskedIsAnswered`, `RevokedInTheEnd`, `DrivenCallsEnd` and `AsyncCallsEnd`, because the
prover has neither fairness nor ENABLED, and the five violations, which are counterexamples. Every
invariant and action property of the passing runs, and both refinements, are proved.

## What is not modelled, and the plan

1. Ids of two backends in one reply index (bot.py:338), which needs messages of two backends in
   `AgentCommand`.
2. What the liveness properties rest on: step by step, that a waiting command is not lost and comes closer to
   its turn, as action properties that can be proved without fairness.

What `schedule add` owes the command inside it (its `preexecute`, its backends, its
spelling) is said nowhere, so `Dispatch` models what happens and no property judges it.

`MessageFlow` does not measure the time between messages: `ratelimit_seconds` bounds how
often a batch goes out, while `unroll` publishes a batch at one instant and refusals
pass by the buffer.

Left out for good: formatting of messages, prompts, the coercion of results, the configuration
models, the command line, the adapters and everything else that chatom, csp and
croniter do beyond what is said above.
