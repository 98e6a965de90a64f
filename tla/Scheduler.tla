------------------------------ MODULE Scheduler ------------------------------
(***************************************************************************)
(* The delayed and recurring commands of csp_bot: the _handle_commands     *)
(* node of csp_bot/bot.py, the ScheduleStore of csp_bot/persistence.py it  *)
(* writes, and the remove subcommand of csp_bot/commands/schedule.py.      *)
(*                                                                         *)
(* A member of Cmds stands for one BotCommand and for the schedule id the  *)
(* store gives it (a fresh uuid, so no two commands share one).  Time is   *)
(* the engine time csp.now(), in UTC like every stored next_run_at, so     *)
(* _datetime_for_now and _to_utc only change the representation of an      *)
(* instant and are not visible here.                                       *)
(*                                                                         *)
(* The csp engine is one thread.  A cycle of _handle_commands delivers at  *)
(* most one alarm, then at most one command, and then runs what the two    *)
(* put on s_to_process; the process may die between any two of these.      *)
(*                                                                         *)
(* Definitions marked "Faulty" are broken versions of the definition that  *)
(* follows them: no action uses them, they are there to see that the       *)
(* properties notice such a fault.                                         *)
(***************************************************************************)
EXTENDS Integers, Sequences, SequencesExt

CONSTANTS
    Cmds,           \* BotCommands that users may send
    Recurring,      \* those with a cron expression in BotCommand.schedule
    Polls,          \* those that resubmit themselves (AgentCommand)
    NextRun(_, _),  \* croniter(c.schedule, t).get_next(): external library
    NoTime,         \* None: no delay, no record, or no next date
    MaxTime,        \* bound on the clock
    PollInterval,   \* AgentCommand.poll_interval
    Durable,        \* TRUE for FsspecStateStore, FALSE for InMemoryStateStore
    MaxBoots        \* bound on the number of times the process starts

Times == 0..MaxTime
Instants == Nat \cup {NoTime}

ASSUME SchedulerAssumption ==
    /\ Recurring \subseteq Cmds
    /\ Polls \subseteq Cmds
    /\ Recurring \cap Polls = {}
    /\ MaxTime \in Nat
    /\ PollInterval \in Nat \ {0}
    /\ Durable \in BOOLEAN
    /\ MaxBoots \in Nat \ {0}
    /\ NoTime \notin Nat

(* croniter.get_next returns a date strictly after its start, or raises    *)
(* CroniterBadDateError (NoTime here) when no date matches.                *)
ASSUME NextRunAssumption ==
    \A c \in Recurring, t \in Times :
        NextRun(c, t) = NoTime \/ (NextRun(c, t) \in Nat /\ NextRun(c, t) > t)

VARIABLES
    (* The environment of the bot.                                         *)
    now,        \* engine time, csp.now()
    boots,      \* number of times the process has started
    boot,       \* engine time of the last start
    (* The state store: survives the process when Durable.                 *)
    records,    \* next_run_at of the stored record of each command
    (* The process: lost when it dies.                                     *)
    up,         \* the engine is running
    phase,      \* what the current engine cycle has already done
    delay,      \* BotCommand.delay of each command
    inbox,      \* commands on the commands channel, not yet handled
    armed,      \* outstanding a_scheduled alarms of each command
    toProcess,  \* s_to_process
    (* History, never read by the actions of the code.                     *)
    sent,       \* commands that users have sent
    removed,    \* commands whose removal the store reported as successful
    ran         \* engine times at which each command was executed

env     == <<now, boots, boot>>
engine  == <<up, phase, delay, inbox, armed, toProcess>>
history == <<sent, removed, ran>>
vars    == <<env, records, engine, history>>

OneShot == Cmds \ (Recurring \cup Polls)

TypeOK ==
    /\ now \in Times
    /\ boots \in 1..MaxBoots
    /\ boot \in 0..now
    /\ records \in [Cmds -> Instants]
    /\ up \in BOOLEAN
    /\ phase \in {"idle", "alarmed", "commanded"}
    /\ delay \in [Cmds -> Instants]
    /\ inbox \in Seq(Cmds)
    /\ armed \in [Cmds -> Seq(Nat)]
    /\ toProcess \in Seq(Cmds)
    /\ sent \subseteq Cmds
    /\ removed \subseteq Cmds
    /\ ran \in [Cmds -> Seq(Times)]

Init ==
    /\ now = 0
    /\ boots = 1
    /\ boot = 0
    /\ records = [c \in Cmds |-> NoTime]
    /\ up = TRUE
    /\ phase = "idle"
    /\ delay = [c \in Cmds |-> NoTime]
    /\ inbox = <<>>
    /\ armed = [c \in Cmds |-> <<>>]
    /\ toProcess = <<>>
    /\ sent = {}
    /\ removed = {}
    /\ ran = [c \in Cmds |-> <<>>]
-----------------------------------------------------------------------------
(* The process dies: what the node and the engine hold is gone.            *)
Dies ==
    /\ up' = FALSE
    /\ phase' = "idle"
    /\ inbox' = <<>>
    /\ armed' = [c \in Cmds |-> <<>>]
    /\ toProcess' = <<>>
    /\ records' = IF Durable THEN records ELSE [c \in Cmds |-> NoTime]
    /\ UNCHANGED <<env, delay, history>>

(* A user's message becomes a command.  preexecute of the schedule command *)
(* sets the delay the user asked for, and preexecute of an agent command   *)
(* sets the time of its first poll.                                        *)
Receive(c, d) ==
    /\ up
    /\ phase = "idle"
    /\ c \notin sent
    /\ c \in Polls => d = now + PollInterval
    /\ sent' = sent \cup {c}
    /\ delay' = [delay EXCEPT ![c] = d]
    /\ inbox' = Append(inbox, c)
    /\ UNCHANGED <<env, records, up, phase, armed, toProcess, removed, ran>>

(* "/schedule remove <id>": done in preexecute, before _handle_commands    *)
(* sees anything of the cycle.  The alarm of the record stays outstanding. *)
RemoveSchedule(c) ==
    /\ up
    /\ phase = "idle"
    /\ records[c] # NoTime
    /\ records' = [records EXCEPT ![c] = NoTime]
    /\ removed' = removed \cup {c}
    /\ UNCHANGED <<env, engine, sent, ran>>
-----------------------------------------------------------------------------
(* Faulty: one half of StoreAndArm without the other.                      *)
StoreOnly(c, t, pending) ==
    records' = [records EXCEPT ![c] = t] /\ armed' = [armed EXCEPT ![c] = pending]

ArmOnly(c, t, pending) ==
    records' = records /\ armed' = [armed EXCEPT ![c] = Append(pending, t)]

(* _store_scheduled_command followed by csp.schedule_alarm; pending are    *)
(* the alarms of c that stay outstanding.                                  *)
StoreAndArm(c, t, pending) ==
    /\ records' = [records EXCEPT ![c] = t]
    /\ armed' = [armed EXCEPT ![c] = Append(pending, t)]

(* Faulty: the command runs with its record still in the store.            *)
KeepRecord(c, pending) ==
    records' = records /\ armed' = [armed EXCEPT ![c] = pending]

(* _remove_scheduled_command, before the command runs.                     *)
TakeRecord(c, pending) ==
    /\ records' = [records EXCEPT ![c] = NoTime]
    /\ armed' = [armed EXCEPT ![c] = pending]

(* Faulty: alarms fire without a look into the store.                      *)
NeverForgotten(c) == FALSE

(* The alarm is a leftover of a removed schedule.                          *)
Forgotten(c) == records[c] = NoTime

(* An alarm of c fires: the engine may be late, never early.               *)
AlarmTick(c, i) ==
    LET rest == RemoveAt(armed[c], i) IN
    /\ up
    /\ phase = "idle"
    /\ i \in DOMAIN armed[c]
    /\ armed[c][i] <= now
    /\ \/ /\ Forgotten(c)
          /\ armed' = [armed EXCEPT ![c] = rest]
          /\ phase' = "alarmed"
          /\ UNCHANGED <<env, records, up, delay, inbox, toProcess, history>>
       \/ /\ ~Forgotten(c)
          /\ c \in Recurring
          /\ NextRun(c, now) # NoTime
          /\ toProcess' = Append(toProcess, c)
          /\ StoreAndArm(c, NextRun(c, now), rest)
          /\ phase' = "alarmed"
          /\ UNCHANGED <<env, up, delay, inbox, history>>
       \/ /\ ~Forgotten(c)
          /\ c \in Recurring
          /\ NextRun(c, now) = NoTime  \* croniter raises: the engine stops
          /\ Dies
       \/ /\ ~Forgotten(c)
          /\ c \notin Recurring
          /\ toProcess' = Append(toProcess, c)
          /\ TakeRecord(c, rest)
          /\ phase' = "alarmed"
          /\ UNCHANGED <<env, up, delay, inbox, history>>

(* A command arrives on the commands channel: a delay that is not past is  *)
(* waited for, otherwise a cron expression schedules the first run,        *)
(* otherwise the command runs in this cycle.                               *)
CmdTick ==
    LET c == Head(inbox)
        waits == delay[c] # NoTime /\ delay[c] >= now
    IN
    /\ up
    /\ phase \in {"idle", "alarmed"}
    /\ inbox # <<>>
    /\ \/ /\ waits
          /\ StoreAndArm(c, delay[c], armed[c])
          /\ inbox' = Tail(inbox)
          /\ phase' = "commanded"
          /\ UNCHANGED <<env, up, delay, toProcess, history>>
       \/ /\ ~waits
          /\ c \in Recurring
          /\ NextRun(c, now) # NoTime
          /\ StoreAndArm(c, NextRun(c, now), armed[c])
          /\ inbox' = Tail(inbox)
          /\ phase' = "commanded"
          /\ UNCHANGED <<env, up, delay, toProcess, history>>
       \/ /\ ~waits
          /\ c \in Recurring
          /\ NextRun(c, now) = NoTime  \* croniter raises: the engine stops
          /\ Dies
       \/ /\ ~waits
          /\ c \notin Recurring
          /\ toProcess' = Append(toProcess, c)
          /\ inbox' = Tail(inbox)
          /\ phase' = "commanded"
          /\ UNCHANGED <<env, records, up, delay, armed, history>>

(* Faulty: any command may come back, not only a poll.                     *)
RunAndResubmitAny ==
    LET c == Head(toProcess) IN
    /\ up
    /\ phase # "idle"
    /\ toProcess # <<>>
    /\ toProcess' = Tail(toProcess)
    /\ ran' = [ran EXCEPT ![c] = Append(@, now)]
    /\ \/ UNCHANGED <<delay, inbox>>
       \/ /\ delay' = [delay EXCEPT ![c] = now + PollInterval]
          /\ inbox' = Append(inbox, c)
    /\ UNCHANGED <<env, records, up, phase, armed, sent, removed>>

(* _execute_command on the next command of s_to_process.  A poll whose     *)
(* future is not done comes back through the commands channel in a later   *)
(* cycle, with a new delay.                                                *)
RunCommand ==
    LET c == Head(toProcess) IN
    /\ up
    /\ phase # "idle"
    /\ toProcess # <<>>
    /\ toProcess' = Tail(toProcess)
    /\ ran' = [ran EXCEPT ![c] = Append(@, now)]
    /\ \/ UNCHANGED <<delay, inbox>>
       \/ /\ c \in Polls
          /\ delay' = [delay EXCEPT ![c] = now + PollInterval]
          /\ inbox' = Append(inbox, c)
    /\ UNCHANGED <<env, records, up, phase, armed, sent, removed>>

(* Everything has run: the engine cycle ends.                              *)
EndCycle ==
    /\ up
    /\ phase # "idle"
    /\ toProcess = <<>>
    /\ phase' = "idle"
    /\ UNCHANGED <<env, records, up, delay, inbox, armed, toProcess, history>>
-----------------------------------------------------------------------------
(* Time passes between cycles; the engine may miss any number of instants. *)
Tick ==
    /\ phase = "idle"
    /\ now < MaxTime
    /\ now' = now + 1
    /\ UNCHANGED <<boots, boot, records, engine, history>>

Crash ==
    /\ up
    /\ Dies

(* Faulty: every command is armed, stored or not.                          *)
RestoredUnfiltered == [c \in Cmds |-> <<records[c]>>]

(* Faulty: what is restored runs at once.                                  *)
RestoredNow == [c \in Cmds |-> IF records[c] = NoTime THEN <<>> ELSE <<now>>]

(* Faulty: a record that is due at this very instant is skipped.           *)
RestoredStrictly ==
    [c \in Cmds |-> IF records[c] # NoTime /\ records[c] > now
                      THEN <<records[c]>> ELSE <<>>]

(* _restore_scheduled_commands: records that are not past.  The others     *)
(* stay in the store.                                                      *)
Restored ==
    [c \in Cmds |-> IF records[c] # NoTime /\ records[c] >= now
                      THEN <<records[c]>> ELSE <<>>]

(* csp.start of _handle_commands.                                          *)
Restart ==
    /\ ~up
    /\ boots < MaxBoots
    /\ up' = TRUE
    /\ boots' = boots + 1
    /\ boot' = now
    /\ armed' = Restored
    /\ UNCHANGED <<now, records, phase, delay, inbox, toProcess, history>>
-----------------------------------------------------------------------------
EngineStep ==
    \/ \E c \in Cmds : \E i \in DOMAIN armed[c] : AlarmTick(c, i)
    \/ CmdTick
    \/ RunCommand
    \/ EndCycle

Next ==
    \/ \E c \in Cmds, d \in 0..(MaxTime + PollInterval) \cup {NoTime} : Receive(c, d)
    \/ \E c \in Cmds : RemoveSchedule(c)
    \/ EngineStep
    \/ Tick
    \/ Crash
    \/ Restart

Spec == Init /\ [][Next]_vars

(* The engine thread keeps running cycles while it is up, and time passes. *)
(* Nothing is assumed of users, of crashes or of whoever restarts the bot. *)
Fairness == WF_vars(EngineStep) /\ WF_vars(Tick)

FairSpec == Spec /\ Fairness
-----------------------------------------------------------------------------
(* A delayed command is executed at most once, whatever crashes, restarts  *)
(* and removals happen around its alarm: _handle_commands takes the record *)
(* out of the store before the command runs.                               *)
AtMostOnce == \A c \in OneShot : Len(ran[c]) <= 1

(* Once "/schedule remove" has reported success the command never starts   *)
(* again, although its csp alarm is still outstanding.                     *)
RemovedStaysSilent == [][\A c \in removed : ran'[c] = ran[c]]_vars

(* No run comes before its time: the first waits for BotCommand.delay, and *)
(* the next ones for the cron instant, or the poll interval, after the run *)
(* before them; late alarms and restarts do not make runs bunch up.        *)
DueAfter(c, t) == IF c \in Recurring THEN NextRun(c, t) ELSE t + PollInterval

OnTime(c, i) ==
    IF i = 1 THEN c \in Polls \/ delay[c] = NoTime \/ delay[c] <= ran[c][1]
             ELSE DueAfter(c, ran[c][i-1]) \in 0..ran[c][i]

NeverEarly == \A c \in Cmds : \A i \in DOMAIN ran[c] : OnTime(c, i)

(* Every command has at most one alarm outstanding, so a recurring command *)
(* or a poll has one chain of runs and not several.                        *)
SingleAlarm == \A c \in Cmds : Len(armed[c]) <= 1

(* The store and the alarms agree: a record of the running process has an  *)
(* alarm at its next_run_at, unless that instant had passed when the       *)
(* process started, in which case it has none.                             *)
ArmedUnlessMissed ==
    up => \A c \in Cmds : records[c] # NoTime =>
              armed[c] = IF records[c] >= boot THEN <<records[c]>> ELSE <<>>

(* A command that the bot has taken does not vanish: what it holds in the  *)
(* channel, in the store or on s_to_process leaves only by being removed,  *)
(* by running (a recurring command stays even then), or because the        *)
(* process died while the store had no record of it.                       *)
Held(c) == c \in Range(inbox) \/ c \in Range(toProcess) \/ records[c] # NoTime

NothingVanishes ==
    [][\A c \in Cmds : Held(c) /\ ~Held(c)' =>
           \/ c \in removed'
           \/ c \notin Recurring /\ ran'[c] # ran[c]
           \/ ~up' /\ (~Durable \/ records[c] = NoTime)]_vars

(* While the process stays up, a stored command whose time comes within    *)
(* the bound on the clock is executed at or after that time, or removed.   *)
DueCommandsRun ==
    \A c \in Cmds, d \in Times :
        (up /\ records[c] = d /\ d >= boot)
            ~> (~up \/ c \in removed \/ \E i \in DOMAIN ran[c] : ran[c][i] >= d)

(* A recurring command that "/schedule list" still shows will run again.   *)
(* docs/wiki/Commands.md offers the schedule command "to run later or on a *)
(* cron schedule"; the filter of _restore_scheduled_commands breaks it.    *)
ListedCronsStayArmed ==
    (up /\ phase = "idle") =>
        \A c \in Recurring : records[c] # NoTime => armed[c] # <<>>
-----------------------------------------------------------------------------
(* The inductive invariant behind the safety properties: where a command   *)
(* can be at the same time.                                                *)
InChannel(c) == c \in Range(inbox)
Claimed(c)   == c \in Range(toProcess)

(* Nothing of the process outlives it, and s_to_process is empty between   *)
(* cycles.                                                                 *)
CleanInv ==
    /\ ~up => /\ phase = "idle"
              /\ inbox = <<>>
              /\ \A c \in Cmds : armed[c] = <<>>
    /\ phase = "idle" => toProcess = <<>>

(* A command is in one place only; a recurring command may be claimed and  *)
(* stored again in the same cycle.                                         *)
PlaceInv ==
    /\ IsInjective(inbox)
    /\ IsInjective(toProcess)
    /\ \A c \in Cmds :
          /\ InChannel(c) => records[c] = NoTime /\ armed[c] = <<>> /\ ~Claimed(c)
          /\ Claimed(c) /\ c \notin Recurring => records[c] = NoTime /\ armed[c] = <<>>
          /\ Claimed(c) /\ c \in Recurring => records[c] # NoTime
          /\ c \notin sent => /\ ~InChannel(c) /\ ~Claimed(c) /\ c \notin removed
                              /\ records[c] = NoTime /\ armed[c] = <<>> /\ ran[c] = <<>>

(* A removed command has no place left to run from, and a delayed command  *)
(* that ran has none to run from again.                                    *)
SpentInv ==
    \A c \in Cmds :
        c \in removed \/ (c \in OneShot /\ ran[c] # <<>>) =>
            ~InChannel(c) /\ ~Claimed(c) /\ records[c] = NoTime

IInv ==
    /\ TypeOK
    /\ CleanInv
    /\ PlaceInv
    /\ SpentInv
    /\ AtMostOnce
    /\ SingleAlarm
    /\ ArmedUnlessMissed

(* What the next run of a command has to wait for, and how the channel,    *)
(* the store and s_to_process keep to it.                                  *)
ReadyAt(c) ==
    IF ran[c] # <<>> THEN DueAfter(c, Last(ran[c]))
    ELSE IF c \in Polls \/ delay[c] = NoTime THEN 0
    ELSE delay[c]

TimelyInv ==
    \A c \in Cmds :
        /\ InChannel(c) => \/ ran[c] = <<>>
                           \/ c \in Polls /\ delay[c] # NoTime /\ ReadyAt(c) <= delay[c]
        /\ records[c] # NoTime => ReadyAt(c) \in 0..records[c]
        /\ Claimed(c) => ReadyAt(c) \in 0..now
        /\ Claimed(c) /\ c \in Recurring => NextRun(c, now) # NoTime
                                            /\ records[c] = NextRun(c, now)

TInv == IInv /\ TimelyInv /\ NeverEarly
=============================================================================
