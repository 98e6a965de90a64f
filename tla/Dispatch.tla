------------------------------- MODULE Dispatch -------------------------------
(***************************************************************************)
(* How commands are registered and reached: load_commands of csp_bot/bot.py *)
(* with its entry points, models and decorated functions, the part of      *)
(* _extract_commands that turns a message into a command, and              *)
(* _execute_command.  When a command runs is left to Scheduler: here a     *)
(* command that was extracted runs at any later time.                      *)
(*                                                                         *)
(* Names are what a command is called by.  A backend is declared in some   *)
(* spelling of its name; Backends are the spellings of _KNOWN_BACKENDS and *)
(* of the messages, and Lower is str.lower().                              *)
(*                                                                         *)
(* Definitions marked "Faulty" are broken versions of the definition that  *)
(* follows them: no action uses them.                                      *)
(***************************************************************************)
EXTENDS Integers, Sequences

CONSTANTS
    Names,          \* names of commands
    Help,           \* the name of HelpCommand
    Schedule,       \* the name of ScheduleCommand
    NoName,         \* no command in a message, or no inner command
    Backends,       \* _KNOWN_BACKENDS
    Configured,     \* backends with a configuration, which get an adapter
    Listed,         \* the backends that _active_backends looks at
    Spellings,      \* spellings of backends, and of anything else
    Lower(_),       \* str.lower()
    Models,         \* the command models that may be configured, by position
    Plugins,        \* what each entry point registers with @command
    NoRunner,       \* a name that is not registered
    Messages        \* the messages of users

(* "base" is a BaseCommand, "class" a Command, "entry" a CommandEntry of   *)
(* @command; "broken" models raise when they are instantiated.             *)
Runner == [api : {"base", "class", "entry", "broken"}, declared : SUBSET Spellings]

ASSUME DispatchAssumption ==
    /\ {Help, Schedule} \subseteq Names
    /\ NoName \notin Names
    /\ Backends \subseteq Spellings
    /\ Configured \subseteq Backends
    /\ \A b \in Backends : Lower(b) = b
    /\ Models \subseteq Seq([name : Names, runner : Runner])
    /\ \A p \in Plugins : p.name \in Names /\ p.runner \in Runner /\ p.runner.api = "entry"
    /\ NoRunner \notin Runner
    /\ \A m \in Messages : /\ m.command \in Names \cup {NoName}
                           /\ m.sub \in {"add", "list", "remove", "other"}
                           /\ m.inner \in Names \cup {NoName}
                           /\ m.backend \in Configured

VARIABLES
    stage,      \* how far load_commands has come, then "ready" or "failed"
    models,     \* command_models
    next,       \* the model that comes next
    plugins,    \* entry points that have not been loaded
    registry,   \* _COMMAND_REGISTRY of the decorator
    pending,    \* decorated names that load_commands has still to visit
    commands,   \* Bot._commands
    channel,    \* commands extracted from messages that have not run
    asked,      \* history: messages that were processed
    misread,    \* history: those whose mention of the bot was not taken off
    executed    \* history: commands that ran

loading == <<stage, models, next, plugins, registry, pending, commands>>
running == <<channel, asked, misread, executed>>
vars    == <<loading, running>>

Command == [name : Names, backend : Backends, msg : Messages]

TypeOK ==
    /\ stage \in {"plugins", "models", "decorated", "ready", "failed"}
    /\ models \in Models
    /\ next \in 1..(Len(models) + 1)
    /\ plugins \subseteq Plugins
    /\ registry \in [Names -> Runner \cup {NoRunner}]
    /\ pending \subseteq Names
    /\ commands \in [Names -> Runner \cup {NoRunner}]
    /\ channel \subseteq Command
    /\ asked \subseteq Messages
    /\ misread \subseteq asked
    /\ executed \subseteq Command

Init ==
    /\ stage = "plugins"
    /\ models \in Models
    /\ next = 1
    /\ plugins = Plugins
    /\ registry = [n \in Names |-> NoRunner]
    /\ pending = {}
    /\ commands = [n \in Names |-> NoRunner]
    /\ channel = {}
    /\ asked = {}
    /\ misread = {}
    /\ executed = {}
-----------------------------------------------------------------------------
(* _load_entrypoint_commands: importing an entry point registers its       *)
(* command; one that raises is skipped, before or after it has registered. *)
LoadPlugin(p) ==
    /\ stage = "plugins"
    /\ p \in plugins
    /\ plugins' = plugins \ {p}
    /\ \/ registry' = [registry EXCEPT ![p.name] = p.runner]
       \/ UNCHANGED registry
    /\ UNCHANGED <<stage, models, next, pending, commands, running>>

(* All entry points were visited, or their discovery failed.               *)
PluginsLoaded ==
    /\ stage = "plugins"
    /\ plugins \in {{}, Plugins}
    /\ stage' = "models"
    /\ UNCHANGED <<models, next, plugins, registry, pending, commands, running>>

(* _active_backends                                                        *)
Active == Configured \cap Listed

(* _normalize_command_backends raises.                                     *)
Unknown(r) == \E s \in r.declared : Lower(s) \notin Backends

(* _is_command_backend_compatible, of a runner that is not Unknown.        *)
Compatible(r) ==
    \/ r.declared = {}
    \/ Active = {}
    \/ \E s \in r.declared : Lower(s) \in Active

(* Faulty: a model replaces another one of its name.                       *)
RefusedUnlessTaken(m) == m.runner.api = "broken" \/ Unknown(m.runner)

(* The next model: load_commands raises when it cannot be instantiated,    *)
(* when it declares an unknown backend, or when its name is taken.         *)
Refused(m) ==
    \/ m.runner.api = "broken"
    \/ Unknown(m.runner)
    \/ Compatible(m.runner) /\ commands[m.name] # NoRunner

LoadModel ==
    LET m == models[next] IN
    /\ stage = "models"
    /\ next <= Len(models)
    /\ \/ /\ Refused(m)
          /\ stage' = "failed"
          /\ UNCHANGED commands
       \/ /\ ~Refused(m)
          /\ commands' = IF Compatible(m.runner)
                           THEN [commands EXCEPT ![m.name] = m.runner] ELSE commands
          /\ UNCHANGED stage
    /\ next' = next + 1
    /\ UNCHANGED <<models, plugins, registry, pending, running>>

ModelsLoaded ==
    /\ stage = "models"
    /\ next > Len(models)
    /\ stage' = "decorated"
    /\ pending' = {n \in Names : registry[n] # NoRunner}
    /\ UNCHANGED <<models, next, plugins, registry, commands, running>>

(* Faulty: a decorated function replaces a model of the same name.         *)
VisitAnyway(n) ==
    IF Unknown(registry[n])
      THEN stage' = "failed" /\ UNCHANGED commands
      ELSE /\ UNCHANGED stage
           /\ commands' = IF Compatible(registry[n])
                            THEN [commands EXCEPT ![n] = registry[n]] ELSE commands

(* The body of the loop over get_registered_commands().                    *)
Visit(n) ==
    \/ /\ commands[n] # NoRunner
       /\ UNCHANGED <<stage, commands>>
    \/ /\ commands[n] = NoRunner
       /\ Unknown(registry[n])
       /\ stage' = "failed"
       /\ UNCHANGED commands
    \/ /\ commands[n] = NoRunner
       /\ ~Unknown(registry[n])
       /\ UNCHANGED stage
       /\ commands' = IF Compatible(registry[n])
                        THEN [commands EXCEPT ![n] = registry[n]] ELSE commands

LoadDecorated(n) ==
    /\ stage = "decorated"
    /\ n \in pending
    /\ pending' = pending \ {n}
    /\ Visit(n)
    /\ UNCHANGED <<models, next, plugins, registry, running>>

DecoratedLoaded ==
    /\ stage = "decorated"
    /\ pending = {}
    /\ stage' = "ready"
    /\ UNCHANGED <<models, next, plugins, registry, pending, commands, running>>
-----------------------------------------------------------------------------
(* The check of _extract_commands, on the declared spelling.               *)
Supports(r, b) == r.declared = {} \/ b \in r.declared

(* Only a BaseCommand has a preexecute: for the other runners the call     *)
(* raises, and the message is dropped.                                     *)
HasPreexecute(r) == r.api = "base"

(* ScheduleCommand.preexecute returns no command: /schedule remove is done  *)
(* with (see Scheduler), and another subcommand than add, list and remove  *)
(* is logged.  Without one /schedule is a list.                            *)
Ends(m) == m.command = Schedule /\ m.sub \in {"remove", "other"}

(* The command that preexecute returns: /schedule add replaces its own     *)
(* name by that of the inner command, without a look at its runner.        *)
NameOf(m) ==
    IF m.command = Schedule /\ m.sub = "add" /\ m.inner # NoName THEN m.inner ELSE m.command

Registered(n) == n \in Names /\ commands[n] # NoRunner

(* Faulty: the backend is not looked at.                                   *)
ExtractedAnywhere(m) ==
    IF Registered(m.command) /\ HasPreexecute(commands[m.command]) /\ ~Ends(m)
      THEN {[name |-> NameOf(m), backend |-> m.backend, msg |-> m]}
      ELSE {}

(* Faulty: a message that names no command gets no help.                   *)
ExtractedByName(m) ==
    IF /\ Registered(m.command)
       /\ Supports(commands[m.command], m.backend)
       /\ HasPreexecute(commands[m.command])
       /\ ~Ends(m)
      THEN {[name |-> NameOf(m), backend |-> m.backend, msg |-> m]}
      ELSE {}

(* _create_help_command, on whatever backend.                              *)
Helped(m) ==
    IF Registered(Help) THEN {[name |-> Help, backend |-> m.backend, msg |-> m]} ELSE {}

(* What _extract_commands makes of a message, as a set of at most one      *)
(* command.                                                                *)
Extracted(m) ==
    IF Registered(m.command)
      THEN IF /\ Supports(commands[m.command], m.backend)
              /\ HasPreexecute(commands[m.command])
              /\ ~Ends(m)
             THEN {[name |-> NameOf(m), backend |-> m.backend, msg |-> m]}
             ELSE {}
      ELSE Helped(m)

Process(m) ==
    /\ stage = "ready"
    /\ m \notin asked
    /\ asked' = asked \cup {m}
    /\ channel' = channel \cup Extracted(m)
    /\ UNCHANGED <<loading, misread, executed>>

(* The text begins with a mention of the bot that _extract_commands does   *)
(* not take off, for it does not know itself: it sees no command in it.    *)
Misread(m) ==
    /\ stage = "ready"
    /\ m \notin asked
    /\ asked' = asked \cup {m}
    /\ misread' = misread \cup {m}
    /\ channel' = channel \cup Helped(m)
    /\ UNCHANGED <<loading, executed>>

(* _execute_command: every kind of runner is executed, a name that is not  *)
(* registered is dropped.                                                  *)
Execute(c) ==
    /\ stage = "ready"
    /\ c \in channel
    /\ channel' = channel \ {c}
    /\ executed' = IF Registered(c.name) THEN executed \cup {c} ELSE executed
    /\ UNCHANGED <<loading, asked, misread>>
-----------------------------------------------------------------------------
Next ==
    \/ \E p \in Plugins : LoadPlugin(p)
    \/ PluginsLoaded
    \/ LoadModel
    \/ ModelsLoaded
    \/ \E n \in Names : LoadDecorated(n)
    \/ DecoratedLoaded
    \/ \E m \in Messages : Process(m) \/ Misread(m)
    \/ \E c \in channel : Execute(c)

Spec == Init /\ [][Next]_vars
-----------------------------------------------------------------------------
(* The models of name n that can be used, among the first k.               *)
Candidates(n, k) ==
    {j \in 1..k : models[j].name = n /\ Compatible(models[j].runner)}

(* The first k models can all be loaded.                                   *)
Loadable(k) ==
    /\ \A j \in 1..k : models[j].runner.api # "broken" /\ ~Unknown(models[j].runner)
    /\ \A n \in Names : \A i, j \in Candidates(n, k) : i = j

(* What the models say of name n when the first k are loaded.              *)
FromModels(n, k) ==
    \/ \E j \in Candidates(n, k) : commands[n] = models[j].runner
    \/ Candidates(n, k) = {} /\ commands[n] = NoRunner

(* The entry of a decorated function is used only where no model is.       *)
Declares(n) == registry[n] # NoRunner /\ Candidates(n, Len(models)) = {}

FromBoth(n) ==
    IF Declares(n)
      THEN commands[n] = IF Compatible(registry[n]) THEN registry[n] ELSE NoRunner
      ELSE FromModels(n, Len(models))

Consistent ==
    /\ Loadable(Len(models))
    /\ \A n \in Names : Declares(n) => ~Unknown(registry[n])

(* load_commands, which visits models and decorated functions one by one   *)
(* and may give up at each, ends as the configuration says, in whatever    *)
(* order plugins register: it raises only when something cannot be loaded, *)
(* and otherwise each name has its model, else its decorated function, if  *)
(* that may run on an active backend, else nothing.                        *)
LoadsAsConfigured ==
    /\ stage = "ready" => Consistent /\ \A n \in Names : FromBoth(n)
    /\ stage = "failed" => ~Consistent

(* A command asked for by its own name runs only on a backend it declares, *)
(* in the spelling of the messages.  It holds of no command that was       *)
(* reached through /schedule add, which looks at ScheduleCommand alone,    *)
(* nor of the help that answers what was not read.                         *)
OnlyWhereDeclared ==
    \A c \in channel \cup executed :
        c.name = c.msg.command /\ c.msg \notin misread =>
            /\ Registered(c.name)
            /\ Supports(commands[c.name], c.msg.backend)

(* A message that was not read, or that names nothing the bot knows, while *)
(* there is a help command; or one that names a command with a preexecute, *)
(* on a backend that it declares.  What /schedule add wraps has to be      *)
(* registered too; /schedule remove and a subcommand that does not exist   *)
(* are not answered.                                                       *)
Answerable(m) ==
    IF Registered(m.command) /\ m \notin misread
      THEN /\ Registered(NameOf(m))
           /\ Supports(commands[m.command], m.backend)
           /\ HasPreexecute(commands[m.command])
           /\ ~Ends(m)
      ELSE Registered(Help)

(* Every message that can be answered leads to the run of a command, and   *)
(* an answer gets who is heard and is not understood.                      *)
AskedIsAnswered ==
    \A m \in Messages :
        m \in asked /\ Answerable(m) ~> \E c \in executed : c.msg = m

(* The inductive invariant of the safety properties above.                 *)
LoadInv ==
    /\ stage = "plugins" => next = 1
    /\ stage \in {"plugins", "models", "decorated"} =>
          /\ Loadable(next - 1)
          /\ channel = {} /\ executed = {}
    /\ stage \in {"plugins", "models"} =>
          /\ pending = {}
          /\ \A n \in Names : FromModels(n, next - 1)
    /\ stage = "decorated" =>
          /\ next = Len(models) + 1
          /\ \A n \in pending : registry[n] # NoRunner /\ FromModels(n, Len(models))
          /\ \A n \in Names \ pending :
                FromBoth(n) /\ (Declares(n) => ~Unknown(registry[n]))
    /\ stage = "failed" => channel = {} /\ executed = {}

DispatchInv == TypeOK /\ LoadInv /\ LoadsAsConfigured /\ OnlyWhereDeclared
=============================================================================
