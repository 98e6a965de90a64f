---------------------------- MODULE DispatchProofs -----------------------------
(***************************************************************************)
(* What load_commands ends with, and where commands run, for any backends, *)
(* any command models and any plugins.                                     *)
(***************************************************************************)
EXTENDS Dispatch, TLAPS

LEMMA ModelType ==
    ASSUME TypeOK
    PROVE  /\ Len(models) \in Nat
           /\ \A j \in 1..Len(models) : models[j].name \in Names /\ models[j].runner \in Runner
<1> DEFINE M == [name : Names, runner : Runner]
<1>1. models \in Seq(M)
  BY DispatchAssumption DEF TypeOK
<1>2. Len(models) \in Nat /\ \A j \in 1..Len(models) : models[j] \in M
  <2> HIDE DEF M
  <2> QED
    BY <1>1
<1> QED
  BY <1>2

(* What the first models are does not change while they are loaded.        *)
LEMMA SameModels ==
    ASSUME UNCHANGED models
    PROVE  \A k \in Nat : /\ Loadable(k)' <=> Loadable(k)
                          /\ \A n \in Names : Candidates(n, k)' = Candidates(n, k)
BY DEF Loadable, Candidates

LEMMA DispatchInit == Init => DispatchInv
<1> SUFFICES ASSUME Init PROVE DispatchInv
  OBVIOUS
<1>1. Len(models) \in Nat
  BY DispatchAssumption DEF Init
<1>2. TypeOK
  <2>1. next \in 1..(Len(models) + 1)
    BY <1>1 DEF Init
  <2> QED
    BY <2>1 DEF Init, TypeOK
<1>3. \A n \in Names : Candidates(n, next - 1) = {}
  <2>1. next - 1 = 0 /\ 1..0 = {}
    BY DEF Init
  <2> QED
    BY <2>1 DEF Candidates
<1>4. LoadInv
  BY <1>3 DEF Init, LoadInv, Loadable, FromModels
<1> QED
  BY <1>2, <1>4 DEF Init, DispatchInv, LoadsAsConfigured, OnlyWhereDeclared

-----------------------------------------------------------------------------
(* The entry points.                                                       *)
LEMMA LoadPluginStep ==
    ASSUME DispatchInv, NEW p \in Plugins, LoadPlugin(p)
    PROVE  DispatchInv'
<1> USE DEF LoadPlugin, DispatchInv
<1>1. registry' \in [Names -> Runner \cup {NoRunner}]
  BY DispatchAssumption DEF TypeOK
<1>2. TypeOK'
  BY <1>1 DEF TypeOK, running
<1>3. LoadInv'
  BY DEF LoadInv, Loadable, FromModels, Candidates, running
<1>4. LoadsAsConfigured' /\ OnlyWhereDeclared'
  BY DEF LoadsAsConfigured, OnlyWhereDeclared, LoadInv, running
<1> QED
  BY <1>2, <1>3, <1>4

LEMMA PluginsLoadedStep ==
    ASSUME DispatchInv, PluginsLoaded
    PROVE  DispatchInv'
<1> USE DEF PluginsLoaded, DispatchInv
<1>1. TypeOK'
  BY DEF TypeOK, running
<1>2. LoadInv'
  BY DEF LoadInv, Loadable, FromModels, Candidates, running
<1>3. LoadsAsConfigured' /\ OnlyWhereDeclared'
  BY DEF LoadsAsConfigured, OnlyWhereDeclared, LoadInv, running
<1> QED
  BY <1>1, <1>2, <1>3

-----------------------------------------------------------------------------
(* The models.                                                             *)
LEMMA NextCandidate ==
    ASSUME NEW k \in Nat, NEW n \in Names
    PROVE  /\ Candidates(n, k) \subseteq Candidates(n, k + 1)
           /\ Candidates(n, k + 1) \subseteq Candidates(n, k) \cup {k + 1}
           /\ k + 1 \in Candidates(n, k + 1) <=>
                 models[k + 1].name = n /\ Compatible(models[k + 1].runner)
           /\ k + 1 \notin Candidates(n, k)
BY DEF Candidates

LEMMA LoadModelStep ==
    ASSUME DispatchInv, LoadModel
    PROVE  DispatchInv'
<1> DEFINE m == models[next]
           k == next - 1
<1> USE DEF LoadModel, DispatchInv
<1>0. /\ next \in 1..Len(models)
      /\ k \in Nat
      /\ k + 1 = next
      /\ next' - 1 = next
      /\ Len(models) \in Nat
      /\ m.name \in Names
      /\ m.runner \in Runner
  BY ModelType DEF TypeOK
<1>1. TypeOK'
  BY <1>0 DEF TypeOK, running
<1>2. /\ Loadable(k)
      /\ \A n \in Names : FromModels(n, k)
      /\ pending = {} /\ channel = {} /\ executed = {}
      /\ NoRunner \notin Runner
  BY DispatchAssumption DEF LoadInv
<1>3. \A n \in Names : /\ Candidates(n, k) \subseteq Candidates(n, next)
                       /\ Candidates(n, next) \subseteq Candidates(n, k) \cup {next}
                       /\ next \in Candidates(n, next) <=> m.name = n /\ Compatible(m.runner)
                       /\ next \notin Candidates(n, k)
  BY <1>0, NextCandidate
<1>4. CASE Refused(m)
  <2>1. stage' = "failed" /\ UNCHANGED <<models, registry, commands, channel, executed>>
    BY <1>4 DEF running
  <2>2. ~Loadable(Len(models))
    <3>1. CASE m.runner.api = "broken" \/ Unknown(m.runner)
      BY <3>1, <1>0 DEF Loadable
    <3>2. CASE Compatible(m.runner) /\ commands[m.name] # NoRunner
      <4>1. PICK j \in Candidates(m.name, k) : TRUE
        BY <3>2, <1>0, <1>2 DEF FromModels
      <4>2. /\ j \in Candidates(m.name, Len(models))
            /\ next \in Candidates(m.name, Len(models))
            /\ j # next
        BY <4>1, <3>2, <1>0 DEF Candidates
      <4> QED
        BY <4>2, <1>0 DEF Loadable
    <3> QED
      BY <3>1, <3>2, <1>4 DEF Refused
  <2>3. ~Consistent'
    BY <2>1, <2>2 DEF Consistent, Loadable, Candidates
  <2> QED
    BY <1>1, <1>2, <2>1, <2>3 DEF LoadInv, LoadsAsConfigured, OnlyWhereDeclared
<1>5. CASE ~Refused(m)
  <2>1. /\ stage' = stage
        /\ commands' = IF Compatible(m.runner)
                         THEN [commands EXCEPT ![m.name] = m.runner] ELSE commands
        /\ UNCHANGED <<models, registry, pending, channel, executed>>
    BY <1>5 DEF running
  <2>2. /\ m.runner.api # "broken"
        /\ ~Unknown(m.runner)
        /\ Compatible(m.runner) => commands[m.name] = NoRunner
    BY <1>5 DEF Refused
  <2>3. \A j \in 1..k : models[j].runner \in Runner
    BY <1>0, ModelType
  <2>4. Compatible(m.runner) => Candidates(m.name, k) = {}
    <3> SUFFICES ASSUME Compatible(m.runner), NEW j \in Candidates(m.name, k) PROVE FALSE
      OBVIOUS
    <3>1. PICK i \in Candidates(m.name, k) : commands[m.name] = models[i].runner
      BY <1>0, <1>2 DEF FromModels
    <3>2. models[i].runner \in Runner
      BY <3>1, <2>3 DEF Candidates
    <3> QED
      BY <3>1, <3>2, <2>2, <1>2
  <2>5. Loadable(next)
    <3>1. \A j \in 1..next : models[j].runner.api # "broken" /\ ~Unknown(models[j].runner)
      BY <1>0, <1>2, <2>2 DEF Loadable
    <3>2. ASSUME NEW n \in Names, NEW i \in Candidates(n, next), NEW j \in Candidates(n, next)
          PROVE  i = j
      <4>1. CASE i = next \/ j = next
        <5>1. n = m.name /\ Compatible(m.runner)
          BY <4>1, <1>3
        <5>2. Candidates(n, k) = {}
          BY <5>1, <2>4
        <5> QED
          BY <5>2, <1>3
      <4>2. CASE i # next /\ j # next
        <5>1. i \in Candidates(n, k) /\ j \in Candidates(n, k)
          BY <4>2, <1>3
        <5> QED
          BY <5>1, <1>2 DEF Loadable
      <4> QED
        BY <4>1, <4>2
    <3> QED
      BY <3>1, <3>2 DEF Loadable
  <2>6. ASSUME NEW n \in Names
        PROVE  \/ \E j \in Candidates(n, next) : commands'[n] = models[j].runner
               \/ Candidates(n, next) = {} /\ commands'[n] = NoRunner
    <3>1. CASE n = m.name /\ Compatible(m.runner)
      BY <3>1, <2>1, <1>3 DEF TypeOK
    <3>2. CASE ~(n = m.name /\ Compatible(m.runner))
      <4>1. Candidates(n, next) = Candidates(n, k)
        BY <3>2, <1>3
      <4>2. commands'[n] = commands[n]
        BY <3>2, <2>1, <1>0 DEF TypeOK
      <4> QED
        BY <4>1, <4>2, <1>2 DEF FromModels
    <3> QED
      BY <3>1, <3>2
  <2>7. Loadable(next' - 1)
    BY <2>5, <1>0
  <2>8. \A n \in Names : FromModels(n, next - 1)'
    BY <2>1, <2>6, <1>0, SameModels DEF FromModels
  <2>9. LoadInv'
    BY <2>1, <2>7, <2>8, <1>0, <1>2, SameModels DEF LoadInv
  <2> QED
    BY <1>1, <1>2, <2>1, <2>9 DEF LoadsAsConfigured, OnlyWhereDeclared
<1> QED
  BY <1>4, <1>5

LEMMA ModelsLoadedStep ==
    ASSUME DispatchInv, ModelsLoaded
    PROVE  DispatchInv'
<1> USE DEF ModelsLoaded, DispatchInv
<1>0. next = Len(models) + 1 /\ next - 1 = Len(models) /\ Len(models) \in Nat
  BY ModelType DEF TypeOK
<1>1. TypeOK'
  BY DEF TypeOK, running
<1>2. /\ Loadable(Len(models))
      /\ \A n \in Names : FromModels(n, Len(models))
      /\ channel = {} /\ executed = {}
  BY <1>0 DEF LoadInv
<1>3. \A n \in Names \ pending' : ~Declares(n)
  BY DEF Declares
<1>4. \A n \in Names \ pending' : FromBoth(n)' /\ ~Declares(n)'
  BY <1>2, <1>3 DEF FromBoth, FromModels, Declares, Candidates
<1>5. \A n \in pending' : registry'[n] # NoRunner /\ FromModels(n, Len(models))'
  BY <1>0, <1>2, SameModels DEF FromModels
<1>6. Loadable(next - 1)'
  BY <1>0, <1>2, SameModels
<1>7. LoadInv'
  BY <1>0, <1>2, <1>4, <1>5, <1>6 DEF LoadInv, running
<1> QED
  BY <1>1, <1>2, <1>7 DEF LoadsAsConfigured, OnlyWhereDeclared, running

-----------------------------------------------------------------------------
(* The decorated functions.                                                *)
LEMMA LoadDecoratedStep ==
    ASSUME DispatchInv, NEW n \in Names, LoadDecorated(n)
    PROVE  DispatchInv'
<1> USE DEF LoadDecorated, DispatchInv
<1>0. /\ next = Len(models) + 1 /\ next - 1 = Len(models) /\ Len(models) \in Nat
      /\ UNCHANGED <<models, next, registry, channel, executed>>
      /\ pending' = pending \ {n}
      /\ n \in pending
      /\ NoRunner \notin Runner
  BY ModelType, DispatchAssumption DEF LoadInv, running
<1>1. /\ Loadable(Len(models))
      /\ registry[n] # NoRunner /\ FromModels(n, Len(models))
      /\ \A x \in pending : registry[x] # NoRunner /\ FromModels(x, Len(models))
      /\ \A x \in Names \ pending : FromBoth(x) /\ (Declares(x) => ~Unknown(registry[x]))
      /\ channel = {} /\ executed = {}
  BY <1>0 DEF LoadInv
<1>2. commands[n] # NoRunner <=> Candidates(n, Len(models)) # {}
  <2>1. \A j \in Candidates(n, Len(models)) : models[j].runner \in Runner
    BY ModelType DEF Candidates
  <2> QED
    BY <2>1, <1>0, <1>1 DEF FromModels
<1>3. Declares(n) <=> commands[n] = NoRunner
  BY <1>1, <1>2 DEF Declares
<1>4. \A x \in Names : Declares(x)' <=> Declares(x)
  BY <1>0, SameModels DEF Declares
<1>5. stage' \in {"decorated", "failed"} /\ commands' \in [Names -> Runner \cup {NoRunner}]
  BY DEF Visit, TypeOK
<1>6. TypeOK'
  BY <1>0, <1>5 DEF TypeOK, running
<1>7. CASE stage' = "failed"
  <2>1. commands[n] = NoRunner /\ Unknown(registry[n])
    BY <1>7 DEF Visit
  <2>2. ~Consistent
    BY <2>1, <1>3 DEF Consistent
  <2>3. ~Consistent'
    BY <2>2, <1>0, <1>4, SameModels DEF Consistent
  <2> QED
    BY <1>0, <1>1, <1>6, <1>7, <2>3 DEF LoadInv, LoadsAsConfigured, OnlyWhereDeclared
<1>8. CASE stage' = "decorated"
  <2>1. \A x \in Names : x # n => commands'[x] = commands[x]
    BY <1>8 DEF Visit, TypeOK
  <2>2. \A x \in pending' : registry'[x] # NoRunner /\ FromModels(x, Len(models))'
    BY <1>0, <1>1, <2>1, SameModels DEF FromModels, TypeOK
  <2>3. ASSUME NEW x \in Names \ pending', x # n
        PROVE  FromBoth(x)' /\ (Declares(x)' => ~Unknown(registry'[x]))
    <3>1. FromBoth(x) /\ (Declares(x) => ~Unknown(registry[x]))
      BY <2>3, <1>0, <1>1
    <3> QED
      BY <3>1, <2>1, <2>3, <1>0, <1>4, SameModels DEF FromBoth, FromModels
  <2>4. FromBoth(n)' /\ (Declares(n)' => ~Unknown(registry'[n]))
    <3>1. CASE commands[n] # NoRunner
      <4>1. commands' = commands /\ ~Declares(n)
        BY <3>1, <1>3 DEF Visit
      <4> QED
        BY <4>1, <1>0, <1>1, <1>4, SameModels DEF FromBoth, FromModels
    <3>2. CASE commands[n] = NoRunner
      <4>1. /\ ~Unknown(registry[n])
            /\ commands'[n] = IF Compatible(registry[n]) THEN registry[n] ELSE NoRunner
        BY <3>2, <1>8 DEF Visit, TypeOK
      <4> QED
        BY <4>1, <3>2, <1>0, <1>3, <1>4 DEF FromBoth
    <3> QED
      BY <3>1, <3>2
  <2>5. Loadable(next - 1)'
    BY <1>0, <1>1, SameModels
  <2>6. LoadInv'
    BY <1>0, <1>1, <1>8, <2>2, <2>3, <2>4, <2>5 DEF LoadInv
  <2> QED
    BY <1>0, <1>1, <1>6, <1>8, <2>6 DEF LoadsAsConfigured, OnlyWhereDeclared
<1> QED
  BY <1>5, <1>7, <1>8

LEMMA DecoratedLoadedStep ==
    ASSUME DispatchInv, DecoratedLoaded
    PROVE  DispatchInv'
<1> USE DEF DecoratedLoaded, DispatchInv
<1>0. UNCHANGED <<models, next, registry, commands, channel, executed>>
  BY DEF running
<1>1. TypeOK'
  BY DEF TypeOK, running
<1>2. Consistent /\ \A n \in Names : FromBoth(n)
  <2>1. next - 1 = Len(models)
    BY ModelType DEF LoadInv
  <2> QED
    BY <2>1 DEF LoadInv, Consistent
<1>3. Len(models) \in Nat
  BY ModelType
<1>4. Consistent' /\ \A n \in Names : FromBoth(n)'
  BY <1>0, <1>2, <1>3, SameModels DEF Consistent, FromBoth, FromModels, Declares
<1>5. channel = {} /\ executed = {}
  BY DEF LoadInv
<1> QED
  BY <1>0, <1>1, <1>4, <1>5 DEF LoadInv, LoadsAsConfigured, OnlyWhereDeclared

-----------------------------------------------------------------------------
(* Messages and commands.                                                  *)
LEMMA LoadedForGood ==
    ASSUME DispatchInv, UNCHANGED loading, stage = "ready"
    PROVE  LoadInv' /\ LoadsAsConfigured'
<1>1. UNCHANGED <<stage, models, registry, commands>>
  BY DEF loading
<1>2. Len(models) \in Nat
  BY ModelType DEF DispatchInv
<1>3. Consistent' <=> Consistent
  BY <1>1, <1>2, SameModels DEF Consistent, Declares
<1>4. \A n \in Names : FromBoth(n)' <=> FromBoth(n)
  BY <1>1, <1>2, SameModels DEF FromBoth, FromModels, Declares
<1> QED
  BY <1>1, <1>3, <1>4 DEF DispatchInv, LoadInv, LoadsAsConfigured

LEMMA HelpedIs ==
    ASSUME NEW m \in Messages, NEW c \in Helped(m)
    PROVE  c \in Command /\ c.msg = m /\ c.name = Help /\ Registered(Help)
<1>1. m.backend \in Backends /\ Help \in Names
  BY DispatchAssumption
<1>2. Registered(Help) /\ c = [name |-> Help, backend |-> m.backend, msg |-> m]
  BY DEF Helped
<1> QED
  BY <1>1, <1>2 DEF Command

LEMMA ProcessStep ==
    ASSUME DispatchInv, NEW m \in Messages, Process(m)
    PROVE  DispatchInv'
<1> USE DEF Process
<1>0. UNCHANGED <<stage, commands, misread, executed>> /\ channel' = channel \cup Extracted(m)
  BY DEF loading
<1>1. ASSUME NEW c \in Extracted(m)
      PROVE  /\ c \in Command
             /\ c.msg = m
             /\ c.name = m.command =>
                  /\ Registered(c.name)
                  /\ Supports(commands[c.name], m.backend)
  <2>1. m.backend \in Backends
    BY DispatchAssumption
  <2>2. CASE Registered(m.command)
    <3>1. /\ Supports(commands[m.command], m.backend)
          /\ c = [name |-> NameOf(m), backend |-> m.backend, msg |-> m]
      BY <2>2, <1>1 DEF Extracted
    <3>2. NameOf(m) \in Names
      BY <2>2, DispatchAssumption DEF NameOf, Registered
    <3> QED
      BY <2>1, <2>2, <3>1, <3>2 DEF Command
  <2>3. CASE ~Registered(m.command)
    <3>1. c \in Helped(m)
      BY <2>3, <1>1 DEF Extracted
    <3> QED
      BY <2>3, <3>1, HelpedIs
  <2> QED
    BY <2>2, <2>3
<1>2. TypeOK'
  BY <1>0, <1>1 DEF DispatchInv, TypeOK, loading
<1>3. OnlyWhereDeclared'
  BY <1>0, <1>1 DEF DispatchInv, OnlyWhereDeclared, Registered
<1> QED
  BY <1>2, <1>3, LoadedForGood DEF DispatchInv

LEMMA MisreadStep ==
    ASSUME DispatchInv, NEW m \in Messages, Misread(m)
    PROVE  DispatchInv'
<1> USE DEF Misread
<1>0. /\ UNCHANGED <<stage, commands, executed>> /\ channel' = channel \cup Helped(m)
      /\ misread' = misread \cup {m}
  BY DEF loading
<1>1. \A c \in Helped(m) : c \in Command /\ c.msg = m
  BY HelpedIs
<1>2. TypeOK'
  BY <1>0, <1>1 DEF DispatchInv, TypeOK, loading
<1>3. OnlyWhereDeclared'
  BY <1>0, <1>1 DEF DispatchInv, OnlyWhereDeclared, Registered
<1> QED
  BY <1>2, <1>3, LoadedForGood DEF DispatchInv

LEMMA ExecuteStep ==
    ASSUME DispatchInv, NEW c \in channel, Execute(c)
    PROVE  DispatchInv'
<1> USE DEF Execute
<1>0. /\ UNCHANGED <<stage, commands, misread>>
      /\ channel' \subseteq channel
      /\ executed' \subseteq executed \cup {c}
  BY DEF loading
<1>1. TypeOK'
  BY <1>0 DEF DispatchInv, TypeOK, loading
<1>2. OnlyWhereDeclared'
  BY <1>0 DEF DispatchInv, OnlyWhereDeclared, Registered
<1> QED
  BY <1>1, <1>2, LoadedForGood DEF DispatchInv

-----------------------------------------------------------------------------
(* The invariant of Dispatch: types, how far each part of load_commands    *)
(* has come, what it ends with, and where commands run.                    *)
THEOREM DispatchInvariance == Spec => []DispatchInv
<1>1. DispatchInv /\ [Next]_vars => DispatchInv'
  <2> SUFFICES ASSUME DispatchInv, [Next]_vars PROVE DispatchInv'
    OBVIOUS
  <2>1. ASSUME NEW p \in Plugins, LoadPlugin(p) PROVE DispatchInv'
    BY <2>1, LoadPluginStep
  <2>2. CASE PluginsLoaded
    BY <2>2, PluginsLoadedStep
  <2>3. CASE LoadModel
    BY <2>3, LoadModelStep
  <2>4. CASE ModelsLoaded
    BY <2>4, ModelsLoadedStep
  <2>5. ASSUME NEW n \in Names, LoadDecorated(n) PROVE DispatchInv'
    BY <2>5, LoadDecoratedStep
  <2>6. CASE DecoratedLoaded
    BY <2>6, DecoratedLoadedStep
  <2>7. ASSUME NEW m \in Messages, Process(m) PROVE DispatchInv'
    BY <2>7, ProcessStep
  <2>8. ASSUME NEW m \in Messages, Misread(m) PROVE DispatchInv'
    BY <2>8, MisreadStep
  <2>9. ASSUME NEW c \in channel, Execute(c) PROVE DispatchInv'
    BY <2>9, ExecuteStep
  <2>10. CASE UNCHANGED vars
    BY <2>10 DEF vars, loading, running, DispatchInv, TypeOK, LoadInv, LoadsAsConfigured,
                OnlyWhereDeclared, Consistent, Loadable, FromBoth, FromModels, Declares,
                Candidates, Registered
  <2> QED
    BY <2>1, <2>2, <2>3, <2>4, <2>5, <2>6, <2>7, <2>8, <2>9, <2>10 DEF Next
<1> QED
  BY <1>1, DispatchInit, PTL DEF Spec

(* load_commands ends as the configuration says.                           *)
THEOREM LoadingIsRight == Spec => []LoadsAsConfigured
BY DispatchInvariance, PTL DEF DispatchInv

(* A command that is called by its name runs where it declares to.         *)
THEOREM RunsWhereDeclared == Spec => []OnlyWhereDeclared
BY DispatchInvariance, PTL DEF DispatchInv
===============================================================================
