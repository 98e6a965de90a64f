--------------------------- MODULE SchedulerProofs ---------------------------
(***************************************************************************)
(* Theorems about Scheduler, for every set of commands, every cron, every  *)
(* bound on the clock and on the number of restarts, and for a store that  *)
(* survives the process as well as for one that does not; at the end, that *)
(* no run of a command comes before its time, and that what Scheduler does *)
(* with one-shot commands is what OneShots promises.                       *)
(***************************************************************************)
EXTENDS SchedulerRefinement, SequenceTheorems, TLAPS

(* First, facts about sequences used as queues: what they hold (Range) and *)
(* whether they hold it once (IsInjective).                                *)

(* Appending adds one element, once if the queue did not hold it.          *)
LEMMA AppendToQueue ==
    ASSUME NEW S, NEW q \in Seq(S), NEW e \in S
    PROVE  /\ Append(q, e) \in Seq(S)
           /\ Append(q, e) # <<>>
           /\ Range(Append(q, e)) = Range(q) \cup {e}
           /\ IsInjective(q) /\ e \notin Range(q) => IsInjective(Append(q, e))
<1> DEFINE r == Append(q, e)
<1>1. /\ r \in Seq(S) /\ r # <<>> /\ Len(r) = Len(q) + 1
      /\ \A i \in 1..Len(q) : r[i] = q[i]
      /\ r[Len(q) + 1] = e
  BY AppendProperties
<1>2. /\ DOMAIN q = 1..Len(q) /\ DOMAIN r = 1..(Len(q) + 1) /\ Len(q) \in Nat
  BY <1>1, LenProperties
<1> HIDE DEF r
<1>3. Range(r) = Range(q) \cup {e}
  <2>1. ASSUME NEW x \in Range(r) PROVE x \in Range(q) \cup {e}
    <3>1. PICK i \in 1..(Len(q) + 1) : x = r[i]
      BY <1>2 DEF Range
    <3>2. CASE i = Len(q) + 1
      BY <3>1, <3>2, <1>1
    <3>3. CASE i # Len(q) + 1
      <4>1. i \in 1..Len(q)
        BY <3>3, <1>2
      <4>2. QED BY <3>1, <4>1, <1>1, <1>2 DEF Range
    <3>4. QED BY <3>2, <3>3
  <2>2. ASSUME NEW x \in Range(q) \cup {e} PROVE x \in Range(r)
    <3>1. CASE x = e
      <4>1. Len(q) + 1 \in 1..(Len(q) + 1)
        BY <1>2
      <4>2. QED BY <3>1, <4>1, <1>1, <1>2 DEF Range
    <3>2. CASE x \in Range(q)
      <4>1. PICK i \in 1..Len(q) : x = q[i]
        BY <3>2, <1>2 DEF Range
      <4>2. i \in 1..(Len(q) + 1) /\ x = r[i]
        BY <4>1, <1>1, <1>2
      <4>3. QED BY <4>2, <1>2 DEF Range
    <3>3. QED BY <3>1, <3>2
  <2>3. QED BY <2>1, <2>2
<1>4. ASSUME IsInjective(q), e \notin Range(q) PROVE IsInjective(r)
  <2>1. \A i \in 1..Len(q) : r[i] = q[i] /\ q[i] # e
    BY <1>1, <1>2, <1>4 DEF Range
  <2>2. \A i, j \in 1..Len(q) : q[i] = q[j] => i = j
    BY <1>2, <1>4 DEF IsInjective
  <2>3. \A i \in 1..(Len(q) + 1) : i = Len(q) + 1 \/ i \in 1..Len(q)
    BY <1>2
  <2>4. QED BY <2>1, <2>2, <2>3, <1>1, <1>2 DEF IsInjective
<1>5. QED BY <1>1, <1>3, <1>4 DEF r

(* Taking the head removes it, altogether if the queue held it once.       *)
LEMMA TakeFromQueue ==
    ASSUME NEW S, NEW q \in Seq(S), q # <<>>
    PROVE  /\ Head(q) \in Range(q)
           /\ Head(q) \in S
           /\ Tail(q) \in Seq(S)
           /\ Range(Tail(q)) \subseteq Range(q)
           /\ Range(q) \subseteq Range(Tail(q)) \cup {Head(q)}
           /\ IsInjective(q) => Head(q) \notin Range(Tail(q)) /\ IsInjective(Tail(q))
<1> DEFINE t == Tail(q)
<1>1. /\ Head(q) \in S /\ t \in Seq(S) /\ Len(t) = Len(q) - 1
      /\ \A i \in 1..Len(t) : t[i] = q[i + 1]
  BY HeadTailProperties
<1>2. Len(q) \in Nat \ {0} /\ Head(q) = q[1]
  BY EmptySeq
<1>3. DOMAIN q = 1..Len(q) /\ DOMAIN t = 1..(Len(q) - 1)
  BY <1>1, LenProperties
<1> HIDE DEF t
<1>4. Head(q) \in Range(q)
  BY <1>2, <1>3 DEF Range
<1>5. ASSUME NEW i \in 1..(Len(q) - 1) PROVE i + 1 \in 1..Len(q) /\ t[i] = q[i + 1]
  BY <1>1, <1>2
<1>6. Range(t) \subseteq Range(q)
  BY <1>3, <1>5 DEF Range
<1>7. Range(q) \subseteq Range(t) \cup {Head(q)}
  <2> SUFFICES ASSUME NEW x \in Range(q), x # Head(q) PROVE x \in Range(t)
    OBVIOUS
  <2>1. PICK i \in 1..Len(q) : x = q[i]
    BY <1>3 DEF Range
  <2>2. i - 1 \in 1..(Len(q) - 1)
    BY <2>1, <1>2
  <2>3. t[i - 1] = q[i]
    BY <2>2, <1>5
  <2>4. QED BY <2>1, <2>2, <2>3, <1>3 DEF Range
<1>8. ASSUME IsInjective(q) PROVE Head(q) \notin Range(t) /\ IsInjective(t)
  <2>1. \A i, j \in 1..Len(q) : q[i] = q[j] => i = j
    BY <1>3, <1>8 DEF IsInjective
  <2>2. 1 \in 1..Len(q) /\ \A i \in 1..(Len(q) - 1) : i + 1 # 1
    BY <1>2
  <2>3. \A i \in 1..(Len(q) - 1) : t[i] # q[1]
    BY <2>1, <2>2, <1>5
  <2>4. Head(q) \notin Range(t)
    BY <2>3, <1>2, <1>3 DEF Range
  <2>5. \A i, j \in 1..(Len(q) - 1) : t[i] = t[j] => i + 1 = j + 1
    BY <2>1, <1>5
  <2>6. QED BY <2>4, <2>5, <1>3 DEF IsInjective
<1>9. QED BY <1>1, <1>4, <1>6, <1>7, <1>8 DEF t

(* The empty queue.                                                        *)
LEMMA EmptyQueue ==
    ASSUME NEW S
    PROVE  <<>> \in Seq(S) /\ Range(<<>>) = {} /\ IsInjective(<<>>)
BY DEF Range, IsInjective

(* Removing the only element.                                              *)
LEMMA RemoveOnly ==
    ASSUME NEW S, NEW q \in Seq(S), Len(q) <= 1, NEW i \in DOMAIN q
    PROVE  i = 1 /\ Len(q) = 1 /\ RemoveAt(q, i) = <<>>
<1>1. Len(q) = 1 /\ i = 1
  <2>1. DOMAIN q = 1..Len(q) /\ Len(q) \in Nat
    BY LenProperties
  <2>2. QED BY <2>1
<1>2. SubSeq(q, 1, 0) = <<>> /\ SubSeq(q, 2, 1) = <<>>
  BY SubSeqEmpty
<1>3. <<>> \o <<>> = <<>>
  BY ConcatEmptySeq, EmptySeq
<1>4. QED BY <1>1, <1>2, <1>3 DEF RemoveAt

(* Removing an element keeps the queue a queue.                            *)
LEMMA RemoveAtType ==
    ASSUME NEW S, NEW q \in Seq(S), NEW i \in DOMAIN q
    PROVE  RemoveAt(q, i) \in Seq(S)
<1>1. i \in 1..Len(q) /\ Len(q) \in Nat /\ \A k \in 1..Len(q) : q[k] \in S
  BY LenProperties, ElementOfSeq
<1>2. SubSeq(q, 1, i - 1) \in Seq(S)
  <2>1. \A k \in 1..(i - 1) : q[k] \in S
    BY <1>1
  <2>2. QED BY <2>1, <1>1, SubSeqProperties
<1>3. SubSeq(q, i + 1, Len(q)) \in Seq(S)
  <2>1. \A k \in (i + 1)..Len(q) : q[k] \in S
    BY <1>1
  <2>2. QED BY <2>1, <1>1, SubSeqProperties
<1>4. QED BY <1>2, <1>3, ConcatProperties DEF RemoveAt

-----------------------------------------------------------------------------
(* NextRun yields what records and armed may hold.                         *)
LEMMA NextRunType ==
    ASSUME NEW c \in Recurring, NEW t \in Times, NextRun(c, t) # NoTime
    PROVE  NextRun(c, t) \in Nat /\ NextRun(c, t) > t
BY NextRunAssumption

LEMMA DiesType == TypeOK /\ Dies => TypeOK'
<1> SUFFICES ASSUME TypeOK, Dies PROVE TypeOK'
  OBVIOUS
<1>1. /\ phase' \in {"idle", "alarmed", "commanded"}
      /\ up' \in BOOLEAN
      /\ inbox' \in Seq(Cmds) /\ toProcess' \in Seq(Cmds)
      /\ armed' \in [Cmds -> Seq(Nat)]
  BY EmptySeq DEF Dies
<1>2. records' \in [Cmds -> Instants]
  BY DEF Dies, TypeOK, Instants
<1>3. QED BY <1>1, <1>2 DEF Dies, TypeOK, env, history

LEMMA AlarmType ==
    ASSUME TypeOK, NEW c \in Cmds, NEW i \in DOMAIN armed[c], AlarmTick(c, i)
    PROVE  TypeOK'
<1> DEFINE rest == RemoveAt(armed[c], i)
<1>1. rest \in Seq(Nat)
  BY RemoveAtType DEF TypeOK
<1>2. Append(toProcess, c) \in Seq(Cmds)
  BY AppendProperties DEF TypeOK
<1> HIDE DEF rest
<1>3. CASE records[c] = NoTime
  BY <1>1, <1>3 DEF AlarmTick, Forgotten, TakeRecord, TypeOK, env, history, rest
<1>4. CASE c \in Recurring /\ NextRun(c, now) # NoTime /\ ~Dies
  <2>1. NextRun(c, now) \in Nat
    BY <1>4, NextRunType DEF TypeOK
  <2>2. Append(rest, NextRun(c, now)) \in Seq(Nat)
    BY <1>1, <2>1, AppendProperties
  <2>3. QED BY <1>1, <1>2, <1>4, <2>1, <2>2
            DEF AlarmTick, Forgotten, TakeRecord, StoreAndArm, TypeOK, env, history, rest, Instants
<1>5. CASE Dies
  BY <1>5, DiesType
<1>6. CASE records[c] # NoTime /\ c \notin Recurring
  BY <1>1, <1>2, <1>6 DEF AlarmTick, Forgotten, TakeRecord, TypeOK, env, history, rest, Instants
<1>7. QED BY <1>3, <1>4, <1>5, <1>6 DEF AlarmTick, Forgotten, TakeRecord

LEMMA CmdType == TypeOK /\ CmdTick => TypeOK'
<1> SUFFICES ASSUME TypeOK, CmdTick PROVE TypeOK'
  OBVIOUS
<1> DEFINE c == Head(inbox)
<1>1. c \in Cmds /\ Tail(inbox) \in Seq(Cmds)
  BY HeadTailProperties DEF TypeOK, CmdTick
<1>2. Append(toProcess, c) \in Seq(Cmds)
  BY <1>1, AppendProperties DEF TypeOK
<1>3. ASSUME NEW t \in Nat, StoreAndArm(c, t, armed[c])
      PROVE  records' \in [Cmds -> Instants] /\ armed' \in [Cmds -> Seq(Nat)]
  <2>1. Append(armed[c], t) \in Seq(Nat)
    BY <1>1, AppendProperties DEF TypeOK
  <2>2. QED BY <1>1, <1>3, <2>1 DEF StoreAndArm, TypeOK, Instants
<1>4. CASE /\ delay[c] # NoTime /\ delay[c] >= now
  <2>1. delay[c] \in Nat
    BY <1>1, <1>4 DEF TypeOK, Instants
  <2>2. StoreAndArm(c, delay[c], armed[c])
    BY <1>4 DEF CmdTick
  <2>3. records' \in [Cmds -> Instants] /\ armed' \in [Cmds -> Seq(Nat)]
    BY <1>3, <2>1, <2>2
  <2>4. QED BY <1>1, <1>4, <2>3 DEF CmdTick, TypeOK, env, history
<1>5. CASE /\ ~(delay[c] # NoTime /\ delay[c] >= now)
           /\ c \in Recurring /\ NextRun(c, now) # NoTime
  <2>1. NextRun(c, now) \in Nat
    BY <1>5, NextRunType DEF TypeOK
  <2>2. StoreAndArm(c, NextRun(c, now), armed[c])
    BY <1>5 DEF CmdTick
  <2>3. records' \in [Cmds -> Instants] /\ armed' \in [Cmds -> Seq(Nat)]
    BY <1>3, <2>1, <2>2
  <2>4. QED BY <1>1, <1>5, <2>3 DEF CmdTick, TypeOK, env, history
<1>6. CASE Dies
  BY <1>6, DiesType
<1>7. CASE ~(delay[c] # NoTime /\ delay[c] >= now) /\ c \notin Recurring
  BY <1>1, <1>2, <1>7 DEF CmdTick, TypeOK, env, history
<1>8. QED BY <1>4, <1>5, <1>6, <1>7 DEF CmdTick

LEMMA RunType == TypeOK /\ RunCommand => TypeOK'
<1> SUFFICES ASSUME TypeOK, RunCommand PROVE TypeOK'
  OBVIOUS
<1> DEFINE c == Head(toProcess)
<1>1. c \in Cmds /\ Tail(toProcess) \in Seq(Cmds)
  BY HeadTailProperties DEF TypeOK, RunCommand
<1>2. Append(ran[c], now) \in Seq(Times)
  BY <1>1, AppendProperties DEF TypeOK
<1>3. Append(inbox, c) \in Seq(Cmds)
  BY <1>1, AppendProperties DEF TypeOK
<1>4. inbox' \in Seq(Cmds)
  BY <1>3 DEF RunCommand, TypeOK
<1>5. delay' \in [Cmds -> Instants]
  <2>1. now + PollInterval \in Instants
    BY SchedulerAssumption DEF TypeOK, Instants, Times
  <2>2. delay \in [Cmds -> Instants]
    BY DEF TypeOK
  <2>3. delay' = delay \/ delay' = [delay EXCEPT ![c] = now + PollInterval]
    BY DEF RunCommand
  <2>4. QED BY <2>1, <2>2, <2>3
<1>6. QED BY <1>1, <1>2, <1>4, <1>5 DEF RunCommand, TypeOK, env

LEMMA TypeStep == TypeOK /\ [Next]_vars => TypeOK'
<1> SUFFICES ASSUME TypeOK, [Next]_vars PROVE TypeOK'
  OBVIOUS
<1>1. ASSUME NEW c \in Cmds, NEW d \in 0..(MaxTime + PollInterval) \cup {NoTime},
             Receive(c, d)
      PROVE  TypeOK'
  <2>1. Append(inbox, c) \in Seq(Cmds)
    BY AppendProperties DEF TypeOK
  <2>2. d \in Instants
    BY SchedulerAssumption DEF Instants
  <2>3. QED BY <1>1, <2>1, <2>2 DEF Receive, TypeOK, env
<1>2. ASSUME NEW c \in Cmds, RemoveSchedule(c) PROVE TypeOK'
  BY <1>2 DEF RemoveSchedule, TypeOK, env, engine, Instants
<1>3. ASSUME NEW c \in Cmds, NEW i \in DOMAIN armed[c], AlarmTick(c, i) PROVE TypeOK'
  BY <1>3, AlarmType
<1>4. CASE CmdTick
  BY <1>4, CmdType
<1>5. CASE RunCommand
  BY <1>5, RunType
<1>6. CASE EndCycle
  BY <1>6 DEF EndCycle, TypeOK, env, history
<1>7. CASE Tick
  BY <1>7, SchedulerAssumption DEF Tick, TypeOK, engine, history, Times
<1>8. CASE Crash
  BY <1>8, DiesType DEF Crash
<1>9. CASE Restart
  <2>1. armed' \in [Cmds -> Seq(Nat)]
    <3>1. ASSUME NEW c \in Cmds, records[c] # NoTime PROVE <<records[c]>> \in Seq(Nat)
      BY <3>1 DEF TypeOK, Instants
    <3>2. QED BY <1>9, <3>1, EmptySeq DEF Restart, Restored
  <2>2. QED BY <1>9, <2>1, SchedulerAssumption DEF Restart, Restored, TypeOK, history, Times
<1>10. CASE UNCHANGED vars
  BY <1>10 DEF vars, env, engine, history, TypeOK
<1>11. QED
  BY <1>1, <1>2, <1>3, <1>4, <1>5, <1>6, <1>7, <1>8, <1>9, <1>10 DEF Next, EngineStep

(* The variables keep their types.                                         *)
THEOREM TypeCorrect == Spec => []TypeOK
<1>1. Init => TypeOK
  BY SchedulerAssumption, EmptySeq DEF Init, TypeOK, Times, Instants
<1>2. QED BY <1>1, TypeStep, PTL DEF Spec
-----------------------------------------------------------------------------
(* The inductive invariant, one lemma per action.  Only the parts that the *)
(* action can disturb have a step of their own.                            *)
Places == CleanInv /\ PlaceInv /\ SpentInv /\ AtMostOnce /\ SingleAlarm /\ ArmedUnlessMissed

LEMMA DiesPlaces == IInv /\ Dies => Places'
<1> SUFFICES ASSUME IInv, Dies PROVE Places'
  OBVIOUS
<1>1. Range(inbox') = {} /\ Range(toProcess') = {}
      /\ IsInjective(inbox') /\ IsInjective(toProcess')
  BY EmptyQueue DEF Dies
<1>2. \A c \in Cmds : armed'[c] = <<>> /\ (records'[c] = records[c] \/ records'[c] = NoTime)
  BY DEF Dies, IInv, TypeOK
<1>3. CleanInv'
  BY <1>2 DEF Dies, CleanInv
<1>4. PlaceInv'
  BY <1>1, <1>2 DEF Dies, IInv, PlaceInv, InChannel, Claimed, history
<1>5. SpentInv'
  BY <1>1, <1>2 DEF Dies, IInv, SpentInv, InChannel, Claimed, history
<1>6. AtMostOnce' /\ SingleAlarm' /\ ArmedUnlessMissed'
  BY <1>2, EmptySeq DEF Dies, IInv, AtMostOnce, SingleAlarm, ArmedUnlessMissed, history
<1>7. QED BY <1>3, <1>4, <1>5, <1>6 DEF Places

LEMMA ReceivePlaces ==
    ASSUME IInv, NEW c \in Cmds, NEW d, Receive(c, d)
    PROVE  Places'
<1>1. Range(inbox') = Range(inbox) \cup {c} /\ IsInjective(inbox')
  <2>1. c \notin Range(inbox) /\ inbox \in Seq(Cmds) /\ IsInjective(inbox)
    BY DEF Receive, IInv, PlaceInv, InChannel, TypeOK
  <2>2. QED BY <2>1, AppendToQueue DEF Receive
<1>2. c \notin removed /\ ran[c] = <<>>
  BY DEF Receive, IInv, PlaceInv
<1>3. CleanInv'
  BY DEF Receive, IInv, CleanInv
<1>4. PlaceInv'
  BY <1>1 DEF Receive, IInv, PlaceInv, InChannel, Claimed
<1>5. SpentInv'
  BY <1>1, <1>2 DEF Receive, IInv, SpentInv, InChannel, Claimed
<1>6. AtMostOnce' /\ SingleAlarm' /\ ArmedUnlessMissed'
  BY DEF Receive, IInv, AtMostOnce, SingleAlarm, ArmedUnlessMissed, env
<1>7. QED BY <1>3, <1>4, <1>5, <1>6 DEF Places

LEMMA RemovePlaces ==
    ASSUME IInv, NEW c \in Cmds, RemoveSchedule(c)
    PROVE  Places'
<1>1. Range(toProcess) = {}
  BY EmptyQueue DEF RemoveSchedule, IInv, CleanInv
<1>2. ~InChannel(c) /\ records' = [records EXCEPT ![c] = NoTime]
  BY DEF RemoveSchedule, IInv, PlaceInv
<1>3. CleanInv'
  BY DEF RemoveSchedule, IInv, CleanInv, engine
<1>4. PlaceInv'
  BY <1>1, <1>2 DEF RemoveSchedule, IInv, PlaceInv, InChannel, Claimed, engine, TypeOK
<1>5. SpentInv'
  BY <1>1, <1>2 DEF RemoveSchedule, IInv, SpentInv, InChannel, Claimed, engine, TypeOK
<1>6. AtMostOnce' /\ SingleAlarm' /\ ArmedUnlessMissed'
  BY <1>2 DEF RemoveSchedule, IInv, AtMostOnce, SingleAlarm, ArmedUnlessMissed, env, engine, TypeOK
<1>7. QED BY <1>3, <1>4, <1>5, <1>6 DEF Places

LEMMA AlarmPlaces ==
    ASSUME IInv, NEW c \in Cmds, NEW i \in DOMAIN armed[c], AlarmTick(c, i)
    PROVE  Places'
<1> DEFINE rest == RemoveAt(armed[c], i)
<1>1. rest = <<>> /\ armed[c] # <<>> /\ armed[c][1] <= now
  <2>1. armed[c] \in Seq(Nat) /\ Len(armed[c]) <= 1
    BY DEF IInv, TypeOK, SingleAlarm
  <2>2. i = 1 /\ Len(armed[c]) = 1 /\ rest = <<>>
    BY <2>1, RemoveOnly
  <2>3. QED BY <2>2, EmptySeq DEF AlarmTick, Forgotten, TakeRecord
<1>2. ~InChannel(c) /\ c \in sent
  BY <1>1 DEF IInv, PlaceInv
<1>3. toProcess = <<>> /\ up
  BY DEF AlarmTick, Forgotten, TakeRecord, IInv, CleanInv
<1>4. toProcess' = Append(toProcess, c)
      => IsInjective(toProcess') /\ Range(toProcess') = {c}
  <2>1. toProcess \in Seq(Cmds) /\ Range(toProcess) = {} /\ IsInjective(toProcess)
    BY <1>3, EmptyQueue DEF IInv, TypeOK
  <2>2. /\ Range(Append(toProcess, c)) = Range(toProcess) \cup {c}
        /\ IsInjective(Append(toProcess, c))
    BY <2>1, AppendToQueue
  <2>3. QED BY <2>1, <2>2
<1> HIDE DEF rest
<1>5. CASE /\ records[c] = NoTime
           /\ armed' = [armed EXCEPT ![c] = rest]
           /\ phase' = "alarmed"
           /\ UNCHANGED <<env, records, up, delay, inbox, toProcess, history>>
  <2>1. armed' = [armed EXCEPT ![c] = <<>>]
    BY <1>1, <1>5
  <2>2. CleanInv'
    BY <1>3, <1>5 DEF CleanInv
  <2>3. PlaceInv'
    BY <1>5, <2>1 DEF IInv, TypeOK, PlaceInv, InChannel, Claimed, history
  <2>4. SpentInv'
    BY <1>5 DEF IInv, SpentInv, InChannel, Claimed, history
  <2>5. AtMostOnce' /\ SingleAlarm' /\ ArmedUnlessMissed'
    BY <1>5, <2>1, EmptySeq
       DEF IInv, TypeOK, AtMostOnce, SingleAlarm, ArmedUnlessMissed, env, history
  <2>6. QED BY <2>2, <2>3, <2>4, <2>5 DEF Places
<1>6. CASE /\ records[c] # NoTime
           /\ c \in Recurring
           /\ NextRun(c, now) # NoTime
           /\ toProcess' = Append(toProcess, c)
           /\ StoreAndArm(c, NextRun(c, now), rest)
           /\ phase' = "alarmed"
           /\ UNCHANGED <<env, up, delay, inbox, history>>
  <2> DEFINE t == NextRun(c, now)
  <2>1. t \in Nat /\ t > now /\ t # NoTime
    BY <1>6, NextRunType DEF IInv, TypeOK
  <2> HIDE DEF t
  <2>2. armed' = [armed EXCEPT ![c] = <<t>>] /\ records' = [records EXCEPT ![c] = t]
    BY <1>1, <1>6 DEF StoreAndArm, t
  <2>3. CleanInv'
    BY <1>3, <1>6 DEF CleanInv
  <2>4. PlaceInv'
    BY <1>2, <1>4, <1>6, <2>1, <2>2 DEF IInv, TypeOK, PlaceInv, InChannel, Claimed, history
  <2>5. SpentInv'
    BY <1>2, <1>3, <1>4, <1>6, <2>2
       DEF IInv, TypeOK, SpentInv, InChannel, Claimed, history, OneShot
  <2>6. AtMostOnce' /\ SingleAlarm'
    BY <1>6, <2>2 DEF IInv, TypeOK, AtMostOnce, SingleAlarm, history
  <2>7. t >= boot
    BY <2>1 DEF IInv, TypeOK, Times
  <2>8. ArmedUnlessMissed'
    BY <1>3, <1>6, <2>2, <2>7 DEF IInv, TypeOK, ArmedUnlessMissed, env
  <2>9. QED BY <2>3, <2>4, <2>5, <2>6, <2>8 DEF Places
<1>7. CASE Dies
  BY <1>7, DiesPlaces
<1>8. CASE /\ records[c] # NoTime
           /\ c \notin Recurring
           /\ toProcess' = Append(toProcess, c)
           /\ records' = [records EXCEPT ![c] = NoTime]
           /\ armed' = [armed EXCEPT ![c] = rest]
           /\ phase' = "alarmed"
           /\ UNCHANGED <<env, up, delay, inbox, history>>
  <2>1. armed' = [armed EXCEPT ![c] = <<>>]
    BY <1>1, <1>8
  <2>2. CleanInv'
    BY <1>3, <1>8 DEF CleanInv
  <2>3. PlaceInv'
    BY <1>2, <1>4, <1>8, <2>1 DEF IInv, TypeOK, PlaceInv, InChannel, Claimed, history
  <2>4. SpentInv'
    BY <1>2, <1>3, <1>4, <1>8 DEF IInv, TypeOK, SpentInv, InChannel, Claimed, history
  <2>5. AtMostOnce' /\ SingleAlarm' /\ ArmedUnlessMissed'
    BY <1>8, <2>1, EmptySeq
       DEF IInv, TypeOK, AtMostOnce, SingleAlarm, ArmedUnlessMissed, env, history
  <2>6. QED BY <2>2, <2>3, <2>4, <2>5 DEF Places
<1>9. QED BY <1>5, <1>6, <1>7, <1>8 DEF AlarmTick, Forgotten, TakeRecord, rest

LEMMA CmdPlaces == IInv /\ CmdTick => Places'
<1> SUFFICES ASSUME IInv, CmdTick PROVE Places'
  OBVIOUS
<1> DEFINE c == Head(inbox)
           waits == delay[c] # NoTime /\ delay[c] >= now
<1>1. inbox \in Seq(Cmds) /\ inbox # <<>> /\ IsInjective(inbox)
  BY DEF CmdTick, IInv, TypeOK, PlaceInv
<1>2. /\ c \in Cmds /\ c \in Range(inbox)
      /\ c \notin Range(Tail(inbox)) /\ IsInjective(Tail(inbox))
      /\ \A x \in Cmds : x \in Range(Tail(inbox)) => x \in Range(inbox)
  BY <1>1, TakeFromQueue
<1> HIDE DEF c
<1>3. /\ records[c] = NoTime /\ armed[c] = <<>> /\ ~Claimed(c)
      /\ c \in sent /\ c \notin removed /\ (c \in OneShot => ran[c] = <<>>) /\ up
  BY <1>2 DEF CmdTick, IInv, PlaceInv, SpentInv, InChannel
<1>4. ASSUME NEW t \in Nat, t >= now, StoreAndArm(c, t, armed[c]),
             inbox' = Tail(inbox), phase' = "commanded",
             UNCHANGED <<env, up, delay, toProcess, history>>
      PROVE  Places'
  <2>1. records' = [records EXCEPT ![c] = t] /\ armed' = [armed EXCEPT ![c] = <<t>>]
    BY <1>3, <1>4 DEF StoreAndArm
  <2>2. t >= boot /\ t # NoTime
    BY <1>4, SchedulerAssumption DEF IInv, TypeOK, Times
  <2>3. CleanInv'
    BY <1>3, <1>4 DEF CleanInv
  <2>4. PlaceInv'
    BY <1>2, <1>3, <1>4, <2>1 DEF IInv, TypeOK, PlaceInv, InChannel, Claimed, history
  <2>5. SpentInv'
    BY <1>2, <1>3, <1>4, <2>1 DEF IInv, TypeOK, SpentInv, InChannel, Claimed, history
  <2>6. AtMostOnce' /\ SingleAlarm'
    BY <1>4, <2>1 DEF IInv, TypeOK, AtMostOnce, SingleAlarm, history
  <2>7. ArmedUnlessMissed'
    BY <1>3, <1>4, <2>1, <2>2 DEF IInv, TypeOK, ArmedUnlessMissed, env
  <2>8. QED BY <2>3, <2>4, <2>5, <2>6, <2>7 DEF Places
<1>5. CASE waits
  <2>1. delay[c] \in Nat
    BY <1>2, <1>5 DEF IInv, TypeOK, Instants
  <2>2. QED BY <1>4, <1>5, <2>1 DEF CmdTick, c
<1>6. CASE ~waits /\ c \in Recurring /\ NextRun(c, now) # NoTime /\ ~Dies
  <2>1. NextRun(c, now) \in Nat /\ NextRun(c, now) >= now
    BY <1>6, NextRunType DEF IInv, TypeOK, Times
  <2>2. QED BY <1>4, <1>6, <2>1 DEF CmdTick, c
<1>7. CASE Dies
  BY <1>7, DiesPlaces
<1>8. CASE ~waits /\ c \notin Recurring
  <2>1. /\ toProcess' = Append(toProcess, c)
        /\ inbox' = Tail(inbox)
        /\ phase' = "commanded"
        /\ UNCHANGED <<env, records, up, delay, armed, history>>
    BY <1>8 DEF CmdTick, c
  <2>2. Range(toProcess') = Range(toProcess) \cup {c} /\ IsInjective(toProcess')
    <3>1. toProcess \in Seq(Cmds) /\ IsInjective(toProcess) /\ c \notin Range(toProcess)
      BY <1>3 DEF IInv, TypeOK, PlaceInv, Claimed
    <3>2. QED BY <1>2, <2>1, <3>1, AppendToQueue
  <2>3. CleanInv'
    BY <1>3, <2>1 DEF CleanInv
  <2>4. PlaceInv'
    BY <1>2, <1>3, <1>8, <2>1, <2>2 DEF IInv, PlaceInv, InChannel, Claimed, history
  <2>5. SpentInv'
    BY <1>2, <1>3, <2>1, <2>2 DEF IInv, SpentInv, InChannel, Claimed, history
  <2>6. AtMostOnce' /\ SingleAlarm' /\ ArmedUnlessMissed'
    BY <2>1 DEF IInv, AtMostOnce, SingleAlarm, ArmedUnlessMissed, env, history
  <2>7. QED BY <2>3, <2>4, <2>5, <2>6 DEF Places
<1>9. QED BY <1>5, <1>6, <1>7, <1>8 DEF CmdTick, c

LEMMA RunPlaces == IInv /\ RunCommand => Places'
<1> SUFFICES ASSUME IInv, RunCommand PROVE Places'
  OBVIOUS
<1> DEFINE c == Head(toProcess)
<1>1. toProcess \in Seq(Cmds) /\ toProcess # <<>> /\ IsInjective(toProcess)
  BY DEF RunCommand, IInv, TypeOK, PlaceInv
<1>2. /\ c \in Cmds /\ c \in Range(toProcess)
      /\ c \notin Range(toProcess') /\ IsInjective(toProcess')
      /\ \A x \in Cmds : x \in Range(toProcess') => x \in Range(toProcess)
  BY <1>1, TakeFromQueue DEF RunCommand
<1> HIDE DEF c
<1>3. /\ c \in sent /\ c \notin removed /\ ~InChannel(c)
      /\ c \in OneShot => ran[c] = <<>>
      /\ c \notin Recurring => records[c] = NoTime /\ armed[c] = <<>>
  BY <1>2 DEF IInv, PlaceInv, SpentInv, Claimed
<1>4. /\ up /\ phase # "idle"
      /\ ran' = [ran EXCEPT ![c] = Append(ran[c], now)]
      /\ UNCHANGED <<env, records, up, phase, armed, sent, removed>>
  BY DEF RunCommand, c
<1>5. Append(ran[c], now) # <<>> /\ (c \in OneShot => Len(Append(ran[c], now)) = 1)
  <2>1. ran[c] \in Seq(Times) /\ now \in Times
    BY <1>2 DEF IInv, TypeOK
  <2>2. /\ Append(ran[c], now) # <<>>
        /\ Len(Append(ran[c], now)) = Len(ran[c]) + 1
    BY <2>1, AppendProperties
  <2>3. QED BY <1>3, <2>2, EmptySeq
<1>6. \/ inbox' = inbox
      \/ /\ c \in Polls
         /\ Range(inbox') = Range(inbox) \cup {c} /\ IsInjective(inbox')
  <2>1. inbox \in Seq(Cmds) /\ IsInjective(inbox) /\ c \notin Range(inbox)
    BY <1>3 DEF IInv, TypeOK, PlaceInv, InChannel
  <2>2. Range(Append(inbox, c)) = Range(inbox) \cup {c} /\ IsInjective(Append(inbox, c))
    BY <1>2, <2>1, AppendToQueue
  <2>3. QED BY <2>2 DEF RunCommand, c
<1>7. c \in Polls => c \notin Recurring /\ c \notin OneShot
  BY SchedulerAssumption DEF OneShot
<1>8. CleanInv'
  BY <1>4 DEF CleanInv
<1>9. PlaceInv'
  BY <1>2, <1>3, <1>4, <1>6, <1>7 DEF IInv, TypeOK, PlaceInv, InChannel, Claimed
<1>10. SpentInv'
  BY <1>2, <1>3, <1>4, <1>6, <1>7 DEF IInv, TypeOK, SpentInv, InChannel, Claimed, OneShot
<1>11. AtMostOnce'
  BY <1>2, <1>4, <1>5 DEF IInv, TypeOK, AtMostOnce
<1>12. SingleAlarm' /\ ArmedUnlessMissed'
  BY <1>4 DEF IInv, SingleAlarm, ArmedUnlessMissed, env
<1>13. QED BY <1>8, <1>9, <1>10, <1>11, <1>12 DEF Places

LEMMA RestartPlaces == IInv /\ Restart => Places'
<1> SUFFICES ASSUME IInv, Restart PROVE Places'
  OBVIOUS
<1>1. /\ Range(inbox) = {} /\ Range(toProcess) = {}
      /\ toProcess = <<>> /\ phase = "idle"
  BY EmptyQueue DEF Restart, Restored, IInv, CleanInv
<1>2. \A c \in Cmds :
         armed'[c] = IF records[c] # NoTime /\ records[c] >= now THEN <<records[c]>> ELSE <<>>
  BY DEF Restart, Restored
<1>3. CleanInv'
  BY <1>1 DEF Restart, Restored, CleanInv
<1>4. PlaceInv'
  BY <1>1, <1>2 DEF Restart, Restored, IInv, PlaceInv, InChannel, Claimed, history
<1>5. SpentInv'
  BY <1>1 DEF Restart, Restored, IInv, SpentInv, InChannel, Claimed, history
<1>6. AtMostOnce' /\ SingleAlarm' /\ ArmedUnlessMissed'
  BY <1>2, EmptySeq DEF Restart, Restored, IInv, AtMostOnce, SingleAlarm, ArmedUnlessMissed, history
<1>7. QED BY <1>3, <1>4, <1>5, <1>6 DEF Places

LEMMA PlacesStep == IInv /\ [Next]_vars => IInv'
<1> SUFFICES ASSUME IInv, [Next]_vars PROVE Places'
  BY TypeStep DEF IInv, Places
<1>1. ASSUME NEW c \in Cmds, NEW d \in 0..(MaxTime + PollInterval) \cup {NoTime},
             Receive(c, d)
      PROVE  Places'
  BY <1>1, ReceivePlaces
<1>2. ASSUME NEW c \in Cmds, RemoveSchedule(c) PROVE Places'
  BY <1>2, RemovePlaces
<1>3. ASSUME NEW c \in Cmds, NEW i \in DOMAIN armed[c], AlarmTick(c, i) PROVE Places'
  BY <1>3, AlarmPlaces
<1>4. CASE CmdTick
  BY <1>4, CmdPlaces
<1>5. CASE RunCommand
  BY <1>5, RunPlaces
<1>6. CASE EndCycle
  BY <1>6 DEF EndCycle, IInv, Places, CleanInv, PlaceInv, SpentInv, AtMostOnce,
              SingleAlarm, ArmedUnlessMissed, InChannel, Claimed, env, history
<1>7. CASE Tick
  BY <1>7 DEF Tick, IInv, Places, CleanInv, PlaceInv, SpentInv, AtMostOnce,
              SingleAlarm, ArmedUnlessMissed, InChannel, Claimed, engine, history
<1>8. CASE Crash
  BY <1>8, DiesPlaces DEF Crash
<1>9. CASE Restart
  BY <1>9, RestartPlaces
<1>10. CASE UNCHANGED vars
  BY <1>10 DEF vars, env, engine, history, IInv, Places, CleanInv, PlaceInv, SpentInv,
               AtMostOnce, SingleAlarm, ArmedUnlessMissed, InChannel, Claimed
<1>11. QED
  BY <1>1, <1>2, <1>3, <1>4, <1>5, <1>6, <1>7, <1>8, <1>9, <1>10 DEF Next, EngineStep

LEMMA InitIInv == Init => IInv
<1>1. Init => TypeOK
  BY SchedulerAssumption, EmptySeq DEF Init, TypeOK, Times, Instants
<1>2. Range(<<>>) = {} /\ IsInjective(<<>>) /\ Len(<<>>) = 0
  BY EmptyQueue, EmptySeq
<1>3. Init => CleanInv /\ PlaceInv /\ SpentInv
  BY <1>2 DEF Init, CleanInv, PlaceInv, SpentInv, InChannel, Claimed
<1>4. Init => AtMostOnce /\ SingleAlarm /\ ArmedUnlessMissed
  BY <1>2 DEF Init, AtMostOnce, SingleAlarm, ArmedUnlessMissed, OneShot
<1>5. QED BY <1>1, <1>3, <1>4 DEF IInv

(* The inductive invariant holds in every reachable state.                 *)
THEOREM Invariance == Spec => []IInv
BY InitIInv, PlacesStep, PTL DEF Spec

(* A delayed command runs at most once, across any crashes and restarts.   *)
THEOREM NoSecondRun == Spec => []AtMostOnce
BY Invariance, PTL DEF IInv

(* A command never has two alarms outstanding.                             *)
THEOREM OneAlarmEach == Spec => []SingleAlarm
BY Invariance, PTL DEF IInv

(* The store and the alarms agree.                                         *)
THEOREM StoreMatchesAlarms == Spec => []ArmedUnlessMissed
BY Invariance, PTL DEF IInv

(* A removed command never starts again: its outstanding alarm finds no    *)
(* record, and it has left the channel and s_to_process.                   *)
THEOREM RemovalIsFinal == Spec => RemovedStaysSilent
<1>1. IInv /\ [Next]_vars => [\A c \in removed : ran'[c] = ran[c]]_vars
  <2> SUFFICES ASSUME IInv, [Next]_vars, NEW c \in removed PROVE ran'[c] = ran[c]
    BY DEF RemovedStaysSilent
  <2>1. CASE RunCommand
    <3>1. Head(toProcess) \in Range(toProcess)
      BY <2>1, TakeFromQueue DEF RunCommand, IInv, TypeOK
    <3>2. c \in Cmds /\ c # Head(toProcess)
      BY <3>1 DEF IInv, TypeOK, SpentInv, Claimed
    <3>3. QED BY <2>1, <3>2 DEF RunCommand, IInv, TypeOK
  <2>2. CASE ~RunCommand
    BY <2>2 DEF Next, EngineStep, Receive, RemoveSchedule, AlarmTick, Forgotten, TakeRecord, CmdTick, EndCycle, Tick,
                Crash, Restart, Dies, vars, history
  <2>3. QED BY <2>1, <2>2
<1>2. QED BY <1>1, Invariance, PTL DEF Spec, RemovedStaysSilent

(* A command leaves the channel, the store and s_to_process only by being  *)
(* removed, by running, or with a crash that finds no record of it.        *)
THEOREM NothingIsDropped == Spec => NothingVanishes
<1> DEFINE Excused(c) == \/ c \in removed'
                         \/ c \notin Recurring /\ ran'[c] # ran[c]
                         \/ ~up' /\ (~Durable \/ records[c] = NoTime)
<1>1. ASSUME IInv, [Next]_vars, NEW c \in Cmds, Held(c), ~Held(c)' PROVE Excused(c)
  <2>1. ASSUME Dies PROVE Excused(c)
    BY <1>1, <2>1 DEF Dies, Held, IInv, TypeOK
  <2>2. ASSUME NEW x \in Cmds, NEW d, Receive(x, d) PROVE Excused(c)
    <3>1. Range(inbox) \subseteq Range(inbox')
      BY <2>2, <1>1, AppendToQueue DEF Receive, IInv, TypeOK
    <3>2. QED BY <1>1, <2>2, <3>1 DEF Receive, Held
  <2>3. ASSUME NEW x \in Cmds, RemoveSchedule(x) PROVE Excused(c)
    BY <1>1, <2>3 DEF RemoveSchedule, Held, engine, IInv, TypeOK
  <2>4. ASSUME NEW x \in Cmds, NEW i \in DOMAIN armed[x], AlarmTick(x, i), ~Dies
        PROVE  Excused(c)
    <3>1. toProcess' = Append(toProcess, x)
          => Range(toProcess') = Range(toProcess) \cup {x}
      BY <1>1, AppendToQueue DEF IInv, TypeOK
    <3>2. NextRun(x, now) # NoTime /\ StoreAndArm(x, NextRun(x, now), RemoveAt(armed[x], i))
          => \A y \in Cmds : records[y] # NoTime => records'[y] # NoTime
      BY <1>1 DEF StoreAndArm, IInv, TypeOK
    <3>3. QED BY <1>1, <2>4, <3>1, <3>2 DEF AlarmTick, Forgotten, TakeRecord, Held, IInv, TypeOK
  <2>5. CASE CmdTick /\ ~Dies
    <3> DEFINE x == Head(inbox)
    <3>1. x \in Cmds /\ Range(inbox) \subseteq Range(Tail(inbox)) \cup {x}
      BY <1>1, <2>5, TakeFromQueue DEF CmdTick, IInv, TypeOK
    <3>2. toProcess' = Append(toProcess, x)
          => Range(toProcess') = Range(toProcess) \cup {x}
      BY <1>1, <3>1, AppendToQueue DEF IInv, TypeOK
    <3>3. ASSUME NEW t, t # NoTime, StoreAndArm(x, t, armed[x])
          PROVE  records'[x] # NoTime /\ \A y \in Cmds : records[y] # NoTime => records'[y] # NoTime
      BY <1>1, <3>1, <3>3 DEF StoreAndArm, IInv, TypeOK
    <3> HIDE DEF x
    <3>4. /\ inbox' = Tail(inbox)
          /\ \/ /\ toProcess' = Append(toProcess, x) /\ records' = records
             \/ /\ toProcess' = toProcess
                /\ \E t : t # NoTime /\ StoreAndArm(x, t, armed[x])
      BY <2>5 DEF CmdTick, x
    <3>5. QED BY <1>1, <3>1, <3>2, <3>3, <3>4 DEF Held
  <2>6. CASE RunCommand
    <3> DEFINE x == Head(toProcess)
    <3>1. x \in Cmds /\ Range(toProcess) \subseteq Range(toProcess') \cup {x}
      BY <1>1, <2>6, TakeFromQueue DEF RunCommand, IInv, TypeOK
    <3>2. Range(inbox) \subseteq Range(inbox')
      <4>1. Range(Append(inbox, x)) = Range(inbox) \cup {x}
        BY <1>1, <3>1, AppendToQueue DEF IInv, TypeOK
      <4>2. QED BY <2>6, <4>1 DEF RunCommand
    <3>3. ran'[x] # ran[x]
      <4>1. ran[x] \in Seq(Times) /\ now \in Times
        BY <1>1, <3>1 DEF IInv, TypeOK
      <4>2. Len(Append(ran[x], now)) = Len(ran[x]) + 1 /\ Len(ran[x]) \in Nat
        BY <4>1, AppendProperties, LenProperties
      <4>3. ran'[x] = Append(ran[x], now)
        BY <1>1, <2>6, <3>1 DEF RunCommand, IInv, TypeOK
      <4>4. QED BY <4>2, <4>3
    <3>4. x \in Recurring => records[x] # NoTime
      <4>1. x \in Range(toProcess)
        BY <1>1, <2>6, TakeFromQueue DEF RunCommand, IInv, TypeOK
      <4>2. QED BY <1>1, <3>1, <4>1 DEF IInv, PlaceInv, Claimed
    <3>5. QED BY <1>1, <2>6, <3>1, <3>2, <3>3, <3>4 DEF RunCommand, Held
  <2>7. CASE EndCycle \/ Tick \/ Restart \/ UNCHANGED vars
    BY <1>1, <2>7 DEF EndCycle, Tick, Restart, Held, vars, env, engine, history
  <2>8. QED BY <1>1, <2>1, <2>2, <2>3, <2>4, <2>5, <2>6, <2>7 DEF Next, EngineStep, Crash
<1>2. IInv /\ [Next]_vars => [\A c \in Cmds : Held(c) /\ ~Held(c)' =>
                                   \/ c \in removed'
                                   \/ c \notin Recurring /\ ran'[c] # ran[c]
                                   \/ ~up' /\ (~Durable \/ records[c] = NoTime)]_vars
  BY <1>1
<1>3. QED BY <1>2, Invariance, PTL DEF Spec, NothingVanishes
-----------------------------------------------------------------------------

(* ReadyAt of a command depends on its own delay and runs.                 *)
LEMMA ReadyAtSame ==
    ASSUME NEW c \in Cmds, ran'[c] = ran[c], delay'[c] = delay[c]
    PROVE  ReadyAt(c)' = ReadyAt(c)
BY DEF ReadyAt, DueAfter

LEMMA NeverEarlySame ==
    ASSUME NeverEarly, UNCHANGED <<delay, ran>>
    PROVE  NeverEarly'
BY DEF NeverEarly, OnTime, DueAfter

LEMMA DiesTimely == TInv /\ Dies => TimelyInv' /\ NeverEarly'
<1> SUFFICES ASSUME TInv, Dies PROVE TimelyInv' /\ NeverEarly'
  OBVIOUS
<1>1. Range(inbox') = {} /\ Range(toProcess') = {}
  BY EmptyQueue DEF Dies
<1>2. \A c \in Cmds : /\ records'[c] = records[c] \/ records'[c] = NoTime
                      /\ ReadyAt(c)' = ReadyAt(c)
  BY ReadyAtSame DEF Dies, history, TInv, IInv, TypeOK
<1>3. TimelyInv'
  BY <1>1, <1>2 DEF TInv, TimelyInv, InChannel, Claimed
<1>4. NeverEarly'
  BY NeverEarlySame DEF TInv, Dies, history
<1>5. QED BY <1>3, <1>4

LEMMA ReceiveTimely ==
    ASSUME TInv, NEW c \in Cmds, NEW d, Receive(c, d)
    PROVE  TimelyInv' /\ NeverEarly'
<1>1. ran[c] = <<>> /\ records[c] = NoTime /\ ~Claimed(c)
  BY DEF Receive, TInv, IInv, PlaceInv
<1>2. Range(inbox') = Range(inbox) \cup {c}
  BY AppendToQueue DEF Receive, TInv, IInv, TypeOK
<1>3. \A x \in Cmds \ {c} : delay'[x] = delay[x] /\ ReadyAt(x)' = ReadyAt(x)
  BY ReadyAtSame DEF Receive, TInv, IInv, TypeOK
<1>4. TimelyInv'
  BY <1>1, <1>2, <1>3 DEF Receive, TInv, TimelyInv, InChannel, Claimed, env
<1>5. NeverEarly'
  <2> SUFFICES ASSUME NEW x \in Cmds, NEW i \in DOMAIN ran[x] PROVE OnTime(x, i)'
    BY DEF NeverEarly, Receive
  <2>1. x # c /\ ran' = ran
    BY <1>1 DEF Receive
  <2>2. OnTime(x, i)
    BY DEF TInv, NeverEarly
  <2>3. QED BY <1>3, <2>1, <2>2 DEF OnTime, DueAfter
<1>6. QED BY <1>4, <1>5

LEMMA RemoveTimely ==
    ASSUME TInv, NEW c \in Cmds, RemoveSchedule(c)
    PROVE  TimelyInv' /\ NeverEarly'
<1>1. Range(toProcess) = {}
  BY EmptyQueue DEF RemoveSchedule, TInv, IInv, CleanInv
<1>2. /\ UNCHANGED <<delay, ran, inbox, toProcess, now>>
      /\ \A x \in Cmds : /\ records'[x] = records[x] \/ records'[x] = NoTime
                         /\ ReadyAt(x)' = ReadyAt(x)
  BY ReadyAtSame DEF RemoveSchedule, engine, env, TInv, IInv, TypeOK
<1>3. TimelyInv'
  BY <1>1, <1>2 DEF TInv, TimelyInv, InChannel, Claimed
<1>4. NeverEarly'
  BY <1>2, NeverEarlySame DEF TInv
<1>5. QED BY <1>3, <1>4

(* An alarm that fires is the one of the record, if there is a record.     *)
LEMMA AlarmIsDue ==
    ASSUME IInv, NEW c \in Cmds, NEW i \in DOMAIN armed[c], AlarmTick(c, i)
    PROVE  /\ armed[c] # <<>>
           /\ toProcess = <<>>
           /\ records[c] # NoTime => records[c] <= now
<1>1. armed[c] # <<>> /\ armed[c][1] <= now /\ toProcess = <<>> /\ up
  <2>1. i = 1 /\ Len(armed[c]) = 1
    BY RemoveOnly DEF IInv, TypeOK, SingleAlarm
  <2>2. QED BY <2>1, EmptySeq DEF AlarmTick, Forgotten, TakeRecord, IInv, CleanInv
<1>2. records[c] # NoTime => records[c] <= now
  BY <1>1 DEF IInv, TypeOK, ArmedUnlessMissed
<1>3. QED BY <1>1, <1>2

LEMMA AlarmTimely ==
    ASSUME TInv, NEW c \in Cmds, NEW i \in DOMAIN armed[c], AlarmTick(c, i)
    PROVE  TimelyInv' /\ NeverEarly'
<1> DEFINE rest == RemoveAt(armed[c], i)
<1>1. armed[c] # <<>> /\ toProcess = <<>> /\ (records[c] # NoTime => records[c] <= now)
  BY AlarmIsDue DEF TInv
<1>2. ~InChannel(c)
  BY <1>1 DEF TInv, IInv, PlaceInv
<1>4. records[c] # NoTime => ReadyAt(c) \in 0..now
  BY <1>1 DEF TInv, IInv, TypeOK, TimelyInv, Times, Instants
<1>5. /\ Range(toProcess) = {}
      /\ toProcess' = Append(toProcess, c) => Range(toProcess') = {c}
  <2>1. toProcess \in Seq(Cmds) /\ Range(toProcess) = {}
    BY <1>1, EmptyQueue DEF TInv, IInv, TypeOK
  <2>2. Range(Append(toProcess, c)) = Range(toProcess) \cup {c}
    BY <2>1, AppendToQueue
  <2>3. QED BY <2>1, <2>2
<1> HIDE DEF rest
<1>6. CASE Dies
  BY <1>6, DiesTimely
<1>7. CASE ~Dies
  <2>1. /\ UNCHANGED <<now, delay, inbox, ran>>
        /\ \/ toProcess' = toProcess
           \/ toProcess' = Append(toProcess, c) /\ records[c] # NoTime
    BY <1>7 DEF AlarmTick, Forgotten, TakeRecord, env, history
  <2>2. \A x \in Cmds : ReadyAt(x)' = ReadyAt(x)
    BY <2>1, ReadyAtSame
  <2>3. \A x \in Cmds \ {c} : records'[x] = records[x]
    BY <1>7 DEF AlarmTick, Forgotten, TakeRecord, StoreAndArm, TInv, IInv, TypeOK
  <2>4. ASSUME c \in Recurring, records[c] # NoTime PROVE TimelyInv'
    <3> DEFINE t == NextRun(c, now)
    <3>1. /\ toProcess' = Append(toProcess, c)
          /\ records' = [records EXCEPT ![c] = t]
          /\ t # NoTime
      BY <1>7, <2>4 DEF AlarmTick, Forgotten, TakeRecord, StoreAndArm
    <3>2. t \in Nat /\ t > now /\ records'[c] = t
      BY <2>4, <3>1, NextRunType DEF TInv, IInv, TypeOK
    <3>3. ReadyAt(c) \in 0..t
      BY <1>4, <2>4, <3>2 DEF TInv, IInv, TypeOK, Times
    <3> HIDE DEF t
    <3>4. NextRun(c, now') = t
      BY <2>1 DEF t
    <3>5. QED BY <1>2, <1>4, <1>5, <2>1, <2>2, <2>3, <2>4, <3>1, <3>2, <3>3, <3>4
              DEF TInv, TimelyInv, InChannel, Claimed
  <2>5. ASSUME ~(c \in Recurring /\ records[c] # NoTime) PROVE TimelyInv'
    <3>1. records'[c] = records[c] \/ records'[c] = NoTime
      BY <1>7, <2>5 DEF AlarmTick, Forgotten, TakeRecord, TInv, IInv, TypeOK
    <3>2. QED BY <1>2, <1>4, <1>5, <2>1, <2>2, <2>3, <2>5, <3>1
              DEF TInv, TimelyInv, InChannel, Claimed
  <2>6. NeverEarly'
    BY <2>1, NeverEarlySame DEF TInv
  <2>7. TimelyInv'
    BY <2>4, <2>5
  <2>8. QED BY <2>6, <2>7
<1>8. QED BY <1>6, <1>7

LEMMA CmdTimely == TInv /\ CmdTick => TimelyInv' /\ NeverEarly'
<1> SUFFICES ASSUME TInv, CmdTick PROVE TimelyInv' /\ NeverEarly'
  OBVIOUS
<1> DEFINE c == Head(inbox)
           waits == delay[c] # NoTime /\ delay[c] >= now
<1>1. /\ c \in Cmds /\ c \in Range(inbox)
      /\ \A x \in Cmds : x \in Range(Tail(inbox)) => x \in Range(inbox)
  BY TakeFromQueue DEF CmdTick, TInv, IInv, TypeOK
<1> HIDE DEF c
<1>2. /\ delay[c] \in Instants /\ now \in Nat /\ ~Claimed(c)
      /\ ran[c] # <<>> => c \in Polls /\ delay[c] # NoTime /\ ReadyAt(c) <= delay[c]
  BY <1>1 DEF TInv, IInv, TypeOK, TimelyInv, PlaceInv, InChannel, Times
<1>3. ReadyAt(c) \in Nat /\ (delay[c] # NoTime => ReadyAt(c) <= delay[c])
      /\ (delay[c] = NoTime => ReadyAt(c) = 0)
  <2>1. CASE ran[c] = <<>>
    BY <1>2, <2>1 DEF ReadyAt, Instants
  <2>2. CASE ran[c] # <<>>
    <3>1. Last(ran[c]) \in Nat
      <4>1. ran[c] \in Seq(Times) /\ Len(ran[c]) \in 1..Len(ran[c])
        BY <1>1, <2>2, EmptySeq DEF TInv, IInv, TypeOK
      <4>2. ran[c][Len(ran[c])] \in Times
        BY <4>1, ElementOfSeq
      <4>3. QED BY <4>2 DEF Last, Times
    <3>2. c \in Polls /\ c \notin Recurring
      BY <1>2, <2>2, SchedulerAssumption
    <3>3. ReadyAt(c) = Last(ran[c]) + PollInterval
      BY <2>2, <3>2 DEF ReadyAt, DueAfter
    <3>4. QED BY <1>2, <2>2, <3>1, <3>3, SchedulerAssumption
  <2>3. QED BY <2>1, <2>2
<1>4. CASE Dies
  BY <1>4, DiesTimely
<1>5. ASSUME ~Dies PROVE TimelyInv' /\ NeverEarly'
  <2>1. UNCHANGED <<now, delay, ran>> /\ inbox' = Tail(inbox)
    BY <1>5 DEF CmdTick, env, history
  <2>2. \A x \in Cmds : ReadyAt(x)' = ReadyAt(x)
    BY <2>1, ReadyAtSame
  <2>3. NeverEarly'
    BY <2>1, NeverEarlySame DEF TInv
  <2>4. \A x \in Cmds \ {c} : records'[x] = records[x]
    BY <1>5 DEF CmdTick, StoreAndArm, TInv, IInv, TypeOK, c
  <2>5. ASSUME NEW t \in Nat, ReadyAt(c) <= t,
               toProcess' = toProcess, records' = [records EXCEPT ![c] = t]
        PROVE  TimelyInv'
    <3>1. records'[c] = t
      BY <1>1, <2>5 DEF TInv, IInv, TypeOK
    <3>2. ReadyAt(c) \in 0..t
      BY <1>3, <2>5
    <3>3. QED BY <1>1, <1>2, <2>1, <2>2, <2>4, <2>5, <3>1, <3>2
              DEF TInv, TimelyInv, InChannel, Claimed
  <2>6. CASE waits
    BY <1>2, <1>3, <1>5, <2>3, <2>5, <2>6 DEF CmdTick, StoreAndArm, Instants, c
  <2>7. CASE ~waits /\ c \in Recurring /\ NextRun(c, now) # NoTime
    <3>1. NextRun(c, now) \in Nat /\ NextRun(c, now) > now
      BY <2>7, NextRunType DEF TInv, IInv, TypeOK
    <3>2. ReadyAt(c) <= NextRun(c, now)
      BY <1>2, <1>3, <2>7, <3>1 DEF Instants
    <3>3. toProcess' = toProcess /\ records' = [records EXCEPT ![c] = NextRun(c, now)]
      BY <2>7 DEF CmdTick, StoreAndArm, c
    <3>4. QED BY <2>3, <2>5, <3>1, <3>2, <3>3
  <2>8. CASE ~waits /\ c \notin Recurring
    <3>1. ReadyAt(c) \in 0..now
      BY <1>2, <1>3, <2>8 DEF Instants
    <3>2. records' = records /\ toProcess' = Append(toProcess, c)
      BY <2>8 DEF CmdTick, c
    <3>3. Range(toProcess') = Range(toProcess) \cup {c}
      BY <1>1, <3>2, AppendToQueue DEF TInv, IInv, TypeOK
    <3>4. TimelyInv'
      BY <1>1, <1>2, <2>1, <2>2, <2>8, <3>1, <3>2, <3>3
         DEF TInv, TimelyInv, InChannel, Claimed
    <3>5. QED BY <2>3, <3>4
  <2>9. QED BY <1>5, <2>6, <2>7, <2>8 DEF CmdTick, c
<1>6. QED BY <1>4, <1>5

LEMMA RunTimely == TInv /\ RunCommand => TimelyInv' /\ NeverEarly'
<1> SUFFICES ASSUME TInv, RunCommand PROVE TimelyInv' /\ NeverEarly'
  OBVIOUS
<1>0. PICK c \in Cmds : c = Head(toProcess)
  BY HeadTailProperties DEF RunCommand, TInv, IInv, TypeOK
<1> PICK n \in Nat : n = Len(ran[c])
  BY LenProperties DEF TInv, IInv, TypeOK
<1>1. /\ c \in Cmds /\ Claimed(c) /\ c \notin Range(toProcess')
      /\ \A x \in Cmds : x \in Range(toProcess') => x \in Range(toProcess)
  BY <1>0, TakeFromQueue DEF RunCommand, TInv, IInv, TypeOK, PlaceInv, Claimed
<1>2. /\ ran' = [ran EXCEPT ![c] = Append(ran[c], now)]
      /\ UNCHANGED <<now, records>>
      /\ \/ UNCHANGED <<delay, inbox>>
         \/ /\ c \in Polls
            /\ delay' = [delay EXCEPT ![c] = now + PollInterval]
            /\ inbox' = Append(inbox, c)
  BY <1>0 DEF RunCommand, env
<1>3. /\ ran[c] \in Seq(Times) /\ now \in Times /\ now \in Nat
      /\ n \in Nat /\ DOMAIN ran[c] = 1..n
  BY <1>1, LenProperties DEF TInv, IInv, TypeOK, Times
<1>4. /\ ran'[c] = Append(ran[c], now) /\ ran'[c] # <<>>
      /\ ran'[c] \in Seq(Times) /\ Len(ran'[c]) = n + 1
      /\ DOMAIN ran'[c] = 1..(n + 1)
      /\ \A i \in 1..n : ran'[c][i] = ran[c][i]
      /\ ran'[c][n + 1] = now
  <2>1. ran'[c] = Append(ran[c], now)
    BY <1>1, <1>2 DEF TInv, IInv, TypeOK
  <2>2. /\ ran'[c] # <<>> /\ ran'[c] \in Seq(Times) /\ Len(ran'[c]) = n + 1
        /\ \A i \in 1..n : ran'[c][i] = ran[c][i]
        /\ ran'[c][n + 1] = now
    BY <1>3, <2>1, AppendProperties
  <2>3. QED BY <2>1, <2>2, LenProperties
<1>5. \A x \in Cmds \ {c} : ran'[x] = ran[x] /\ delay'[x] = delay[x]
  BY <1>2 DEF TInv, IInv, TypeOK
<1>6. \A x \in Cmds \ {c} : ReadyAt(x)' = ReadyAt(x)
  BY <1>5, ReadyAtSame
<1>7. ReadyAt(c) \in 0..now
  BY <1>1 DEF TInv, TimelyInv
<1>8. ReadyAt(c)' = IF c \in Recurring THEN NextRun(c, now) ELSE now + PollInterval
  BY <1>2, <1>4 DEF ReadyAt, DueAfter, Last
<1>9. c \notin Polls => delay'[c] = delay[c]
  BY <1>2
<1>10. TimelyInv'
  <2>1. Range(inbox') = Range(inbox) \/ Range(inbox') = Range(inbox) \cup {c}
    <3>1. Range(Append(inbox, c)) = Range(inbox) \cup {c}
      BY <1>1, AppendToQueue DEF TInv, IInv, TypeOK
    <3>2. QED BY <1>2, <3>1
  <2>2. c \in Range(inbox') =>
           c \in Polls /\ delay'[c] # NoTime /\ ReadyAt(c)' <= delay'[c]
    <3> SUFFICES ASSUME c \in Range(inbox')
                 PROVE  c \in Polls /\ delay'[c] # NoTime /\ ReadyAt(c)' <= delay'[c]
      OBVIOUS
    <3>1. c \notin Range(inbox)
      BY <1>1 DEF TInv, IInv, PlaceInv, InChannel
    <3>2. c \in Polls /\ delay' = [delay EXCEPT ![c] = now + PollInterval]
      BY <1>2, <3>1
    <3>3. delay'[c] = now + PollInterval /\ c \notin Recurring
      BY <1>1, <3>2, SchedulerAssumption DEF TInv, IInv, TypeOK
    <3>4. now + PollInterval \in Nat
      BY <1>3, SchedulerAssumption
    <3>5. QED BY <1>8, <3>2, <3>3, <3>4, SchedulerAssumption
  <2>3. records'[c] # NoTime => ReadyAt(c)' \in 0..records'[c]
    <3>1. CASE c \in Recurring
      <4>1. records[c] = NextRun(c, now) /\ NextRun(c, now) # NoTime
        BY <1>1, <3>1 DEF TInv, TimelyInv
      <4>2. NextRun(c, now) \in Nat
        BY <1>3, <3>1, <4>1, NextRunType
      <4>3. QED BY <1>2, <1>8, <3>1, <4>1, <4>2
    <3>2. CASE c \notin Recurring
      BY <1>1, <1>2, <3>2 DEF TInv, IInv, PlaceInv
    <3>3. QED BY <3>1, <3>2
  <2>4. ASSUME NEW x \in Cmds
        PROVE  /\ InChannel(x)' => \/ ran'[x] = <<>>
                                   \/ /\ x \in Polls /\ delay'[x] # NoTime
                                      /\ ReadyAt(x)' <= delay'[x]
               /\ records'[x] # NoTime => ReadyAt(x)' \in 0..records'[x]
               /\ Claimed(x)' => ReadyAt(x)' \in 0..now'
               /\ Claimed(x)' /\ x \in Recurring => NextRun(x, now') # NoTime
                                                    /\ records'[x] = NextRun(x, now')
    <3>1. CASE x = c
      BY <1>1, <2>2, <2>3, <3>1 DEF InChannel, Claimed
    <3>2. CASE x # c
      BY <1>1, <1>2, <1>5, <1>6, <2>1, <3>2 DEF TInv, TimelyInv, InChannel, Claimed
    <3>3. QED BY <3>1, <3>2
  <2>5. QED BY <2>4 DEF TimelyInv
<1>11. NeverEarly'
  <2>1. ASSUME NEW x \in Cmds \ {c}, NEW i \in DOMAIN ran'[x] PROVE OnTime(x, i)'
    <3>1. OnTime(x, i)
      BY <1>5, <2>1 DEF TInv, NeverEarly
    <3>2. QED BY <1>5, <3>1 DEF OnTime, DueAfter
  <2>2. ASSUME NEW i \in 1..n PROVE OnTime(c, i)'
    <3>1. OnTime(c, i)
      BY <1>1, <1>3, <2>2 DEF TInv, NeverEarly
    <3>2. CASE i = 1
      BY <1>4, <1>9, <3>1, <3>2 DEF OnTime
    <3>3. CASE i # 1
      <4>1. i - 1 \in 1..n
        BY <1>3, <3>3
      <4>2. QED BY <1>4, <3>1, <3>3, <4>1 DEF OnTime, DueAfter
    <3>4. QED BY <3>2, <3>3
  <2>3. OnTime(c, n + 1)'
    <3>1. CASE n = 0
      <4>1. ran[c] = <<>>
        BY <1>3, <3>1, EmptySeq
      <4>2. c \in Polls \/ delay[c] = NoTime \/ delay[c] <= now
        BY <1>3, <1>7, <4>1 DEF ReadyAt
      <4>3. QED BY <1>4, <1>9, <3>1, <4>2 DEF OnTime
    <3>2. CASE n # 0
      <4>1. n \in 1..n /\ n + 1 # 1 /\ (n + 1) - 1 = n
        BY <1>3, <3>2
      <4>2. ran[c] # <<>>
        BY <3>2, EmptySeq
      <4>3. DueAfter(c, ran[c][n]) \in 0..now
        BY <1>7, <4>2 DEF ReadyAt, Last
      <4>4. QED BY <1>4, <4>1, <4>3 DEF OnTime, DueAfter
    <3>3. QED BY <3>1, <3>2
  <2>4. \A i \in 1..(n + 1) : i \in 1..n \/ i = n + 1
    BY <1>3
  <2>5. \A x \in Cmds : \A i \in DOMAIN ran'[x] : OnTime(x, i)'
    BY <1>4, <2>1, <2>2, <2>3, <2>4
  <2>6. QED BY <2>5 DEF NeverEarly
<1>12. QED BY <1>10, <1>11

LEMMA TimelyStep == TInv /\ [Next]_vars => TInv'
<1> SUFFICES ASSUME TInv, [Next]_vars PROVE TimelyInv' /\ NeverEarly'
  BY PlacesStep DEF TInv
<1>1. ASSUME NEW c \in Cmds, NEW d \in 0..(MaxTime + PollInterval) \cup {NoTime},
             Receive(c, d)
      PROVE  TimelyInv' /\ NeverEarly'
  BY <1>1, ReceiveTimely
<1>2. ASSUME NEW c \in Cmds, RemoveSchedule(c) PROVE TimelyInv' /\ NeverEarly'
  BY <1>2, RemoveTimely
<1>3. ASSUME NEW c \in Cmds, NEW i \in DOMAIN armed[c], AlarmTick(c, i)
      PROVE  TimelyInv' /\ NeverEarly'
  BY <1>3, AlarmTimely
<1>4. CASE CmdTick
  BY <1>4, CmdTimely
<1>5. CASE RunCommand
  BY <1>5, RunTimely
<1>6. CASE Tick
  <2>1. Range(toProcess) = {} /\ UNCHANGED <<delay, ran, records, inbox, toProcess>>
    BY <1>6, EmptyQueue DEF Tick, TInv, IInv, CleanInv, engine, history
  <2>2. \A x \in Cmds : ReadyAt(x)' = ReadyAt(x)
    BY <2>1, ReadyAtSame
  <2>3. TimelyInv'
    BY <2>1, <2>2 DEF TInv, TimelyInv, InChannel, Claimed
  <2>4. QED BY <2>1, <2>3, NeverEarlySame DEF TInv
<1>7. CASE Restart \/ EndCycle \/ UNCHANGED vars
  <2>1. UNCHANGED <<now, delay, ran, records, inbox, toProcess>>
    BY <1>7 DEF Restart, EndCycle, vars, env, engine, history
  <2>2. \A x \in Cmds : ReadyAt(x)' = ReadyAt(x)
    BY <2>1, ReadyAtSame
  <2>3. TimelyInv'
    BY <2>1, <2>2 DEF TInv, TimelyInv, InChannel, Claimed
  <2>4. QED BY <2>1, <2>3, NeverEarlySame DEF TInv
<1>8. CASE Crash
  BY <1>8, DiesTimely DEF Crash
<1>9. QED
  BY <1>1, <1>2, <1>3, <1>4, <1>5, <1>6, <1>7, <1>8 DEF Next, EngineStep

LEMMA TimelyInvariance == Spec => []TInv
<1>1. Init => TInv
  <2>1. Init => IInv
    BY InitIInv
  <2>2. Init => NeverEarly
    BY EmptySeq DEF Init, NeverEarly
  <2>3. Init => TimelyInv
    BY EmptyQueue DEF Init, TimelyInv, InChannel, Claimed
  <2>4. QED BY <2>1, <2>2, <2>3 DEF TInv
<1>2. QED BY <1>1, TimelyStep, PTL DEF Spec

(* No command runs before its delay, no recurring command before the cron  *)
(* instant that follows its last run, and no poll before its interval.     *)
THEOREM NoEarlyRun == Spec => []NeverEarly
BY TimelyInvariance, PTL DEF TInv
-----------------------------------------------------------------------------
(* The refinement: every step is a step or a stutter of the promise.       *)

(* A step that keeps the place of every one-shot command is a stutter.     *)
LEMMA SameStage ==
    ASSUME \A c \in OneShot : StageOf(c)' = StageOf(c) /\ delay'[c] = delay[c],
           now' = now
    PROVE  UNCHANGED Promise!vars
BY DEF Promise!vars, DueOf

LEMMA DiesLoses == TInv /\ Dies => Promise!Next
<1> SUFFICES ASSUME TInv, Dies PROVE Promise!Lose
  BY DEF Promise!Next
<1>1. Range(inbox') = {} /\ Range(toProcess') = {}
  BY EmptyQueue DEF Dies
<1>2. ASSUME NEW c \in OneShot
      PROVE  \/ StageOf(c)' = StageOf(c)
             \/ StageOf(c) \in {"held", "claimed"} /\ StageOf(c)' = "lost"
  <2>1. /\ records'[c] = records[c] \/ records'[c] = NoTime
        /\ UNCHANGED <<sent, removed, ran>>
    BY DEF Dies, history, TInv, IInv, TypeOK, OneShot
  <2>2. Claimed(c) \/ InChannel(c) \/ records[c] # NoTime => c \notin removed /\ ran[c] = <<>>
    BY DEF TInv, IInv, SpentInv, OneShot
  <2>3. Claimed(c) => records[c] = NoTime
    BY DEF TInv, IInv, PlaceInv, OneShot
  <2>4. QED BY <1>1, <2>1, <2>2, <2>3 DEF StageOf, InChannel, Claimed
<1>3. UNCHANGED <<now, delay>>
  BY DEF Dies, env
<1>4. QED BY <1>2, <1>3 DEF Promise!Lose, Promise!Stages, StageOf, DueOf

LEMMA PromiseStep == TInv /\ [Next]_vars => [Promise!Next]_(Promise!vars)
<1> SUFFICES ASSUME TInv, [Next]_vars PROVE Promise!Next \/ UNCHANGED Promise!vars
  OBVIOUS
<1> USE DEF TInv, IInv, TypeOK
<1>1. ASSUME NEW c \in Cmds, NEW d \in 0..(MaxTime + PollInterval) \cup {NoTime},
             Receive(c, d)
      PROVE  Promise!Next \/ UNCHANGED Promise!vars
  <2>1. Range(inbox') = Range(inbox) \cup {c}
    BY <1>1, AppendToQueue DEF Receive
  <2>2. /\ delay' = [delay EXCEPT ![c] = d] /\ sent' = sent \cup {c}
        /\ UNCHANGED <<now, records, removed, ran, toProcess>>
    BY <1>1 DEF Receive, env
  <2>3. \A x \in OneShot \ {c} : StageOf(x)' = StageOf(x) /\ delay'[x] = delay[x]
    BY <2>1, <2>2 DEF StageOf, OneShot
  <2>4. CASE c \in OneShot
    <3>1. ran[c] = <<>> /\ ~Claimed(c) /\ StageOf(c) = "new"
      BY <1>1 DEF Receive, PlaceInv, StageOf
    <3>2. StageOf(c)' = "held"
      BY <2>1, <2>2, <3>1 DEF StageOf, Claimed
    <3>3. DueOf(c)' = IF d = NoTime THEN 0 ELSE d
      BY <2>2 DEF DueOf
    <3>4. Promise!Accept(c, DueOf(c)')
      BY <2>2, <2>3, <2>4, <3>1, <3>2 DEF Promise!Accept, DueOf
    <3>5. DueOf(c)' \in 0..(MaxTime + PollInterval)
      BY <3>3, SchedulerAssumption
    <3>6. QED BY <2>4, <3>4, <3>5 DEF Promise!Next
  <2>5. CASE c \notin OneShot
    BY <2>2, <2>3, <2>5, SameStage
  <2>6. QED BY <2>4, <2>5
<1>2. ASSUME NEW c \in Cmds, RemoveSchedule(c)
      PROVE  Promise!Next \/ UNCHANGED Promise!vars
  <2>1. /\ records' = [records EXCEPT ![c] = NoTime] /\ removed' = removed \cup {c}
        /\ UNCHANGED <<now, delay, inbox, toProcess, sent, ran>>
    BY <1>2 DEF RemoveSchedule, env, engine
  <2>2. \A x \in OneShot \ {c} : StageOf(x)' = StageOf(x)
    BY <2>1 DEF StageOf, OneShot
  <2>3. CASE c \in OneShot
    <3>1. ran[c] = <<>> /\ ~Claimed(c) /\ ~InChannel(c) /\ c \in sent
      BY <1>2, <2>3 DEF RemoveSchedule, PlaceInv, SpentInv, OneShot
    <3>2. StageOf(c) = "held" /\ StageOf(c)' = "cancelled"
      BY <1>2, <2>1, <3>1 DEF RemoveSchedule, StageOf, InChannel, Claimed
    <3>3. Promise!Cancel(c)
      BY <2>1, <2>2, <2>3, <3>2 DEF Promise!Cancel, DueOf
    <3>4. QED BY <2>3, <3>3 DEF Promise!Next
  <2>4. CASE c \notin OneShot
    BY <2>1, <2>2, <2>4, SameStage
  <2>5. QED BY <2>3, <2>4
<1>3. ASSUME NEW c \in Cmds, NEW i \in DOMAIN armed[c], AlarmTick(c, i)
      PROVE  Promise!Next \/ UNCHANGED Promise!vars
  <2>1. CASE Dies
    BY <2>1, DiesLoses
  <2>2. CASE ~Dies
    <3>1. /\ UNCHANGED <<now, delay, inbox, sent, removed, ran>>
          /\ \A x \in Cmds \ {c} : records'[x] = records[x]
          /\ toProcess' = toProcess \/ toProcess' = Append(toProcess, c)
      BY <1>3, <2>2 DEF AlarmTick, Forgotten, TakeRecord, StoreAndArm, env, history
    <3>2. Range(toProcess') = Range(toProcess) \/ Range(toProcess') = Range(toProcess) \cup {c}
      <4>1. Range(Append(toProcess, c)) = Range(toProcess) \cup {c}
        BY AppendToQueue
      <4>2. QED BY <3>1, <4>1
    <3>3. \A x \in OneShot \ {c} : StageOf(x)' = StageOf(x)
      BY <3>1, <3>2 DEF StageOf, OneShot
    <3>4. CASE c \in OneShot /\ records[c] # NoTime
      <4>1. ran[c] = <<>> /\ ~Claimed(c) /\ c \in sent
        BY <3>4 DEF PlaceInv, SpentInv, OneShot
      <4>2. toProcess' = Append(toProcess, c)
        BY <1>3, <2>2, <3>4 DEF AlarmTick, Forgotten, TakeRecord, OneShot
      <4>3. Range(toProcess') = Range(toProcess) \cup {c}
        BY <4>2, AppendToQueue
      <4>4. StageOf(c) = "held" /\ StageOf(c)' = "claimed"
        BY <3>1, <3>4, <4>1, <4>3 DEF StageOf, Claimed
      <4>5. DueOf(c) <= now
        <5>1. records[c] <= now
          BY <1>3, <3>4, AlarmIsDue
        <5>2. DueOf(c) = ReadyAt(c) /\ ReadyAt(c) \in 0..records[c]
          BY <3>4, <4>1 DEF ReadyAt, DueOf, TimelyInv, OneShot
        <5>3. QED BY <3>4, <5>1, <5>2 DEF Instants, Times
      <4>6. Promise!Claim(c)
        BY <3>1, <3>3, <3>4, <4>4, <4>5 DEF Promise!Claim, DueOf
      <4>7. QED BY <3>4, <4>6 DEF Promise!Next
    <3>5. CASE c \in OneShot /\ records[c] = NoTime
      <4>1. records' = records /\ toProcess' = toProcess
        BY <1>3, <2>2, <3>5 DEF AlarmTick, Forgotten, TakeRecord
      <4>2. QED BY <3>1, <3>3, <4>1, SameStage DEF StageOf
    <3>6. CASE c \notin OneShot
      BY <3>1, <3>3, <3>6, SameStage
    <3>7. QED BY <3>4, <3>5, <3>6
  <2>3. QED BY <2>1, <2>2
<1>4. CASE CmdTick
  <2>1. PICK c \in Cmds : c = Head(inbox)
    BY <1>4, HeadTailProperties DEF CmdTick
  <2>2. /\ InChannel(c)
        /\ Range(Tail(inbox)) \subseteq Range(inbox)
        /\ Range(inbox) \subseteq Range(Tail(inbox)) \cup {c}
    BY <1>4, <2>1, TakeFromQueue DEF CmdTick, InChannel
  <2>3. CASE Dies
    BY <2>3, DiesLoses
  <2>4. CASE ~Dies
    <3>1. /\ UNCHANGED <<now, delay, sent, removed, ran>> /\ inbox' = Tail(inbox)
          /\ \A x \in Cmds \ {c} : records'[x] = records[x]
      BY <1>4, <2>1, <2>4 DEF CmdTick, StoreAndArm, env, history
    <3>2. c \in OneShot => ran[c] = <<>> /\ ~Claimed(c) /\ c \in sent
      BY <2>2 DEF PlaceInv, SpentInv
    <3>3. \/ toProcess' = toProcess /\ records'[c] # NoTime
          \/ /\ toProcess' = Append(toProcess, c)
             /\ ~(delay[c] # NoTime /\ delay[c] >= now)
      <4>1. delay[c] # NoTime /\ delay[c] >= now
            => toProcess' = toProcess /\ records'[c] # NoTime
        BY <1>4, <2>1, <2>4 DEF CmdTick, StoreAndArm
      <4>2. QED BY <1>4, <2>1, <2>4, <4>1 DEF CmdTick, StoreAndArm
    <3>4. Range(toProcess') = Range(toProcess) \/ Range(toProcess') = Range(toProcess) \cup {c}
      <4>1. Range(Append(toProcess, c)) = Range(toProcess) \cup {c}
        BY AppendToQueue
      <4>2. QED BY <3>3, <4>1
    <3>5. \A x \in OneShot \ {c} : StageOf(x)' = StageOf(x)
      BY <2>2, <3>1, <3>4 DEF StageOf, OneShot
    <3>6. CASE c \in OneShot /\ toProcess' = toProcess /\ records'[c] # NoTime
      <4>1. StageOf(c)' = StageOf(c)
        BY <2>2, <3>1, <3>2, <3>6 DEF StageOf, InChannel, Claimed
      <4>2. QED BY <3>1, <3>5, <4>1, SameStage
    <3>7. CASE /\ c \in OneShot /\ toProcess' = Append(toProcess, c)
               /\ ~(delay[c] # NoTime /\ delay[c] >= now)
      <4>1. Range(toProcess') = Range(toProcess) \cup {c}
        BY <3>7, AppendToQueue
      <4>2. StageOf(c) = "held" /\ StageOf(c)' = "claimed"
        BY <2>2, <3>1, <3>2, <3>7, <4>1 DEF StageOf, InChannel, Claimed
      <4>3. DueOf(c) <= now
        BY <3>7 DEF DueOf, Instants, Times
      <4>4. Promise!Claim(c)
        BY <3>1, <3>5, <3>7, <4>2, <4>3 DEF Promise!Claim, DueOf
      <4>5. QED BY <3>7, <4>4 DEF Promise!Next
    <3>8. CASE c \notin OneShot
      BY <3>1, <3>5, <3>8, SameStage
    <3>9. QED BY <3>3, <3>6, <3>7, <3>8
  <2>5. QED BY <2>3, <2>4
<1>5. CASE RunCommand
  <2>1. PICK c \in Cmds : c = Head(toProcess)
    BY <1>5, HeadTailProperties DEF RunCommand
  <2>2. /\ Claimed(c) /\ c \notin Range(toProcess')
        /\ Range(toProcess') \subseteq Range(toProcess)
        /\ Range(toProcess) \subseteq Range(toProcess') \cup {c}
    BY <1>5, <2>1, TakeFromQueue DEF RunCommand, Claimed, PlaceInv
  <2>3. /\ UNCHANGED <<now, records, sent, removed>>
        /\ ran' = [ran EXCEPT ![c] = Append(ran[c], now)]
        /\ \/ UNCHANGED <<delay, inbox>>
           \/ /\ c \in Polls
              /\ delay' = [delay EXCEPT ![c] = now + PollInterval]
              /\ inbox' = Append(inbox, c)
    BY <1>5, <2>1 DEF RunCommand, env
  <2>4. Range(inbox') = Range(inbox) \/ Range(inbox') = Range(inbox) \cup {c}
    <3>1. Range(Append(inbox, c)) = Range(inbox) \cup {c}
      BY AppendToQueue
    <3>2. QED BY <2>3, <3>1
  <2>5. \A x \in OneShot \ {c} : StageOf(x)' = StageOf(x) /\ delay'[x] = delay[x]
    BY <2>2, <2>3, <2>4 DEF StageOf, OneShot
  <2>6. CASE c \in OneShot
    <3>1. delay' = delay
      BY <2>3, <2>6 DEF OneShot
    <3>2. ran'[c] # <<>> /\ c \in sent
      <4>1. ran[c] \in Seq(Times) /\ now \in Times
        OBVIOUS
      <4>2. ran'[c] = Append(ran[c], now)
        BY <2>3
      <4>3. Append(ran[c], now) # <<>>
        BY <4>1, AppendToQueue
      <4>4. QED BY <2>2, <4>2, <4>3 DEF PlaceInv
    <3>3. StageOf(c) = "claimed" /\ StageOf(c)' = "done"
      BY <2>2, <2>3, <3>2 DEF StageOf, Claimed
    <3>4. Promise!Run(c)
      BY <2>3, <2>5, <2>6, <3>1, <3>3 DEF Promise!Run, DueOf
    <3>5. QED BY <2>6, <3>4 DEF Promise!Next
  <2>7. CASE c \notin OneShot
    BY <2>3, <2>5, <2>7, SameStage
  <2>8. QED BY <2>6, <2>7
<1>6. CASE Tick
  <2>1. now' > now /\ UNCHANGED <<records, delay, inbox, toProcess, sent, removed, ran>>
    BY <1>6 DEF Tick, engine, history, Times
  <2>2. Promise!Advance
    BY <2>1 DEF Promise!Advance, StageOf, DueOf
  <2>3. QED BY <2>2 DEF Promise!Next
<1>7. CASE Restart \/ EndCycle \/ UNCHANGED vars
  <2>1. UNCHANGED <<now, records, delay, inbox, toProcess, sent, removed, ran>>
    BY <1>7 DEF Restart, EndCycle, vars, env, engine, history
  <2>2. QED BY <2>1, SameStage DEF StageOf
<1>8. CASE Crash
  BY <1>8, DiesLoses DEF Crash
<1>9. QED
  BY <1>1, <1>2, <1>3, <1>4, <1>5, <1>6, <1>7, <1>8 DEF Next, EngineStep

(* The scheduler implements the promise: see SchedulerRefinement.          *)
THEOREM Refinement == Spec => KeepsPromise
<1>1. Init => Promise!Init
  BY EmptyQueue DEF Init, Promise!Init, StageOf, DueOf, OneShot
<1>2. QED BY <1>1, TimelyInvariance, PromiseStep, PTL DEF Spec, KeepsPromise, Promise!Spec
=============================================================================
