----------------------------- MODULE AgentCommand -----------------------------
(***************************************************************************)
(* The agent commands of csp_bot: AgentCommand and SessionStore in         *)
(* csp_bot/commands/agent.py, with the code of csp_bot/bot.py that routes  *)
(* replies to a session (_check_agent_session_reply) and remembers which   *)
(* message a session answered (_track_agent_session_response).             *)
(*                                                                         *)
(* preexecute, execute and the tracking all run on the engine thread, so   *)
(* each is one step; the agents run on a thread pool, several at a time,   *)
(* each with the history its session had when it was submitted.  When a    *)
(* command is polled is decided by the scheduler (module Scheduler): here  *)
(* a poll may come at any time.                                            *)
(*                                                                         *)
(* As in Scheduler, definitions marked "Faulty" are broken versions of the *)
(* definition that follows them.                                           *)
(***************************************************************************)
EXTENDS Integers, FiniteSets

CONSTANTS
    Messages,       \* ids of the messages users may send, on one backend
    Commands,       \* names of agent commands; they share one SessionStore
    People,         \* a user together with the channel of the command
    Texts,          \* how the arguments of messages may read, see Incoming
    NoMessage, NoKey, NoSession, NoJob, NoChain, NoCommand,  \* None, per type
    MaxDeliveries,  \* how often the adapter may deliver one message
    TTL,            \* SessionStore._ttl
    TimeoutPolls,   \* AgentCommand.timeout in poll intervals
    Workers,        \* threads of _executor
    Durable,        \* sessions and schedules are kept in an FsspecStateStore
    MaxTime,        \* bound on the clock
    MaxRestarts     \* bound on the restarts of the process

(* AgentSession.store_key: command:user:channel.                           *)
Keys == Commands \X People

(* The id that the platform gave to the bot's answer to a message.         *)
AnswerId(m) == <<m>>
Ids == Messages \cup {AnswerId(m) : m \in Messages}

(* The n-th delivery of a message makes one BotCommand.                    *)
Deliveries == Messages \X (1..MaxDeliveries)

ASSUME AgentAssumption ==
    /\ MaxDeliveries \in Nat \ {0}
    /\ Texts \subseteq {"plain", "error"}
    /\ TTL \in Nat
    /\ TimeoutPolls \in Nat
    /\ Workers \in Nat \ {0}
    /\ Durable \in BOOLEAN
    /\ MaxTime \in Nat
    /\ MaxRestarts \in Nat
    /\ NoMessage \notin Ids
    /\ \A m \in Messages : AnswerId(m) \notin Messages
    /\ NoKey \notin Keys
    /\ NoChain \notin Nat

Times == 0..MaxTime

(* What the bot gets to see of a message: the command it starts with, who  *)
(* sent it and where, the message it replies to (reference or reply_to),   *)
(* or, without either, the message whose thread it is in.  Its text is     *)
(* "error" when its arguments are one that begins with "ERROR:".           *)
Incoming ==
    {r \in [verb : Commands \cup {NoCommand}, who : People, text : Texts,
            ref : Ids \cup {NoMessage}, thread : Ids \cup {NoMessage}] :
        r.thread = NoMessage \/ (r.ref = NoMessage /\ r.verb = NoCommand)}

(* message_history as the set of the messages whose turns it holds.        *)
Session == [turns : SUBSET Messages, active : Times, resp : Messages \cup {NoMessage}]

Job == [history : SUBSET Messages,
        state : {"queued", "running", "done", "failed", "cancelled", "dead"}]

ASSUME NoneAssumption ==
    /\ NoSession \notin Session
    /\ NoJob \notin Job
    /\ NoMessage \notin Incoming
    /\ NoCommand \notin Commands

VARIABLES
    now,        \* _utc_now()
    store,      \* the two namespaces of SessionStore: sessions and index
    msg,        \* the messages users have sent
    key,        \* _session_key of the command a message became
    delivered,  \* how often the adapter has delivered it
    futures,    \* AgentCommand._futures: number of the delivery that submitted
    jobs,       \* what the pool was given, by submitting delivery
    chain,      \* times_run of a BotCommand that waits for its next poll
    outcome,    \* how a BotCommand ended (history)
    restarts

vars == <<now, store, msg, key, delivered, futures, jobs, chain, outcome, restarts>>

Outcomes == {"none", "answer", "timeout", "error", "unknown", "help", "removed", "gone"}

TypeOK ==
    /\ now \in Times
    /\ store \in [sessions : [Keys -> Session \cup {NoSession}],
                  index : [Ids -> Keys \cup {NoKey}]]
    /\ msg \in [Messages -> Incoming \cup {NoMessage}]
    /\ key \in [Messages -> Keys \cup {NoKey}]
    /\ delivered \in [Messages -> 0..MaxDeliveries]
    /\ futures \in [Messages -> 0..MaxDeliveries]
    /\ jobs \in [Deliveries -> Job \cup {NoJob}]
    /\ chain \in [Deliveries -> 0..TimeoutPolls \cup {NoChain}]
    /\ outcome \in [Deliveries -> Outcomes]
    /\ restarts \in 0..MaxRestarts

Init ==
    /\ now = 0
    /\ store = [sessions |-> [k \in Keys |-> NoSession], index |-> [i \in Ids |-> NoKey]]
    /\ msg = [m \in Messages |-> NoMessage]
    /\ key = [m \in Messages |-> NoKey]
    /\ delivered = [m \in Messages |-> 0]
    /\ futures = [m \in Messages |-> 0]
    /\ jobs = [d \in Deliveries |-> NoJob]
    /\ chain = [d \in Deliveries |-> NoChain]
    /\ outcome = [d \in Deliveries |-> "none"]
    /\ restarts = 0
-----------------------------------------------------------------------------
(* SessionStore, as functions from the store before a call to the store    *)
(* after it.                                                               *)
Expired(st, k) ==
    st.sessions[k] # NoSession /\ now - st.sessions[k].active > TTL

Unindex(st, i) == IF i = NoMessage THEN st.index ELSE [st.index EXCEPT ![i] = NoKey]

(* Faulty: the index keeps its entry.                                      *)
RemoveSessionOnly(st, k) == [st EXCEPT !.sessions[k] = NoSession]

(* _remove_session                                                         *)
Remove(st, k) ==
    [sessions |-> [st.sessions EXCEPT ![k] = NoSession],
     index |-> Unindex(st, st.sessions[k].resp)]

(* What get leaves behind.                                                 *)
Get(st, k) == IF Expired(st, k) THEN Remove(st, k) ELSE st

Put(st, k, s) ==
    [sessions |-> [st.sessions EXCEPT ![k] = s],
     index |-> IF s.resp = NoMessage THEN st.index
               ELSE [st.index EXCEPT ![s.resp] = k]]

(* Faulty: the message tracked before stays in the index.                  *)
UpdateKeepsOld(st, k, i) ==
    IF st.sessions[k] = NoSession THEN st
    ELSE [sessions |-> [st.sessions EXCEPT ![k].resp = i],
          index |-> [st.index EXCEPT ![i] = k]]

UpdateResponseId(st, k, i) ==
    IF st.sessions[k] = NoSession THEN st
    ELSE [sessions |-> [st.sessions EXCEPT ![k].resp = i],
          index |-> [Unindex(st, st.sessions[k].resp) EXCEPT ![i] = k]]

CleanupExpired(st) ==
    [sessions |-> [k \in Keys |-> IF Expired(st, k) THEN NoSession ELSE st.sessions[k]],
     index |-> [i \in Ids |->
                   IF \E k \in Keys : Expired(st, k) /\ st.sessions[k].resp = i
                     THEN NoKey ELSE st.index[i]]]

(* session.touch() and put.                                                *)
Touch(st, k) == Put(st, k, [st.sessions[k] EXCEPT !.active = now])

NewSession == [turns |-> {}, active |-> now, resp |-> NoMessage]

(* Faulty: any session of the command will do.                             *)
ResumeByCommand(st, k, i) ==
    LET live == {x \in Keys : x[1] = k[1] /\ st.sessions[x] # NoSession} IN
    IF live # {} THEN LET x == CHOOSE x \in live : TRUE IN [store |-> Touch(st, x), key |-> x]
    ELSE [store |-> Put(st, k, NewSession), key |-> k]

(* _get_session or _create_session, for a command with session key k that  *)
(* replies to i: the store afterwards, and the key of the session found.   *)
Resume(st, k, i) ==
    LET answered == IF i = NoMessage THEN NoKey ELSE st.index[i]
        replied  == IF answered = NoKey THEN st ELSE Get(st, answered)
        own      == Get(replied, k)
    IN
    IF answered # NoKey /\ replied.sessions[answered] # NoSession
      THEN [store |-> Touch(replied, answered), key |-> answered]
    ELSE IF own.sessions[k] # NoSession
      THEN [store |-> Touch(own, k), key |-> k]
    ELSE [store |-> Put(own, k, NewSession), key |-> k]
-----------------------------------------------------------------------------
(* preexecute of a command that message m has become.                      *)
Submit(m, n, k, i) ==
    LET resumed == Resume(CleanupExpired(store), k, i) IN
    /\ store' = resumed.store
    /\ futures' = [futures EXCEPT ![m] = n]
    /\ jobs' = [jobs EXCEPT ![<<m, n>>] =
                   [history |-> resumed.store.sessions[resumed.key].turns,
                    state |-> "queued"]]
    /\ chain' = [chain EXCEPT ![<<m, n>>] = 0]
    /\ UNCHANGED outcome

(* The message is already with the pool: only polled once more.            *)
Join(m, n) ==
    /\ store' = CleanupExpired(store)
    /\ chain' = [chain EXCEPT ![<<m, n>>] = 0]
    /\ UNCHANGED <<futures, jobs, outcome>>

(* build_agent, build_prompt or a download raised.                         *)
BuildFails(m, n) ==
    /\ store' = CleanupExpired(store)
    /\ outcome' = [outcome EXCEPT ![<<m, n>>] = "error"]
    /\ UNCHANGED <<futures, jobs, chain>>

Preexecute(m, n, k, i) ==
    \/ futures[m] = 0 /\ Submit(m, n, k, i)
    \/ futures[m] # 0 /\ Join(m, n)
    \/ futures[m] = 0 /\ BuildFails(m, n)

(* What a reply may refer to: a message of a user, or the bot's answer.    *)
Answered(m) == \E n \in 1..MaxDeliveries : outcome[<<m, n>>] = "answer"

Visible == {m \in Messages : msg[m] # NoMessage}
           \cup {AnswerId(m) : m \in {q \in Messages : Answered(q)}}
           \cup {NoMessage}

(* get_by_response_id: at most one.                                        *)
SessionsOf(i) == {k \in Keys : i # NoMessage /\ store.index[i] = k /\ ~Expired(store, k)}

ReplyTo(r) == IF r.ref # NoMessage THEN r.ref ELSE r.thread

(* Delivery n of a message "/command ...", perhaps in reply to another.    *)
TakeCommand(m, n, r) ==
    /\ r.verb # NoCommand
    /\ key' = [key EXCEPT ![m] = <<r.verb, r.who>>]
    /\ Preexecute(m, n, <<r.verb, r.who>>, r.ref)

(* A message without a command goes on with the conversation it replies    *)
(* to: _check_agent_session_reply, whose thread _get_session does not see. *)
TakeReply(m, n, r) ==
    /\ r.verb = NoCommand
    /\ \E k \in SessionsOf(ReplyTo(r)) :
          /\ key' = [key EXCEPT ![m] = <<k[1], r.who>>]
          /\ Preexecute(m, n, <<k[1], r.who>>, r.ref)

(* Without a conversation the bot shows its help.                          *)
ShowHelp(m, n, r) ==
    /\ r.verb = NoCommand
    /\ SessionsOf(ReplyTo(r)) = {}
    /\ store' = IF \E k \in Keys : ReplyTo(r) # NoMessage /\ store.index[ReplyTo(r)] = k
                  THEN Remove(store, store.index[ReplyTo(r)]) ELSE store
    /\ outcome' = [outcome EXCEPT ![<<m, n>>] = "help"]
    /\ UNCHANGED <<key, futures, jobs, chain>>

(* The adapter delivers a message for the first time, or again.            *)
Receive(m, r) ==
    /\ delivered[m] < MaxDeliveries
    /\ delivered' = [delivered EXCEPT ![m] = @ + 1]
    /\ msg[m] = NoMessage => {r.ref, r.thread} \subseteq Visible
    /\ msg[m] # NoMessage => msg[m] = r
    /\ msg' = [msg EXCEPT ![m] = r]
    /\ \/ TakeCommand(m, delivered[m] + 1, r)
       \/ TakeReply(m, delivered[m] + 1, r)
       \/ ShowHelp(m, delivered[m] + 1, r)
    /\ UNCHANGED <<now, restarts>>
-----------------------------------------------------------------------------
(* The threads of the pool.                                                *)
Running == {d \in Deliveries : jobs[d] # NoJob /\ jobs[d].state = "running"}

JobIs(d, s) == jobs[d] # NoJob /\ jobs[d].state = s

JobBecomes(d, s) ==
    /\ jobs' = [jobs EXCEPT ![d].state = s]
    /\ UNCHANGED <<now, store, msg, key, delivered, futures, chain, outcome, restarts>>

StartJob(d) ==
    /\ JobIs(d, "queued")
    /\ Cardinality(Running) < Workers
    /\ JobBecomes(d, "running")

EndJob(d, s) ==
    /\ JobIs(d, "running")
    /\ s \in {"done", "failed"}
    /\ JobBecomes(d, s)
-----------------------------------------------------------------------------
Ends(d, o) ==
    /\ chain' = [chain EXCEPT ![d] = NoChain]
    /\ outcome' = [outcome EXCEPT ![d] = o]

FutureOf(m) == <<m, futures[m]>>

(* The session that an answer to m goes into, and the tracking of m under  *)
(* the session key of the command.                                         *)
Record(m) ==
    LET resumed == Resume(store, key[m], msg[m].ref)
        turns   == jobs[FutureOf(m)].history \cup {m}
        kept    == Put(resumed.store, resumed.key,
                       [resumed.store.sessions[resumed.key] EXCEPT
                           !.turns = turns, !.active = now])
    IN UpdateResponseId(kept, key[m], m)

(* Faulty: the future is not popped.                                       *)
AnswerAndKeep(d) ==
    /\ JobIs(FutureOf(d[1]), "done")
    /\ store' = Record(d[1])
    /\ Ends(d, "answer")
    /\ UNCHANGED <<futures, jobs>>

Answer(d) ==
    /\ JobIs(FutureOf(d[1]), "done")
    /\ store' = Record(d[1])
    /\ futures' = [futures EXCEPT ![d[1]] = 0]
    /\ Ends(d, "answer")
    /\ UNCHANGED jobs

Fail(d) ==
    /\ JobIs(FutureOf(d[1]), "failed")
    /\ futures' = [futures EXCEPT ![d[1]] = 0]
    /\ Ends(d, "error")
    /\ UNCHANGED <<store, jobs>>

(* Faulty: the future of a command that is given up stays.                 *)
TimeOutAndKeep(d) ==
    /\ chain[d] >= TimeoutPolls
    /\ Ends(d, "timeout")
    /\ UNCHANGED <<store, futures, jobs>>

(* cancel() has no effect on an agent that is running.                     *)
TimeOut(d) ==
    /\ chain[d] >= TimeoutPolls
    /\ futures' = [futures EXCEPT ![d[1]] = 0]
    /\ jobs' = IF JobIs(FutureOf(d[1]), "queued")
                 THEN [jobs EXCEPT ![FutureOf(d[1])].state = "cancelled"] ELSE jobs
    /\ Ends(d, "timeout")
    /\ UNCHANGED store

(* Faulty: no timeout.                                                     *)
PollForever(d) ==
    /\ chain' = [chain EXCEPT ![d] = @ + 1]
    /\ UNCHANGED <<store, futures, jobs, outcome>>

(* Faulty: times_run is not counted.                                       *)
PollUncounted(d) ==
    /\ chain[d] < TimeoutPolls
    /\ UNCHANGED <<store, futures, jobs, chain, outcome>>

PollAgain(d) ==
    /\ chain[d] < TimeoutPolls
    /\ chain' = [chain EXCEPT ![d] = @ + 1]
    /\ UNCHANGED <<store, futures, jobs, outcome>>

Unknown(d) ==
    /\ Ends(d, "unknown")
    /\ UNCHANGED <<store, futures, jobs>>

ReadsAsError(m) == msg[m] # NoMessage /\ msg[m].text = "error"

(* The arguments of the command are taken for an error of preexecute, even *)
(* when that has submitted the agent: they are sent back, and the future,  *)
(* if there is one, stays.                                                 *)
Echo(d) ==
    /\ ReadsAsError(d[1])
    /\ Ends(d, "error")
    /\ UNCHANGED <<store, futures, jobs>>

(* execute                                                                 *)
Poll(d) ==
    /\ chain[d] # NoChain
    /\ \/ Echo(d)
       \/ ~ReadsAsError(d[1]) /\ futures[d[1]] = 0 /\ Unknown(d)
       \/ /\ ~ReadsAsError(d[1])
          /\ futures[d[1]] # 0
          /\ \/ Answer(d)
             \/ Fail(d)
             \/ /\ JobIs(FutureOf(d[1]), "queued") \/ JobIs(FutureOf(d[1]), "running")
                /\ TimeOut(d) \/ PollAgain(d)
    /\ UNCHANGED <<now, msg, key, delivered, restarts>>

(* The poll is a record of the schedule store like any other:              *)
(* "/schedule remove" takes it away, and the future with it stays.         *)
RemovePoll(d) ==
    /\ chain[d] # NoChain
    /\ Ends(d, "removed")
    /\ UNCHANGED <<now, store, msg, key, delivered, futures, jobs, restarts>>

(* The process dies and starts again.  A poll comes back if the schedule   *)
(* store still had it and its date had not passed.                         *)
Restart ==
    /\ restarts < MaxRestarts
    /\ restarts' = restarts + 1
    /\ futures' = [m \in Messages |-> 0]
    /\ jobs' = [d \in Deliveries |->
                   IF jobs[d] # NoJob /\ jobs[d].state \in {"queued", "running"}
                     THEN [jobs[d] EXCEPT !.state = "dead"] ELSE jobs[d]]
    /\ store' = IF Durable THEN store
                ELSE [sessions |-> [k \in Keys |-> NoSession],
                      index |-> [i \in Ids |-> NoKey]]
    /\ \E lost \in SUBSET {d \in Deliveries : chain[d] # NoChain} :
          /\ Durable \/ \A d \in Deliveries : chain[d] # NoChain => d \in lost
          /\ chain' = [d \in Deliveries |-> IF d \in lost THEN NoChain ELSE chain[d]]
          /\ outcome' = [d \in Deliveries |-> IF d \in lost THEN "gone" ELSE outcome[d]]
    /\ UNCHANGED <<now, msg, key, delivered>>

Tick ==
    /\ now < MaxTime
    /\ now' = now + 1
    /\ UNCHANGED <<store, msg, key, delivered, futures, jobs, chain, outcome, restarts>>
-----------------------------------------------------------------------------
Next ==
    \/ \E m \in Messages, r \in Incoming : Receive(m, r)
    \/ \E d \in Deliveries : StartJob(d)
    \/ \E d \in Deliveries, s \in {"done", "failed"} : EndJob(d, s)
    \/ \E d \in Deliveries : Poll(d)
    \/ \E d \in Deliveries : RemovePoll(d)
    \/ Restart
    \/ Tick

Spec == Init /\ [][Next]_vars

(* The scheduler polls every waiting command again (DueCommandsRun there). *)
(* Nothing is assumed of the agents: one may never finish.                 *)
Fairness == \A d \in Deliveries : WF_vars(Poll(d))

FairSpec == Spec /\ Fairness
-----------------------------------------------------------------------------
(* The reply index and the sessions agree: a message leads to the session  *)
(* it was the last answered message of, and to no other, whatever expires, *)
(* is recreated or is tracked in between.                                  *)
IndexAgrees ==
    \A i \in Ids, k \in Keys :
        store.index[i] = k <=>
            store.sessions[k] # NoSession /\ store.sessions[k].resp = i

(* Two messages belong together when they have the same session key or one *)
(* replies to the other.                                                   *)
Closed(C) ==
    \A m, q \in Messages :
        key[m] # NoKey /\ key[q] # NoKey /\ (key[m] = key[q] \/ msg[m].ref = q) =>
            (m \in C <=> q \in C)

(* An agent never gets to see a turn of a conversation its own message has *)
(* no connection to, directly or through other messages.                   *)
Isolation ==
    \A C \in SUBSET Messages : Closed(C) =>
        \A d \in Deliveries : jobs[d] # NoJob /\ d[1] \in C => jobs[d].history \subseteq C

Answers(m) == {n \in 1..MaxDeliveries : outcome[<<m, n>>] = "answer"}
Done(m)    == {n \in 1..MaxDeliveries : JobIs(<<m, n>>, "done")}

(* Every run of an agent is answered with at most once, although several   *)
(* deliveries of the message may poll for it.                              *)
AnswerPerRun == \A m \in Messages : Cardinality(Answers(m)) <= Cardinality(Done(m))

(* A future in AgentCommand._futures has a command that will poll for it,  *)
(* whatever is delivered again, times out or restarts, but for two leaks:  *)
(* a user removed the poll, or the message reads as an error, so that      *)
(* execute never looks at its future (agent.py:632).                       *)
FuturesPolled ==
    \A m \in Messages : futures[m] # 0 /\ ~ReadsAsError(m) =>
        \E n \in 1..MaxDeliveries : chain[<<m, n>>] # NoChain \/ outcome[<<m, n>>] = "removed"

(* Whatever the agent does, every command comes to an end.                 *)
EveryCommandEnds == \A d \in Deliveries : chain[d] # NoChain ~> chain[d] = NoChain

(* agent.py:238: "conversation history is preserved per                    *)
(* user+channel+command": an answered turn stays in its live session.      *)
(* Two answers that were in flight together break it.                      *)
TurnsKept ==
    [][\A k \in Keys :
          store.sessions[k] # NoSession /\ ~Expired(store, k) /\ store'.sessions[k] # NoSession =>
              store.sessions[k].turns \subseteq store'.sessions[k].turns]_vars

(* agent.py:239: "If the user replies to the bot's response (thread reply  *)
(* or message reference), the prior session is resumed."  The id of the    *)
(* bot's response is never indexed, so such a reply gets the help text.    *)
RepliesResume ==
    [][\A m, q \in Messages :
          /\ msg'[m] # msg[m] /\ msg'[m].ref = AnswerId(q)
          /\ store.sessions[key[q]] # NoSession
          /\ ~Expired(store, key[q])
          => outcome'[<<m, 1>>] # "help"]_vars
-----------------------------------------------------------------------------
(* What makes IndexAgrees and Isolation inductive.  A message, once it has *)
(* become a command, keeps its session key: that of the command it starts  *)
(* with, or of the conversation it replies to.                             *)
KeyInv ==
    \A m \in Messages : key[m] # NoKey =>
        /\ msg[m] # NoMessage
        /\ IF msg[m].verb # NoCommand THEN key[m] = <<msg[m].verb, msg[m].who>>
           ELSE /\ ReplyTo(msg[m]) \in Messages
                /\ key[ReplyTo(msg[m])] # NoKey
                /\ key[m] = <<key[ReplyTo(msg[m])][1], msg[m].who>>

(* A message leads to the session of its own key.                          *)
IndexKeyInv ==
    \A i \in Ids, k \in Keys : store.index[i] = k => i \in Messages /\ key[i] = k

(* A future was submitted, and so was every poll, for a command.           *)
JobInv ==
    \A m \in Messages :
        /\ futures[m] # 0 => jobs[<<m, futures[m]>>] # NoJob /\ key[m] # NoKey
        /\ \A n \in 1..MaxDeliveries :
              chain[<<m, n>>] # NoChain \/ jobs[<<m, n>>] # NoJob => key[m] # NoKey

(* Sessions and jobs hold turns of messages that belong together.          *)
TogetherInv ==
    \A C \in SUBSET Messages : Closed(C) =>
        /\ \A k \in Keys : store.sessions[k] # NoSession =>
              \A t \in store.sessions[k].turns :
                 key[t] # NoKey /\ \A m \in Messages : key[m] = k => (m \in C <=> t \in C)
        /\ \A d \in Deliveries : jobs[d] # NoJob =>
              \A t \in jobs[d].history : key[t] # NoKey /\ (d[1] \in C <=> t \in C)

(* A session belongs to some message.                                      *)
OwnedInv ==
    \A k \in Keys : store.sessions[k] # NoSession => \E m \in Messages : key[m] = k

AInv == TypeOK /\ IndexAgrees /\ KeyInv /\ IndexKeyInv /\ JobInv /\ TogetherInv /\ OwnedInv

(* What makes AnswerPerRun and FuturesPolled inductive: nothing is known   *)
(* of deliveries to come, and a run whose future is still there has not    *)
(* been answered with.                                                     *)
RunInv ==
    /\ \A m \in Messages, n \in 1..MaxDeliveries :
          jobs[<<m, n>>] # NoJob \/ chain[<<m, n>>] # NoChain \/ outcome[<<m, n>>] # "none" =>
             n <= delivered[m]
    /\ \A m \in Messages : Cardinality(Answers(m)) <= Cardinality(Done(m) \ {futures[m]})
    /\ FuturesPolled
=============================================================================
