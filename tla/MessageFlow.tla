----------------------------- MODULE MessageFlow -----------------------------
(***************************************************************************)
(* How messages flow through the graph that Bot.connect builds: from the   *)
(* adapters through flatten to _process_incoming_messages, and from the    *)
(* answers of commands through the rate-limited buffer of _handle_commands *)
(* and a second flatten back to the adapters.  What a command does is left *)
(* to Scheduler and AgentCommand: here an accepted message is answered any *)
(* number of times, at any moment.                                         *)
(*                                                                         *)
(* csp is external.  Of it the model says: one engine thread runs cycles;  *)
(* in a cycle each input ticks at most once; unroll hands out one element  *)
(* per cycle, in order; of the inputs of flatten that tick in the same     *)
(* cycle only the leftmost gets through; an alarm never ticks early and    *)
(* may tick late.                                                          *)
(*                                                                         *)
(* Answers are numbered in the order in which commands return them, so a   *)
(* list of answers is the set of their numbers.  Definitions marked        *)
(* "Faulty" are broken versions of the definition that follows them.       *)
(***************************************************************************)
EXTENDS Integers, Sequences, FiniteSets

CONSTANTS
    Adapters,       \* number of adapters; their place in _adapters names them
    Requests,       \* messages of users
    From(_),        \* the adapter a message comes from
    Outsiders,      \* messages that are refused, with an unauthorized_msg
    Ids,            \* Message.id of answers that carry one
    NoId,           \* the empty id of all the others
    Nobody,         \* no refusal in this cycle
    RateLimit,      \* ratelimit_seconds, in units of the clock
    MaxAnswers      \* bound on the number of answers

Backends == 1..Adapters

ASSUME FlowAssumption ==
    /\ Adapters \in Nat \ {0}
    /\ \A m \in Requests : From(m) \in Backends
    /\ Outsiders \subseteq Requests
    /\ NoId \notin Ids
    /\ Nobody \notin Requests
    /\ RateLimit \in Nat \ {0}
    /\ MaxAnswers \in Nat

VARIABLES
    (* Between the adapters and the bot.                                   *)
    arriving,   \* messages each adapter has received and not yet ticked
    accepted,   \* messages that became commands
    (* The node _handle_commands and the two flattens.                     *)
    phase,      \* how far the engine cycle has come
    wait,       \* time left until the ratelimit alarm is due
    buffer,     \* s_buffer
    last,       \* s_buffer_last
    batch,      \* what unroll has still to hand out
    refusal,    \* the tick of unauthorized_message in this cycle
    (* History, never read by the actions of the code.                     *)
    answers,    \* every answer of a command: its backend and its id
    out,        \* what each adapter published, by number
    seen,       \* messages that adapters received
    refused,    \* messages of Outsiders that were heard
    told        \* those whose refusal was published

inbound  == <<arriving, accepted, seen>>
node     == <<phase, wait, buffer, last, batch>>
refusals == <<refusal, refused, told>>
vars     == <<inbound, node, refusals, answers, out>>

Answer == [backend : Backends, id : Ids \cup {NoId}]

TypeOK ==
    /\ arriving \in [Backends -> Seq(Requests)]
    /\ accepted \subseteq Requests
    /\ seen \subseteq Requests
    /\ phase \in {"idle", "heard", "executed", "flushed"}
    /\ wait \in 0..RateLimit
    /\ answers \in Seq(Answer)
    /\ Len(answers) <= MaxAnswers
    /\ buffer \subseteq DOMAIN answers
    /\ last \subseteq DOMAIN answers
    /\ batch \subseteq DOMAIN answers
    /\ out \in [Backends -> Seq(DOMAIN answers)]
    /\ refusal \in Outsiders \cup {Nobody}
    /\ refused \subseteq Outsiders
    /\ told \subseteq Outsiders

Init ==
    /\ arriving = [b \in Backends |-> <<>>]
    /\ accepted = {}
    /\ seen = {}
    /\ phase = "idle"
    /\ wait = RateLimit
    /\ buffer = {}
    /\ last = {}
    /\ batch = {}
    /\ refusal = Nobody
    /\ refused = {}
    /\ told = {}
    /\ answers = <<>>
    /\ out = [b \in Backends |-> <<>>]
-----------------------------------------------------------------------------
(* An adapter receives a message; unroll takes its lists apart.            *)
Arrive(m) ==
    /\ m \notin seen
    /\ seen' = seen \cup {m}
    /\ arriving' = [arriving EXCEPT ![From(m)] = Append(@, m)]
    /\ UNCHANGED <<accepted, node, refusals, answers, out>>

(* Faulty: the adapter that was added last comes first.                    *)
Rightmost(T) == CHOOSE b \in T : \A other \in T : other <= b

(* messages_in: csp.flatten([messages_in, tagged]) for each adapter in     *)
(* turn, so the adapter that was added first comes first.                  *)
Leftmost(T) == CHOOSE b \in T : \A other \in T : b <= other

(* The adapters T tick in one cycle and one message gets through to        *)
(* _process_incoming_messages, which refuses it or makes it a command.     *)
(* Messages that are not to the bot, and refused ones when the backend has *)
(* no unauthorized_msg, leave nothing behind and are not in Requests.      *)
Hear(T) ==
    LET m == Head(arriving[Leftmost(T)]) IN
    /\ phase = "idle"
    /\ T # {}
    /\ \A b \in T : arriving[b] # <<>>
    /\ arriving' = [b \in Backends |->
                       IF b \in T THEN Tail(arriving[b]) ELSE arriving[b]]
    /\ phase' = "heard"
    /\ \/ /\ m \in Outsiders
          /\ refusal' = m
          /\ refused' = refused \cup {m}
          /\ UNCHANGED <<accepted, told>>
       \/ /\ m \notin Outsiders
          /\ accepted' = accepted \cup {m}
          /\ UNCHANGED refusals
    /\ UNCHANGED <<seen, wait, buffer, last, batch, answers, out>>

(* A command of message m runs in this cycle and returns a Message: the    *)
(* answer to m goes to the backend of m.                                   *)
Execute(m, id) ==
    /\ phase \in {"idle", "heard", "executed"}
    /\ m \in accepted
    /\ Len(answers) < MaxAnswers
    /\ phase' = "executed"
    /\ answers' = Append(answers, [backend |-> From(m), id |-> id])
    /\ buffer' = buffer \cup {Len(answers')}
    /\ UNCHANGED <<inbound, wait, last, batch, refusals, out>>
-----------------------------------------------------------------------------
IdsOf(ns) == {answers[n].id : n \in ns} \ {NoId}

(* Faulty: the buffer is compared with itself.                             *)
FreshToItself == {n \in buffer : answers[n].id \notin IdsOf(buffer)}

(* The answers whose id was not in the last buffer.                        *)
Fresh == {n \in buffer : answers[n].id \notin IdsOf(last)}

(* Faulty: the alarm is set again only when something went out.            *)
FlushAndForget ==
    /\ phase \in {"idle", "heard", "executed"}
    /\ wait = 0
    /\ phase' = "flushed"
    /\ batch' = batch \cup Fresh
    /\ last' = IF buffer = {} THEN last ELSE buffer
    /\ buffer' = {}
    /\ wait' = IF buffer = {} THEN -1 ELSE RateLimit
    /\ UNCHANGED <<inbound, refusals, answers, out>>

(* Faulty: the buffer is not emptied.                                      *)
FlushAndKeep ==
    /\ phase \in {"idle", "heard", "executed"}
    /\ wait = 0
    /\ phase' = "flushed"
    /\ batch' = batch \cup Fresh
    /\ last' = IF buffer = {} THEN last ELSE buffer
    /\ wait' = RateLimit
    /\ UNCHANGED <<inbound, buffer, refusals, answers, out>>

(* The ratelimit alarm ticks.                                              *)
Flush ==
    /\ phase \in {"idle", "heard", "executed"}
    /\ wait = 0
    /\ phase' = "flushed"
    /\ \/ /\ buffer # {}
          /\ batch' = batch \cup Fresh
          /\ last' = buffer
          /\ buffer' = {}
       \/ /\ buffer = {}
          /\ UNCHANGED <<buffer, last, batch>>
    /\ wait' = RateLimit
    /\ UNCHANGED <<inbound, refusals, answers, out>>

First(ns) == CHOOSE n \in ns : \A other \in ns : n <= other

(* _filter_messages_for_backend in front of each adapter.                  *)
Publish(n) ==
    out' = [out EXCEPT ![answers[n].backend] = Append(@, n)]

(* Faulty: the flatten lists the refusal first.                            *)
RefusalFirst ==
    /\ batch' = IF batch = {} THEN {} ELSE batch \ {First(batch)}
    /\ IF batch # {} /\ refusal = Nobody THEN Publish(First(batch)) ELSE out' = out
    /\ told' = told \cup ({refusal} \ {Nobody})

(* Faulty: unroll ticks as long as the buffer holds anything.              *)
BufferFirst ==
    /\ batch' = IF batch = {} THEN {} ELSE batch \ {First(batch)}
    /\ IF batch # {} THEN Publish(First(batch)) ELSE out' = out
    /\ told' = IF batch = {} /\ buffer = {} THEN told \cup ({refusal} \ {Nobody}) ELSE told

(* messages_out: csp.flatten of the unrolled batch and the refusal.        *)
MessagesOut ==
    \/ /\ batch # {}
       /\ Publish(First(batch))
       /\ batch' = batch \ {First(batch)}
       /\ UNCHANGED told
    \/ /\ batch = {}
       /\ refusal # Nobody
       /\ told' = told \cup {refusal}
       /\ UNCHANGED <<batch, out>>
    \/ /\ batch = {}
       /\ refusal = Nobody
       /\ UNCHANGED <<batch, told, out>>

(* The end of a cycle.  As long as unroll has something to hand out, the   *)
(* next cycle comes by itself.                                             *)
EndCycle ==
    /\ phase # "idle" \/ batch # {}
    /\ MessagesOut
    /\ refusal' = Nobody
    /\ phase' = "idle"
    /\ UNCHANGED <<inbound, wait, buffer, last, refused, answers>>

(* Time passes.                                                            *)
Tick ==
    /\ phase = "idle"
    /\ wait > 0
    /\ wait' = wait - 1
    /\ UNCHANGED <<inbound, phase, buffer, last, batch, refusals, answers, out>>
-----------------------------------------------------------------------------
Next ==
    \/ \E m \in Requests : Arrive(m)
    \/ \E T \in SUBSET Backends : Hear(T)
    \/ \E m \in Requests, id \in Ids \cup {NoId} : Execute(m, id)
    \/ Flush
    \/ EndCycle
    \/ Tick

Spec == Init /\ [][Next]_vars

(* The engine completes its cycles, an alarm that is due ticks in one of   *)
(* them, and time passes.                                                  *)
Fairness ==
    /\ WF_vars(EndCycle)
    /\ WF_vars(Flush)
    /\ WF_vars(Tick)

FairSpec == Spec /\ Fairness
-----------------------------------------------------------------------------
(* Numbers of the answers that some adapter published.                     *)
Out == UNION {{out[b][i] : i \in DOMAIN out[b]} : b \in Backends}

(* Either the answer itself is on its way, or an earlier message with the  *)
(* same id is: the comparison with the last buffer may only leave out what *)
(* users get anyway.                                                       *)
Delivered(n) ==
    \/ n \in batch \cup Out
    \/ \E k \in batch \cup Out :
          k < n /\ answers[k].id = answers[n].id /\ answers[n].id # NoId

(* No answer of a command is lost between s_buffer, s_buffer_last, unroll  *)
(* and the adapters: it waits in the buffer or it is delivered.            *)
NothingLost == \A n \in DOMAIN answers : n \in buffer \/ Delivered(n)

(* Each adapter publishes answers in the order in which commands returned  *)
(* them and none twice, across batches, repeated ids and refusals that     *)
(* tick in between.                                                        *)
InOrder ==
    /\ \A b \in Backends : \A i, j \in DOMAIN out[b] :
          i < j => out[b][i] < out[b][j]
    /\ \A n \in Out, k \in batch : n < k
    /\ \A n \in Out \cup batch, k \in buffer : n < k

(* Messages of the adapter that was added first are never lost in the      *)
(* first flatten: the bot hears every one of them.  For the other adapters *)
(* that does not hold.                                                     *)
FirstAdapterHeard ==
    \A m \in seen : From(m) = 1 =>
        \/ m \in accepted \cup refused
        \/ \E i \in DOMAIN arriving[1] : arriving[1][i] = m

Published(n) ==
    \/ n \in Out
    \/ \E k \in Out : answers[k].id = answers[n].id /\ answers[n].id # NoId

(* Every answer is published, or a message with its id is, whatever else   *)
(* is buffered meanwhile: the ratelimit alarm never stops.                 *)
AnswersGoOut ==
    \A n \in 1..MaxAnswers :
        n \in DOMAIN answers ~> (n \in DOMAIN answers /\ Published(n))

(* A refused user is not always told so: a refusal that ticks in the cycle *)
(* in which an answer goes out is lost in the second flatten.  But nothing *)
(* else loses one, so no more refusals are lost than answers were          *)
(* published, whatever the buffer holds and however cycles fall.           *)
RefusalsYieldToAnswers ==
    Cardinality(refused \ (told \cup {refusal})) <= Cardinality(Out)

(* The inductive invariant of the safety properties above.                 *)
FlowInv ==
    /\ TypeOK
    /\ NothingLost
    /\ InOrder
    /\ FirstAdapterHeard
    /\ \A n \in last : Delivered(n)
    /\ \A b \in Backends : \A i \in DOMAIN arriving[b] : From(arriving[b][i]) = b
=============================================================================
