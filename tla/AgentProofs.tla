----------------------------- MODULE AgentProofs ------------------------------
(***************************************************************************)
(* The sessions of AgentCommand: the reply index agrees with the sessions, *)
(* and conversations that have nothing to do with one another stay apart.  *)
(***************************************************************************)
EXTENDS AgentCommand, FiniteSetTheorems, TLAPS

Stores == [sessions : [Keys -> Session \cup {NoSession}],
           index : [Ids -> Keys \cup {NoKey}]]

(* IndexAgrees, of any store.                                              *)
Agrees(st) ==
    \A i \in Ids, k \in Keys :
        st.index[i] = k <=> st.sessions[k] # NoSession /\ st.sessions[k].resp = i

(* What a call for a command with session key k may change: entries go,    *)
(* sessions go, keep their turns, or start afresh under k.                 *)
Follows(st, k, st2) ==
    /\ \A i \in Ids : st2.index[i] \in {st.index[i], NoKey}
    /\ \A x \in Keys : st2.sessions[x] # NoSession =>
          \/ st.sessions[x] # NoSession /\ st2.sessions[x].turns = st.sessions[x].turns
          \/ x = k /\ st2.sessions[x].turns = {}

(* What a call may change that starts no session.                          *)
Shrinks(st, st2) ==
    /\ \A i \in Ids : st2.index[i] \in {st.index[i], NoKey}
    /\ \A x \in Keys : st2.sessions[x] # NoSession =>
          st.sessions[x] # NoSession /\ st2.sessions[x].turns = st.sessions[x].turns

LEMMA RespType ==
    ASSUME NEW st \in Stores, NEW k \in Keys, st.sessions[k] # NoSession
    PROVE  /\ st.sessions[k] \in Session
           /\ st.sessions[k].resp \in Ids \cup {NoMessage}
           /\ NoMessage \notin Ids /\ NoKey \notin Keys
BY AgentAssumption DEF Stores, Session, Ids

LEMMA RemoveAgrees ==
    ASSUME NEW st \in Stores, Agrees(st), NEW k \in Keys, st.sessions[k] # NoSession
    PROVE  /\ Remove(st, k) \in Stores
           /\ Agrees(Remove(st, k))
           /\ Follows(st, k, Remove(st, k))
           /\ Shrinks(st, Remove(st, k))
<1> DEFINE st2 == Remove(st, k)
<1>1. /\ st2.sessions = [st.sessions EXCEPT ![k] = NoSession]
      /\ st2.index = Unindex(st, st.sessions[k].resp)
      /\ st2 = [sessions |-> st2.sessions, index |-> st2.index]
  BY DEF Remove
<1>2. st2.sessions \in [Keys -> Session \cup {NoSession}]
  BY <1>1 DEF Stores
<1>3. st2.index \in [Ids -> Keys \cup {NoKey}]
  BY <1>1 DEF Unindex, Stores
<1>4. /\ \A x \in Keys : st2.sessions[x] = IF x = k THEN NoSession ELSE st.sessions[x]
      /\ \A i \in Ids : st2.index[i] = IF i = st.sessions[k].resp THEN NoKey ELSE st.index[i]
  BY <1>1, RespType DEF Unindex, Stores
<1> HIDE DEF st2
<1>5. st2 \in Stores
  BY <1>1, <1>2, <1>3 DEF Stores
<1>6. Agrees(st2)
  BY <1>4, RespType DEF Agrees
<1>7. Follows(st, k, st2) /\ Shrinks(st, st2)
  BY <1>4 DEF Follows, Shrinks
<1>8. QED BY <1>5, <1>6, <1>7 DEF st2

LEMMA GetAgrees ==
    ASSUME NEW st \in Stores, Agrees(st), NEW k \in Keys
    PROVE  /\ Get(st, k) \in Stores
           /\ Agrees(Get(st, k))
           /\ \A x \in Keys : Follows(st, x, Get(st, k))
<1>1. CASE Expired(st, k)
  BY <1>1, RemoveAgrees DEF Get, Expired, Follows, Remove, Stores
<1>2. CASE ~Expired(st, k)
  BY <1>2 DEF Get, Follows
<1>3. QED BY <1>1, <1>2

(* Put of a session that was there with the same answered message, or of   *)
(* a fresh one.                                                            *)
LEMMA PutAgrees ==
    ASSUME NEW st \in Stores, Agrees(st), NEW k \in Keys, NEW s \in Session,
           IF st.sessions[k] = NoSession THEN s.resp = NoMessage
                                         ELSE s.resp = st.sessions[k].resp
    PROVE  /\ Put(st, k, s) \in Stores
           /\ Agrees(Put(st, k, s))
           /\ Put(st, k, s).index = st.index
           /\ Put(st, k, s).sessions = [st.sessions EXCEPT ![k] = s]
<1> DEFINE st2 == Put(st, k, s)
<1>1. /\ st2.sessions = [st.sessions EXCEPT ![k] = s]
      /\ st2 = [sessions |-> st2.sessions, index |-> st2.index]
  BY DEF Put
<1>2. st2.index = st.index
  <2>1. CASE s.resp = NoMessage
    BY <2>1 DEF Put
  <2>2. CASE s.resp # NoMessage
    <3>1. s.resp \in Ids /\ st.index[s.resp] = k
      BY <2>2, RespType DEF Agrees
    <3>2. st2.index = [st.index EXCEPT ![s.resp] = k]
      BY <2>2 DEF Put
    <3>3. QED BY <3>1, <3>2 DEF Stores
  <2>3. QED BY <2>1, <2>2
<1>3. st2.sessions \in [Keys -> Session \cup {NoSession}]
  BY <1>1 DEF Stores
<1>4. \A x \in Keys : st2.sessions[x] = IF x = k THEN s ELSE st.sessions[x]
  BY <1>1 DEF Stores
<1> HIDE DEF st2
<1>5. st2 \in Stores
  BY <1>1, <1>2, <1>3 DEF Stores
<1>6. Agrees(st2)
  <2> SUFFICES ASSUME NEW i \in Ids, NEW x \in Keys
               PROVE  st2.index[i] = x <=> st2.sessions[x] # NoSession /\ st2.sessions[x].resp = i
    BY DEF Agrees
  <2>1. st.index[i] = x <=> st.sessions[x] # NoSession /\ st.sessions[x].resp = i
    BY DEF Agrees
  <2>2. s # NoSession /\ NoMessage \notin Ids
    BY NoneAssumption, AgentAssumption
  <2>3. QED BY <1>2, <1>4, <2>1, <2>2
<1>7. QED BY <1>1, <1>2, <1>5, <1>6 DEF st2

LEMMA TouchAgrees ==
    ASSUME NEW st \in Stores, Agrees(st), NEW k \in Keys, st.sessions[k] # NoSession,
           now \in Times
    PROVE  /\ Touch(st, k) \in Stores
           /\ Agrees(Touch(st, k))
           /\ \A x \in Keys : Follows(st, x, Touch(st, k))
           /\ Touch(st, k).sessions[k] # NoSession
<1> DEFINE s == [st.sessions[k] EXCEPT !.active = now]
<1>1. s \in Session /\ s.resp = st.sessions[k].resp /\ s.turns = st.sessions[k].turns
  BY RespType DEF Session
<1>2. s # NoSession
  BY <1>1, NoneAssumption
<1>3. Touch(st, k) = Put(st, k, s)
  BY DEF Touch
<1> HIDE DEF s
<1>4. /\ Touch(st, k) \in Stores /\ Agrees(Touch(st, k))
      /\ Touch(st, k).index = st.index
      /\ Touch(st, k).sessions = [st.sessions EXCEPT ![k] = s]
  BY <1>1, <1>3, PutAgrees
<1>5. \A x \in Keys : Touch(st, k).sessions[x] = IF x = k THEN s ELSE st.sessions[x]
  BY <1>4 DEF Stores
<1>6. QED BY <1>1, <1>2, <1>4, <1>5 DEF Follows

LEMMA FollowsTrans ==
    ASSUME NEW a, NEW b, NEW c, NEW k \in Keys, Follows(a, k, b), Follows(b, k, c)
    PROVE  Follows(a, k, c)
BY DEF Follows

LEMMA ResumeAgrees ==
    ASSUME NEW st \in Stores, Agrees(st), NEW k \in Keys, NEW i \in Ids \cup {NoMessage},
           now \in Times
    PROVE  /\ Resume(st, k, i).store \in Stores
           /\ Agrees(Resume(st, k, i).store)
           /\ Follows(st, k, Resume(st, k, i).store)
           /\ Resume(st, k, i).key \in Keys
           /\ Resume(st, k, i).store.sessions[Resume(st, k, i).key] # NoSession
           /\ Resume(st, k, i).key # k => i \in Ids /\ Resume(st, k, i).key = st.index[i]
<1> DEFINE answered == IF i = NoMessage THEN NoKey ELSE st.index[i]
           replied  == IF answered = NoKey THEN st ELSE Get(st, answered)
           own      == Get(replied, k)
<1>1. answered = NoKey \/ (answered \in Keys /\ i \in Ids /\ answered = st.index[i])
  BY DEF Stores
<1> HIDE DEF answered
<1>2. replied \in Stores /\ Agrees(replied) /\ Follows(st, k, replied)
  <2>1. Follows(st, k, st)
    BY DEF Follows
  <2>2. QED BY <1>1, <2>1, GetAgrees
<1> HIDE DEF replied
<1>3. own \in Stores /\ Agrees(own) /\ Follows(st, k, own)
  BY <1>2, GetAgrees, FollowsTrans
<1> HIDE DEF own
<1>4. CASE answered # NoKey /\ replied.sessions[answered] # NoSession
  <2>1. Resume(st, k, i) = [store |-> Touch(replied, answered), key |-> answered]
    BY <1>4 DEF Resume, replied, answered
  <2>2. /\ Touch(replied, answered) \in Stores /\ Agrees(Touch(replied, answered))
        /\ Follows(replied, k, Touch(replied, answered))
        /\ Touch(replied, answered).sessions[answered] # NoSession
    BY <1>1, <1>2, <1>4, TouchAgrees
  <2>3. Follows(st, k, Touch(replied, answered))
    BY <1>2, <2>2, FollowsTrans
  <2>4. QED BY <1>1, <1>4, <2>1, <2>2, <2>3
<1>5. CASE ~(answered # NoKey /\ replied.sessions[answered] # NoSession)
           /\ own.sessions[k] # NoSession
  <2>1. Resume(st, k, i) = [store |-> Touch(own, k), key |-> k]
    BY <1>5 DEF Resume, replied, answered, own
  <2>2. /\ Touch(own, k) \in Stores /\ Agrees(Touch(own, k))
        /\ Follows(own, k, Touch(own, k)) /\ Touch(own, k).sessions[k] # NoSession
    BY <1>3, <1>5, TouchAgrees
  <2>3. Follows(st, k, Touch(own, k))
    BY <1>3, <2>2, FollowsTrans
  <2>4. QED BY <2>1, <2>2, <2>3
<1>6. CASE ~(answered # NoKey /\ replied.sessions[answered] # NoSession)
           /\ own.sessions[k] = NoSession
  <2>1. Resume(st, k, i) = [store |-> Put(own, k, NewSession), key |-> k]
    BY <1>6 DEF Resume, replied, answered, own
  <2>2. NewSession \in Session /\ NewSession.resp = NoMessage /\ NewSession.turns = {}
    BY DEF NewSession, Session
  <2> DEFINE st2 == Put(own, k, NewSession)
  <2>3. /\ st2 \in Stores /\ Agrees(st2) /\ st2.index = own.index
        /\ st2.sessions = [own.sessions EXCEPT ![k] = NewSession]
    BY <1>3, <1>6, <2>2, PutAgrees
  <2>4. \A x \in Keys : st2.sessions[x] = IF x = k THEN NewSession ELSE own.sessions[x]
    BY <1>3, <2>3 DEF Stores
  <2> HIDE DEF st2
  <2>5. NewSession # NoSession
    BY <2>2, NoneAssumption
  <2>6. Follows(own, k, st2)
    BY <2>2, <2>3, <2>4 DEF Follows
  <2>7. Follows(st, k, st2)
    BY <1>3, <2>6, FollowsTrans
  <2>8. st2.sessions[k] # NoSession
    BY <2>4, <2>5
  <2>9. Resume(st, k, i).store = st2 /\ Resume(st, k, i).key = k
    BY <2>1 DEF st2
  <2>10. QED BY <2>3, <2>7, <2>8, <2>9
<1>7. QED BY <1>4, <1>5, <1>6

LEMMA CleanupAgrees ==
    ASSUME NEW st \in Stores, Agrees(st)
    PROVE  /\ CleanupExpired(st) \in Stores
           /\ Agrees(CleanupExpired(st))
           /\ \A x \in Keys : Follows(st, x, CleanupExpired(st))
<1> DEFINE st2 == CleanupExpired(st)
<1>1. /\ st2.sessions = [k \in Keys |-> IF Expired(st, k) THEN NoSession ELSE st.sessions[k]]
      /\ st2.index = [i \in Ids |->
                        IF \E k \in Keys : Expired(st, k) /\ st.sessions[k].resp = i
                          THEN NoKey ELSE st.index[i]]
      /\ st2 = [sessions |-> st2.sessions, index |-> st2.index]
  BY DEF CleanupExpired
<1> HIDE DEF st2
<1>2. st2 \in Stores
  BY <1>1 DEF Stores
<1>3. Agrees(st2)
  <2> SUFFICES ASSUME NEW i \in Ids, NEW k \in Keys
               PROVE  st2.index[i] = k <=> st2.sessions[k] # NoSession /\ st2.sessions[k].resp = i
    BY DEF Agrees
  <2>1. NoKey \notin Keys
    BY AgentAssumption
  <2>2. \A x \in Keys : st.index[i] = x <=> st.sessions[x] # NoSession /\ st.sessions[x].resp = i
    BY DEF Agrees
  <2>3. \A x \in Keys : Expired(st, x) => st.sessions[x] # NoSession
    BY DEF Expired
  <2>4. CASE \E x \in Keys : Expired(st, x) /\ st.sessions[x].resp = i
    <3>1. PICK x \in Keys : Expired(st, x) /\ st.sessions[x].resp = i
      BY <2>4
    <3>2. st.index[i] = x /\ st2.index[i] = NoKey
      BY <1>1, <2>2, <2>3, <3>1
    <3>3. QED BY <1>1, <2>1, <2>2, <3>1, <3>2
  <2>5. CASE ~\E x \in Keys : Expired(st, x) /\ st.sessions[x].resp = i
    <3>1. st2.index[i] = st.index[i]
      BY <1>1, <2>5
    <3>2. QED BY <1>1, <2>2, <2>5, <3>1
  <2>6. QED BY <2>4, <2>5
<1>4. \A x \in Keys : Follows(st, x, st2)
  BY <1>1 DEF Follows
<1>5. QED BY <1>2, <1>3, <1>4 DEF st2

(* Tracking message i under k, when the index does not lead to another key.*)
LEMMA UpdateAgrees ==
    ASSUME NEW st \in Stores, Agrees(st), NEW k \in Keys, NEW m \in Messages,
           st.index[m] \in {k, NoKey}
    PROVE  /\ UpdateResponseId(st, k, m) \in Stores
           /\ Agrees(UpdateResponseId(st, k, m))
           /\ \A j \in Ids : UpdateResponseId(st, k, m).index[j] \in {st.index[j], NoKey}
                             \/ (j = m /\ UpdateResponseId(st, k, m).index[j] = k)
           /\ \A x \in Keys : UpdateResponseId(st, k, m).sessions[x] # NoSession =>
                 /\ st.sessions[x] # NoSession
                 /\ UpdateResponseId(st, k, m).sessions[x].turns = st.sessions[x].turns
<1>1. CASE st.sessions[k] = NoSession
  BY <1>1 DEF UpdateResponseId
<1>2. CASE st.sessions[k] # NoSession
  <2> DEFINE st2 == UpdateResponseId(st, k, m)
             old == st.sessions[k].resp
             new == [st.sessions[k] EXCEPT !.resp = m]
  <2>0. m \in Ids
    BY DEF Ids
  <2>1. /\ st2.sessions = [st.sessions EXCEPT ![k].resp = m]
        /\ st2.index = [Unindex(st, old) EXCEPT ![m] = k]
        /\ st2 = [sessions |-> st2.sessions, index |-> st2.index]
    BY <1>2 DEF UpdateResponseId
  <2>2. new \in Session /\ new.resp = m /\ new.turns = st.sessions[k].turns /\ new # NoSession
    BY <1>2, RespType, NoneAssumption DEF Session
  <2>3. \A x \in Keys : st2.sessions[x] = IF x = k THEN new ELSE st.sessions[x]
    BY <2>1 DEF Stores
  <2>4. st2.sessions \in [Keys -> Session \cup {NoSession}]
    BY <2>1, <2>2 DEF Stores
  <2>5. Unindex(st, old) \in [Ids -> Keys \cup {NoKey}]
    BY DEF Unindex, Stores
  <2>6. \A j \in Ids : Unindex(st, old)[j] = IF j = old THEN NoKey ELSE st.index[j]
    BY <1>2, RespType DEF Unindex, Stores
  <2>7. \A j \in Ids : st2.index[j] = IF j = m THEN k ELSE IF j = old THEN NoKey ELSE st.index[j]
    BY <2>0, <2>1, <2>5, <2>6
  <2>8. st2 \in Stores
    BY <2>1, <2>4, <2>5 DEF Stores
  <2> HIDE DEF st2, new, old
  <2>9. Agrees(st2)
    <3> SUFFICES ASSUME NEW i \in Ids, NEW x \in Keys
                 PROVE  st2.index[i] = x <=> st2.sessions[x] # NoSession /\ st2.sessions[x].resp = i
      BY DEF Agrees
    <3>1. NoKey \notin Keys
      BY AgentAssumption
    <3>2. \A j \in Ids, y \in Keys :
             st.index[j] = y <=> st.sessions[y] # NoSession /\ st.sessions[y].resp = j
      BY DEF Agrees
    <3>3. QED BY <1>2, <2>0, <2>2, <2>3, <2>7, <3>1, <3>2 DEF old
  <2>10. QED BY <1>2, <2>2, <2>3, <2>7, <2>8, <2>9 DEF st2
<1>3. QED BY <1>1, <1>2
-----------------------------------------------------------------------------
(* A message that has become a command stays the same command.             *)
KeysKept ==
    \A m \in Messages : key[m] # NoKey => key'[m] = key[m] /\ msg'[m] = msg[m]

LEMMA ClosedBefore ==
    ASSUME KeysKept, NEW C \in SUBSET Messages, Closed(C)'
    PROVE  Closed(C)
BY DEF KeysKept, Closed

LEMMA StoreTyped ==
    ASSUME AInv
    PROVE  store \in Stores /\ Agrees(store) /\ now \in Times /\ NoKey \notin Keys
BY AgentAssumption DEF AInv, TypeOK, Stores, IndexAgrees, Agrees

(* A step in which the store only follows a call under the key k of a      *)
(* command keeps the parts of the invariant that are about the store.      *)
LEMMA StoreStep ==
    ASSUME AInv, KeysKept, NEW k \in Keys, Follows(store, k, store'),
           \E m \in Messages : key'[m] = k
    PROVE  /\ IndexKeyInv'
           /\ OwnedInv'
           /\ \A C \in SUBSET Messages : Closed(C)' =>
                 \A x \in Keys : store'.sessions[x] # NoSession =>
                    \A t \in store'.sessions[x].turns :
                       key'[t] # NoKey /\ \A m \in Messages : key'[m] = x => (m \in C <=> t \in C)
<1>0. NoKey \notin Keys
  BY AgentAssumption
<1>1. IndexKeyInv'
  <2> SUFFICES ASSUME NEW i \in Ids, NEW x \in Keys, store'.index[i] = x
               PROVE  i \in Messages /\ key'[i] = x
    BY DEF IndexKeyInv
  <2>1. store.index[i] = x
    BY <1>0 DEF Follows
  <2>2. i \in Messages /\ key[i] = x
    BY <2>1 DEF AInv, IndexKeyInv
  <2>3. QED BY <1>0, <2>2 DEF KeysKept
<1>2. OwnedInv'
  <2> SUFFICES ASSUME NEW x \in Keys, store'.sessions[x] # NoSession
               PROVE  \E m \in Messages : key'[m] = x
    BY DEF OwnedInv
  <2>1. CASE x = k
    BY <2>1
  <2>2. CASE x # k
    <3>1. PICK m \in Messages : key[m] = x
      BY <2>2 DEF Follows, AInv, OwnedInv
    <3>2. QED BY <1>0, <3>1 DEF KeysKept
  <2>3. QED BY <2>1, <2>2
<1>3. ASSUME NEW C \in SUBSET Messages, Closed(C)',
             NEW x \in Keys, store'.sessions[x] # NoSession,
             NEW t \in store'.sessions[x].turns
      PROVE  key'[t] # NoKey /\ \A m \in Messages : key'[m] = x => (m \in C <=> t \in C)
  <2>1. store.sessions[x] # NoSession /\ t \in store.sessions[x].turns
    BY <1>3 DEF Follows
  <2>2. Closed(C)
    BY <1>3, ClosedBefore
  <2>3. /\ key[t] # NoKey
        /\ \A m \in Messages : key[m] = x => (m \in C <=> t \in C)
    BY <2>1, <2>2 DEF AInv, TogetherInv
  <2>4. t \in Messages
    BY <2>1 DEF AInv, TypeOK, Session
  <2>5. PICK q \in Messages : key[q] = x
    BY <2>1 DEF AInv, OwnedInv
  <2>6. key'[q] = x /\ key'[t] # NoKey
    BY <1>0, <2>3, <2>4, <2>5 DEF KeysKept
  <2>7. ASSUME NEW m \in Messages, key'[m] = x PROVE m \in C <=> t \in C
    <3>1. m \in C <=> q \in C
      BY <1>0, <1>3, <2>6, <2>7 DEF Closed
    <3>2. QED BY <2>3, <2>5, <3>1
  <2>8. QED BY <2>6, <2>7
<1>4. QED BY <1>1, <1>2, <1>3

(* The part of TogetherInv that is about jobs, when no job is added.       *)
LEMMA JobsStep ==
    ASSUME AInv, KeysKept,
           \A d \in Deliveries : jobs'[d] # NoJob =>
              jobs[d] # NoJob /\ jobs'[d].history = jobs[d].history
    PROVE  \A C \in SUBSET Messages : Closed(C)' =>
              \A d \in Deliveries : jobs'[d] # NoJob =>
                 \A t \in jobs'[d].history : key'[t] # NoKey /\ (d[1] \in C <=> t \in C)
<1> SUFFICES ASSUME NEW C \in SUBSET Messages, Closed(C)', NEW d \in Deliveries,
                    jobs'[d] # NoJob, NEW t \in jobs'[d].history
             PROVE  key'[t] # NoKey /\ (d[1] \in C <=> t \in C)
  OBVIOUS
<1>1. Closed(C) /\ jobs[d] # NoJob /\ t \in jobs[d].history
  BY ClosedBefore
<1>2. key[t] # NoKey /\ (d[1] \in C <=> t \in C)
  BY <1>1 DEF AInv, TogetherInv
<1>3. t \in Messages
  BY <1>1 DEF AInv, TypeOK, Job
<1>4. QED BY <1>2, <1>3 DEF KeysKept

(* A step that starts no session and makes no command.                     *)
LEMMA QuietStep ==
    ASSUME AInv, KeysKept, key' = key, store' \in Stores, Agrees(store'),
           Shrinks(store, store'),
           \A d \in Deliveries : jobs'[d] # NoJob =>
              jobs[d] # NoJob /\ jobs'[d].history = jobs[d].history
    PROVE  IndexAgrees' /\ KeyInv' /\ IndexKeyInv' /\ TogetherInv' /\ OwnedInv'
<1>1. NoKey \notin Keys
  BY AgentAssumption
<1>2. IndexAgrees'
  BY DEF IndexAgrees, Agrees
<1>3. KeyInv'
  BY DEF AInv, KeyInv, KeysKept, ReplyTo
<1>4. IndexKeyInv'
  BY <1>1 DEF AInv, IndexKeyInv, Shrinks
<1>5. OwnedInv'
  BY DEF AInv, OwnedInv, Shrinks
<1>6. ASSUME NEW C \in SUBSET Messages, Closed(C)',
             NEW k \in Keys, store'.sessions[k] # NoSession,
             NEW t \in store'.sessions[k].turns
      PROVE  key'[t] # NoKey /\ \A m \in Messages : key'[m] = k => (m \in C <=> t \in C)
  <2>1. store.sessions[k] # NoSession /\ t \in store.sessions[k].turns
    BY <1>6 DEF Shrinks
  <2>2. QED BY <1>6, <2>1, ClosedBefore DEF AInv, TogetherInv
<1>7. TogetherInv'
  BY <1>6, JobsStep DEF TogetherInv
<1>8. QED BY <1>2, <1>3, <1>4, <1>5, <1>7
-----------------------------------------------------------------------------
(* preexecute of message m, as its delivery n, with session key k and      *)
(* replying to i.                                                          *)
LEMMA PreexecuteStep ==
    ASSUME AInv, NEW m \in Messages, NEW n \in 1..MaxDeliveries, NEW k \in Keys,
           NEW i \in Ids \cup {NoMessage}, Preexecute(m, n, k, i),
           key' = [key EXCEPT ![m] = k], KeysKept, msg'[m].ref = i
    PROVE  /\ store' \in Stores /\ Agrees(store')
           /\ futures' \in [Messages -> 0..MaxDeliveries]
           /\ jobs' \in [Deliveries -> Job \cup {NoJob}]
           /\ chain' \in [Deliveries -> 0..TimeoutPolls \cup {NoChain}]
           /\ outcome' \in [Deliveries -> Outcomes]
           /\ IndexKeyInv' /\ OwnedInv' /\ JobInv' /\ TogetherInv'
<1> DEFINE cleaned == CleanupExpired(store)
           resumed == Resume(cleaned, k, i)
<1>0. store \in Stores /\ Agrees(store) /\ now \in Times /\ NoKey \notin Keys
  BY StoreTyped
<1>1. cleaned \in Stores /\ Agrees(cleaned) /\ Follows(store, k, cleaned)
  BY <1>0, CleanupAgrees
<1> HIDE DEF cleaned
<1>2. /\ resumed.store \in Stores /\ Agrees(resumed.store)
      /\ Follows(cleaned, k, resumed.store) /\ resumed.key \in Keys
      /\ resumed.store.sessions[resumed.key] # NoSession
      /\ resumed.key # k => i \in Ids /\ resumed.key = cleaned.index[i]
  BY <1>0, <1>1, ResumeAgrees
<1>3. Follows(store, k, resumed.store)
  BY <1>1, <1>2, FollowsTrans
<1>4. <<m, n>> \in Deliveries /\ n # 0 /\ n \in 0..MaxDeliveries /\ 0 \in 0..TimeoutPolls
  BY AgentAssumption DEF Deliveries
<1> HIDE DEF resumed
<1>5. /\ \E q \in Messages : key'[q] = k
      /\ key'[m] = k
      /\ \A q \in Messages : key[q] # NoKey => key'[q] # NoKey
  BY DEF AInv, TypeOK, KeysKept
<1>6. /\ futures \in [Messages -> 0..MaxDeliveries]
      /\ jobs \in [Deliveries -> Job \cup {NoJob}]
      /\ chain \in [Deliveries -> 0..TimeoutPolls \cup {NoChain}]
      /\ outcome \in [Deliveries -> Outcomes]
      /\ JobInv
  BY DEF AInv, TypeOK
<1>7. CASE Submit(m, n, k, i)
  <2> DEFINE job == [history |-> resumed.store.sessions[resumed.key].turns, state |-> "queued"]
  <2>1. /\ store' = resumed.store
        /\ futures' = [futures EXCEPT ![m] = n]
        /\ jobs' = [jobs EXCEPT ![<<m, n>>] = job]
        /\ chain' = [chain EXCEPT ![<<m, n>>] = 0]
        /\ outcome' = outcome
    BY <1>7 DEF Submit, resumed, cleaned
  <2>2. job \in Job /\ job # NoJob
    <3>1. resumed.store.sessions[resumed.key].turns \in SUBSET Messages
      BY <1>2 DEF Stores, Session
    <3>2. job \in Job
      BY <3>1 DEF Job
    <3>3. QED BY <3>2, NoneAssumption
  <2>3. job.history = resumed.store.sessions[resumed.key].turns
    OBVIOUS
  <2> HIDE DEF job
  <2>4. /\ futures' \in [Messages -> 0..MaxDeliveries]
        /\ jobs' \in [Deliveries -> Job \cup {NoJob}]
        /\ chain' \in [Deliveries -> 0..TimeoutPolls \cup {NoChain}]
        /\ outcome' \in [Deliveries -> Outcomes]
    BY <1>4, <1>6, <2>1, <2>2
  <2>5. JobInv'
    <3> SUFFICES ASSUME NEW q \in Messages
                 PROVE  /\ futures'[q] # 0 => jobs'[<<q, futures'[q]>>] # NoJob /\ key'[q] # NoKey
                        /\ \A p \in 1..MaxDeliveries :
                             chain'[<<q, p>>] # NoChain \/ jobs'[<<q, p>>] # NoJob => key'[q] # NoKey
      BY DEF JobInv
    <3>1. CASE q = m
      BY <1>0, <1>4, <1>5, <1>6, <2>1, <2>2, <3>1
    <3>2. CASE q # m
      <4>1. \A p \in 1..MaxDeliveries : /\ <<q, p>> # <<m, n>> /\ <<q, p>> \in Deliveries
                                         /\ chain'[<<q, p>>] = chain[<<q, p>>]
                                         /\ jobs'[<<q, p>>] = jobs[<<q, p>>]
        BY <1>6, <2>1, <3>2 DEF Deliveries
      <4>2. futures'[q] = futures[q] /\ (futures[q] # 0 => futures[q] \in 1..MaxDeliveries)
        BY <1>6, <2>1, <3>2, AgentAssumption
      <4>3. QED BY <1>5, <1>6, <4>1, <4>2 DEF JobInv
    <3>3. QED BY <3>1, <3>2
  <2>6. /\ IndexKeyInv' /\ OwnedInv'
        /\ \A C \in SUBSET Messages : Closed(C)' =>
              \A x \in Keys : store'.sessions[x] # NoSession =>
                 \A t \in store'.sessions[x].turns :
                    key'[t] # NoKey /\ \A q \in Messages : key'[q] = x => (q \in C <=> t \in C)
    BY <1>3, <1>5, <2>1, StoreStep
  <2>7. ASSUME NEW C \in SUBSET Messages, Closed(C)',
               NEW d \in Deliveries, jobs'[d] # NoJob, NEW t \in jobs'[d].history
        PROVE  key'[t] # NoKey /\ (d[1] \in C <=> t \in C)
    <3>1. CASE d = <<m, n>>
      <4>1. t \in store'.sessions[resumed.key].turns
        BY <1>4, <1>6, <2>1, <2>3, <2>7, <3>1
      <4>2. /\ key'[t] # NoKey
            /\ \A q \in Messages : key'[q] = resumed.key => (q \in C <=> t \in C)
        BY <1>2, <2>1, <2>6, <2>7, <4>1
      <4>3. CASE resumed.key = k
        BY <1>5, <3>1, <4>2, <4>3
      <4>4. CASE resumed.key # k
        <5>1. i \in Ids /\ store.index[i] = resumed.key
          BY <1>0, <1>1, <1>2, <4>4 DEF Follows
        <5>2. i \in Messages /\ key[i] = resumed.key
          BY <1>2, <5>1 DEF AInv, IndexKeyInv
        <5>3. key'[i] = resumed.key
          BY <1>0, <1>2, <5>2 DEF KeysKept
        <5>4. m \in C <=> i \in C
          BY <1>0, <1>2, <1>5, <2>7, <5>2, <5>3 DEF Closed
        <5>5. QED BY <3>1, <4>2, <5>2, <5>3, <5>4
      <4>5. QED BY <4>3, <4>4
    <3>2. CASE d # <<m, n>>
      <4>1. jobs[d] # NoJob /\ t \in jobs[d].history
        BY <1>6, <2>1, <2>7, <3>2
      <4>2. key[t] # NoKey /\ (d[1] \in C <=> t \in C)
        BY <2>7, <4>1, ClosedBefore DEF AInv, TogetherInv
      <4>3. t \in Messages
        BY <1>6, <4>1 DEF Job
      <4>4. QED BY <1>5, <4>2, <4>3
    <3>3. QED BY <3>1, <3>2
  <2>8. TogetherInv'
    BY <2>6, <2>7 DEF TogetherInv
  <2>9. QED BY <1>2, <2>1, <2>4, <2>5, <2>6, <2>8
<1>8. CASE Join(m, n) \/ BuildFails(m, n)
  <2>1. /\ store' = cleaned /\ UNCHANGED <<futures, jobs>>
        /\ \/ chain' = [chain EXCEPT ![<<m, n>>] = 0] /\ outcome' = outcome
           \/ chain' = chain /\ outcome' = [outcome EXCEPT ![<<m, n>>] = "error"]
    BY <1>8 DEF Join, BuildFails, cleaned
  <2>2. /\ chain' \in [Deliveries -> 0..TimeoutPolls \cup {NoChain}]
        /\ outcome' \in [Deliveries -> Outcomes]
    BY <1>4, <1>6, <2>1 DEF Outcomes
  <2>3. JobInv'
    <3> SUFFICES ASSUME NEW q \in Messages
                 PROVE  /\ futures[q] # 0 => jobs[<<q, futures[q]>>] # NoJob /\ key'[q] # NoKey
                        /\ \A p \in 1..MaxDeliveries :
                             chain'[<<q, p>>] # NoChain \/ jobs[<<q, p>>] # NoJob => key'[q] # NoKey
      BY <2>1 DEF JobInv
    <3>1. \A p \in 1..MaxDeliveries : q # m => chain'[<<q, p>>] = chain[<<q, p>>]
      BY <1>6, <2>1 DEF Deliveries
    <3>2. QED BY <1>0, <1>5, <1>6, <3>1 DEF JobInv
  <2>4. /\ IndexKeyInv' /\ OwnedInv'
        /\ \A C \in SUBSET Messages : Closed(C)' =>
              \A x \in Keys : store'.sessions[x] # NoSession =>
                 \A t \in store'.sessions[x].turns :
                    key'[t] # NoKey /\ \A q \in Messages : key'[q] = x => (q \in C <=> t \in C)
    BY <1>1, <1>5, <2>1, StoreStep
  <2>5. TogetherInv'
    BY <2>1, <2>4, JobsStep DEF TogetherInv
  <2>6. QED BY <1>1, <1>6, <2>1, <2>2, <2>3, <2>4, <2>5
<1>9. QED BY <1>7, <1>8 DEF Preexecute
-----------------------------------------------------------------------------
(* The adapter delivers message m.                                         *)
LEMMA ReceiveStep ==
    ASSUME AInv, NEW m \in Messages, NEW r \in Incoming, Receive(m, r)
    PROVE  AInv'
<1> DEFINE n == delivered[m] + 1
<1>1. /\ n \in 1..MaxDeliveries
      /\ delivered' \in [Messages -> 0..MaxDeliveries]
      /\ now' = now /\ restarts' = restarts
      /\ msg' = [msg EXCEPT ![m] = r]
      /\ msg[m] # NoMessage => msg[m] = r
  BY AgentAssumption DEF Receive, AInv, TypeOK
<1>2. /\ r.verb \in Commands \cup {NoCommand} /\ r.who \in People
      /\ r.ref \in Ids \cup {NoMessage} /\ r # NoMessage /\ r \in Incoming
  BY NoneAssumption DEF Incoming
<1>3. /\ msg \in [Messages -> Incoming \cup {NoMessage}] /\ msg'[m] = r
      /\ msg' \in [Messages -> Incoming \cup {NoMessage}]
      /\ \A q \in Messages : q # m => msg'[q] = msg[q]
  BY <1>1, <1>2 DEF AInv, TypeOK
<1>4. key \in [Messages -> Keys \cup {NoKey}] /\ KeyInv /\ IndexKeyInv /\ NoKey \notin Keys
  BY AgentAssumption DEF AInv, TypeOK
<1> HIDE DEF n
<1>5. ASSUME NEW k \in Keys, key' = [key EXCEPT ![m] = k], Preexecute(m, n, k, r.ref),
             key[m] # NoKey => key[m] = k,
             IF r.verb # NoCommand THEN k = <<r.verb, r.who>>
             ELSE \E x \in Keys : /\ k = <<x[1], r.who>> /\ ReplyTo(r) \in Messages
                                  /\ key[ReplyTo(r)] = x
      PROVE  AInv'
  <2>1. /\ key' \in [Messages -> Keys \cup {NoKey}] /\ key'[m] = k
        /\ \A q \in Messages : q # m => key'[q] = key[q]
    BY <1>4, <1>5
  <2>2. KeysKept
    <3> SUFFICES ASSUME NEW q \in Messages, key[q] # NoKey
                 PROVE  key'[q] = key[q] /\ msg'[q] = msg[q]
      BY DEF KeysKept
    <3>1. msg[q] # NoMessage
      BY <1>4 DEF KeyInv
    <3>2. QED BY <1>1, <1>3, <1>5, <2>1, <3>1
  <2>3. KeyInv'
    <3> SUFFICES ASSUME NEW q \in Messages, key'[q] # NoKey
                 PROVE  /\ msg'[q] # NoMessage
                        /\ IF msg'[q].verb # NoCommand THEN key'[q] = <<msg'[q].verb, msg'[q].who>>
                           ELSE /\ ReplyTo(msg'[q]) \in Messages
                                /\ key'[ReplyTo(msg'[q])] # NoKey
                                /\ key'[q] = <<key'[ReplyTo(msg'[q])][1], msg'[q].who>>
      BY DEF KeyInv, ReplyTo
    <3>1. CASE q = m
      BY <1>2, <1>3, <1>4, <1>5, <2>1, <2>2, <3>1 DEF KeysKept
    <3>2. CASE q # m
      BY <1>3, <1>4, <2>1, <2>2, <3>2 DEF KeyInv, KeysKept
    <3>3. QED BY <3>1, <3>2
  <2>4. /\ store' \in Stores /\ Agrees(store')
        /\ futures' \in [Messages -> 0..MaxDeliveries]
        /\ jobs' \in [Deliveries -> Job \cup {NoJob}]
        /\ chain' \in [Deliveries -> 0..TimeoutPolls \cup {NoChain}]
        /\ outcome' \in [Deliveries -> Outcomes]
        /\ IndexKeyInv' /\ OwnedInv' /\ JobInv' /\ TogetherInv'
    BY <1>1, <1>2, <1>3, <1>5, <2>2, PreexecuteStep
  <2>5. TypeOK'
    BY <1>1, <1>3, <2>1, <2>4 DEF AInv, TypeOK, Stores
  <2>6. IndexAgrees'
    BY <2>4 DEF IndexAgrees, Agrees
  <2>7. QED BY <2>3, <2>4, <2>5, <2>6 DEF AInv
<1>6. CASE TakeCommand(m, n, r)
  <2>1. <<r.verb, r.who>> \in Keys /\ r.verb # NoCommand
    BY <1>2, <1>6 DEF Keys, TakeCommand
  <2>2. key[m] # NoKey => key[m] = <<r.verb, r.who>>
    BY <1>1, <1>4, <2>1 DEF KeyInv
  <2>3. QED BY <1>5, <1>6, <2>1, <2>2 DEF TakeCommand
<1>7. CASE TakeReply(m, n, r)
  <2>1. PICK x \in SessionsOf(ReplyTo(r)) :
               /\ key' = [key EXCEPT ![m] = <<x[1], r.who>>]
               /\ Preexecute(m, n, <<x[1], r.who>>, r.ref)
    BY <1>7 DEF TakeReply
  <2>2. x \in Keys /\ ReplyTo(r) # NoMessage /\ store.index[ReplyTo(r)] = x
    BY DEF SessionsOf
  <2>3. ReplyTo(r) \in Ids
    BY <2>2 DEF Incoming, ReplyTo
  <2>4. ReplyTo(r) \in Messages /\ key[ReplyTo(r)] = x
    BY <1>4, <2>2, <2>3 DEF IndexKeyInv
  <2>5. <<x[1], r.who>> \in Keys /\ r.verb = NoCommand
    BY <1>2, <1>7, <2>2 DEF Keys, TakeReply
  <2>6. key[m] # NoKey => key[m] = <<x[1], r.who>>
    BY <1>1, <1>4, <2>4, <2>5 DEF KeyInv
  <2>7. QED BY <1>5, <2>1, <2>2, <2>4, <2>5, <2>6
<1>8. CASE ShowHelp(m, n, r)
  <2>1. key' = key /\ futures' = futures /\ jobs' = jobs /\ chain' = chain
        /\ outcome' = [outcome EXCEPT ![<<m, n>>] = "help"]
    BY <1>8 DEF ShowHelp
  <2>2. KeysKept
    <3> SUFFICES ASSUME NEW q \in Messages, key[q] # NoKey PROVE msg'[q] = msg[q]
      BY <2>1 DEF KeysKept
    <3>1. msg[q] # NoMessage
      BY <1>4 DEF KeyInv
    <3>2. QED BY <1>1, <1>3, <3>1
  <2>3. store' \in Stores /\ Agrees(store') /\ Shrinks(store, store')
    <3>1. CASE \E k \in Keys : ReplyTo(r) # NoMessage /\ store.index[ReplyTo(r)] = k
      <4>1. PICK k \in Keys : ReplyTo(r) # NoMessage /\ store.index[ReplyTo(r)] = k
        BY <3>1
      <4>2. ReplyTo(r) \in Ids
        BY <4>1 DEF Incoming, ReplyTo
      <4>3. store.sessions[k] # NoSession
        BY <4>1, <4>2 DEF AInv, IndexAgrees
      <4>4. store' = Remove(store, k)
        BY <1>8, <4>1 DEF ShowHelp
      <4>5. QED BY <4>3, <4>4, StoreTyped, RemoveAgrees
    <3>2. CASE ~\E k \in Keys : ReplyTo(r) # NoMessage /\ store.index[ReplyTo(r)] = k
      <4>1. store' = store
        BY <1>8, <3>2 DEF ShowHelp
      <4>2. QED BY <4>1, StoreTyped DEF Shrinks
    <3>3. QED BY <3>1, <3>2
  <2>4. IndexAgrees' /\ KeyInv' /\ IndexKeyInv' /\ TogetherInv' /\ OwnedInv'
    BY <2>1, <2>2, <2>3, QuietStep
  <2>5. JobInv'
    BY <2>1 DEF AInv, JobInv
  <2>6. outcome' \in [Deliveries -> Outcomes]
    BY <2>1 DEF AInv, TypeOK, Outcomes
  <2>7. TypeOK'
    BY <1>1, <1>3, <2>1, <2>3, <2>6 DEF AInv, TypeOK, Stores
  <2>8. QED BY <2>4, <2>5, <2>7 DEF AInv
<1>9. QED BY <1>6, <1>7, <1>8 DEF Receive, n
-----------------------------------------------------------------------------
(* The answer to message m goes into the session it resumes.               *)
LEMMA RecordStep ==
    ASSUME AInv, NEW m \in Messages, key[m] # NoKey, futures[m] # 0,
           store' = Record(m), UNCHANGED <<msg, key, jobs>>
    PROVE  /\ store' \in Stores /\ Agrees(store')
           /\ IndexAgrees' /\ KeyInv' /\ IndexKeyInv' /\ TogetherInv' /\ OwnedInv'
<1> DEFINE resumed == Resume(store, key[m], msg[m].ref)
           turns   == jobs[FutureOf(m)].history \cup {m}
           x       == resumed.key
           s       == [resumed.store.sessions[x] EXCEPT !.turns = turns, !.active = now]
           kept    == Put(resumed.store, x, s)
<1>0. store \in Stores /\ Agrees(store) /\ now \in Times /\ NoKey \notin Keys
  BY StoreTyped
<1>1. /\ key \in [Messages -> Keys \cup {NoKey}] /\ key[m] \in Keys
      /\ msg[m] # NoMessage /\ msg[m].ref \in Ids \cup {NoMessage}
  BY DEF AInv, TypeOK, KeyInv, Incoming
<1>2. /\ resumed.store \in Stores /\ Agrees(resumed.store)
      /\ Follows(store, key[m], resumed.store) /\ x \in Keys
      /\ resumed.store.sessions[x] # NoSession
      /\ x # key[m] => msg[m].ref \in Ids /\ x = store.index[msg[m].ref]
  BY <1>0, <1>1, ResumeAgrees
<1>3. /\ FutureOf(m) \in Deliveries /\ FutureOf(m)[1] = m /\ jobs[FutureOf(m)] # NoJob
      /\ jobs[FutureOf(m)] \in Job
  <2>1. futures[m] \in 1..MaxDeliveries
    BY AgentAssumption DEF AInv, TypeOK
  <2>2. QED BY <2>1 DEF FutureOf, Deliveries, AInv, TypeOK, JobInv
<1>4. turns \in SUBSET Messages
  BY <1>3 DEF Job
<1>5. store' = UpdateResponseId(kept, key[m], m)
  BY DEF Record
<1> HIDE DEF resumed, turns, x
<1>6. s \in Session /\ s.turns = turns /\ s.resp = resumed.store.sessions[x].resp
  <2>1. resumed.store.sessions[x] \in Session
    BY <1>2, RespType
  <2>2. QED BY <1>0, <1>4, <2>1 DEF Session
<1> HIDE DEF s
<1>7. /\ kept \in Stores /\ Agrees(kept) /\ kept.index = resumed.store.index
      /\ kept.sessions = [resumed.store.sessions EXCEPT ![x] = s]
  BY <1>2, <1>6, PutAgrees
<1> HIDE DEF kept
<1>8. \A y \in Keys : kept.sessions[y] = IF y = x THEN s ELSE resumed.store.sessions[y]
  BY <1>2, <1>7 DEF Stores
<1>9. \A i \in Ids : kept.index[i] \in {store.index[i], NoKey}
  BY <1>2, <1>7 DEF Follows
<1>10. m \in Ids /\ (store.index[m] = key[m] \/ store.index[m] = NoKey)
  BY <1>0 DEF Ids, AInv, IndexKeyInv, Stores
<1>11. /\ store' \in Stores /\ Agrees(store')
       /\ \A j \in Ids : store'.index[j] \in {kept.index[j], NoKey}
                         \/ (j = m /\ store'.index[j] = key[m])
       /\ \A y \in Keys : store'.sessions[y] # NoSession =>
             kept.sessions[y] # NoSession /\ store'.sessions[y].turns = kept.sessions[y].turns
  <2>1. kept.index[m] \in {key[m], NoKey}
    BY <1>9, <1>10
  <2> DEFINE st2 == UpdateResponseId(kept, key[m], m)
  <2>2. /\ st2 \in Stores /\ Agrees(st2)
        /\ \A j \in Ids : st2.index[j] \in {kept.index[j], NoKey}
                          \/ (j = m /\ st2.index[j] = key[m])
        /\ \A y \in Keys : st2.sessions[y] # NoSession =>
              kept.sessions[y] # NoSession /\ st2.sessions[y].turns = kept.sessions[y].turns
    <3>1. kept \in Stores /\ Agrees(kept)
      BY <1>7
    <3>2. key[m] \in Keys
      BY <1>1
    <3>3. QED BY <2>1, <3>1, <3>2, UpdateAgrees, ZenonT(30)
  <2> HIDE DEF st2
  <2>3. store' = st2
    BY <1>5 DEF st2
  <2>4. QED BY <2>2, <2>3
<1>12. KeysKept
  BY DEF KeysKept
<1>13. IndexAgrees' /\ KeyInv'
  <2>1. IndexAgrees'
    BY <1>11 DEF IndexAgrees, Agrees
  <2>2. KeyInv'
    BY DEF AInv, KeyInv, ReplyTo
  <2>3. QED BY <2>1, <2>2
<1>14. IndexKeyInv'
  <2> SUFFICES ASSUME NEW j \in Ids, NEW k \in Keys, store'.index[j] = k
               PROVE  j \in Messages /\ key[j] = k
    BY DEF IndexKeyInv
  <2>1. CASE j = m /\ store'.index[j] = key[m]
    BY <2>1
  <2>2. CASE store.index[j] = k
    BY <2>2 DEF AInv, IndexKeyInv
  <2>3. QED BY <1>0, <1>9, <1>11, <2>1, <2>2
(* Every session left, except the one answered, is as it was or is fresh.  *)
<1>15. ASSUME NEW y \in Keys, store'.sessions[y] # NoSession
       PROVE  \/ y = x /\ store'.sessions[y].turns = turns
              \/ store.sessions[y] # NoSession /\ store'.sessions[y].turns = store.sessions[y].turns
              \/ y = key[m] /\ store'.sessions[y].turns = {}
  <2>1. kept.sessions[y] # NoSession /\ store'.sessions[y].turns = kept.sessions[y].turns
    BY <1>11, <1>15
  <2>2. CASE y = x
    BY <1>6, <1>8, <2>1, <2>2
  <2>3. CASE y # x
    BY <1>2, <1>8, <2>1, <2>3 DEF Follows
  <2>4. QED BY <2>2, <2>3
<1>16. x = key[m] \/ (msg[m].ref \in Messages /\ key[msg[m].ref] = x)
  BY <1>2 DEF AInv, IndexKeyInv
<1>17. OwnedInv'
  <2> SUFFICES ASSUME NEW y \in Keys, store'.sessions[y] # NoSession
               PROVE  \E q \in Messages : key[q] = y
    BY DEF OwnedInv
  <2>1. CASE y = x
    BY <1>16, <2>1
  <2>2. CASE y # x
    BY <1>15, <2>2 DEF AInv, OwnedInv
  <2>3. QED BY <2>1, <2>2
<1>18. ASSUME NEW C \in SUBSET Messages, Closed(C)',
              NEW y \in Keys, store'.sessions[y] # NoSession,
              NEW t \in store'.sessions[y].turns
       PROVE  key'[t] # NoKey /\ \A q \in Messages : key'[q] = y => (q \in C <=> t \in C)
  <2>1. Closed(C)
    BY <1>12, <1>18, ClosedBefore
  <2>2. CASE y = x /\ t \in turns
    <3>1. key[t] # NoKey /\ (m \in C <=> t \in C)
      <4>1. CASE t = m
        BY <4>1
      <4>2. CASE t \in jobs[FutureOf(m)].history
        BY <1>3, <2>1, <4>2 DEF AInv, TogetherInv
      <4>3. QED BY <2>2, <4>1, <4>2 DEF turns
    <3>2. ASSUME NEW q \in Messages, key[q] = x PROVE q \in C <=> m \in C
      BY <1>0, <1>2, <1>16, <2>1, <3>2 DEF Closed
    <3>3. QED BY <2>2, <3>1, <3>2
  <2>3. CASE store.sessions[y] # NoSession /\ t \in store.sessions[y].turns
    BY <2>1, <2>3 DEF AInv, TogetherInv
  <2>4. QED BY <1>15, <1>18, <2>2, <2>3
<1>19. TogetherInv'
  BY <1>12, <1>18, JobsStep DEF TogetherInv
<1>20. QED BY <1>11, <1>13, <1>14, <1>17, <1>19

(* The parts of the invariant that the store has no part in, for a step    *)
(* that may end or go on with polls and forget futures.                    *)
LEMMA PollsStep ==
    ASSUME AInv, UNCHANGED key,
           \A m \in Messages : futures'[m] \in {0, futures[m]},
           \A d \in Deliveries : /\ chain'[d] # NoChain => chain[d] # NoChain
                                 /\ jobs'[d] # NoJob <=> jobs[d] # NoJob
    PROVE  JobInv'
<1> SUFFICES ASSUME NEW m \in Messages
             PROVE  /\ futures'[m] # 0 => jobs'[<<m, futures'[m]>>] # NoJob /\ key[m] # NoKey
                    /\ \A n \in 1..MaxDeliveries :
                         chain'[<<m, n>>] # NoChain \/ jobs'[<<m, n>>] # NoJob => key[m] # NoKey
  BY DEF JobInv
<1>1. \A n \in 1..MaxDeliveries : <<m, n>> \in Deliveries
  BY DEF Deliveries
<1>2. futures[m] # 0 => futures[m] \in 1..MaxDeliveries
  BY AgentAssumption DEF AInv, TypeOK
<1>3. QED BY <1>1, <1>2 DEF AInv, JobInv
-----------------------------------------------------------------------------
(* A poll that leaves the store alone.                                     *)
LEMMA IdleStep ==
    ASSUME AInv, UNCHANGED <<now, store, msg, key, delivered, restarts>>,
           \A m \in Messages : futures'[m] \in {0, futures[m]},
           futures' \in [Messages -> 0..MaxDeliveries],
           jobs' \in [Deliveries -> Job \cup {NoJob}],
           chain' \in [Deliveries -> 0..TimeoutPolls \cup {NoChain}],
           outcome' \in [Deliveries -> Outcomes],
           \A d \in Deliveries : /\ chain'[d] # NoChain => chain[d] # NoChain
                                 /\ jobs'[d] # NoJob <=> jobs[d] # NoJob
                                 /\ jobs[d] # NoJob => jobs'[d].history = jobs[d].history
    PROVE  AInv'
<1>1. KeysKept /\ store' \in Stores /\ Agrees(store') /\ Shrinks(store, store')
  BY StoreTyped DEF KeysKept, Shrinks
<1>2. IndexAgrees' /\ KeyInv' /\ IndexKeyInv' /\ TogetherInv' /\ OwnedInv'
  BY <1>1, QuietStep
<1>3. JobInv'
  BY PollsStep
<1>4. TypeOK'
  BY DEF AInv, TypeOK
<1>5. QED BY <1>2, <1>3, <1>4 DEF AInv

(* What the steps of the pool and of the polls change, in those words.     *)
LEMMA StateTyped ==
    ASSUME AInv
    PROVE  /\ futures \in [Messages -> 0..MaxDeliveries]
           /\ jobs \in [Deliveries -> Job \cup {NoJob}]
           /\ chain \in [Deliveries -> 0..TimeoutPolls \cup {NoChain}]
           /\ outcome \in [Deliveries -> Outcomes]
BY DEF AInv, TypeOK

LEMMA JobSet ==
    ASSUME AInv, NEW d \in Deliveries, jobs[d] # NoJob,
           NEW s \in {"queued", "running", "done", "failed", "cancelled", "dead"},
           jobs' = [jobs EXCEPT ![d].state = s]
    PROVE  /\ jobs' \in [Deliveries -> Job \cup {NoJob}]
           /\ \A e \in Deliveries : /\ jobs'[e] # NoJob <=> jobs[e] # NoJob
                                    /\ jobs[e] # NoJob => jobs'[e].history = jobs[e].history
<1> DEFINE job == [jobs[d] EXCEPT !.state = s]
<1>1. job \in Job /\ job.history = jobs[d].history
  BY StateTyped DEF Job
<1>2. job # NoJob
  BY <1>1, NoneAssumption
<1>3. jobs' = [jobs EXCEPT ![d] = job]
  OBVIOUS
<1> HIDE DEF job
<1>4. \A e \in Deliveries : jobs'[e] = IF e = d THEN job ELSE jobs[e]
  BY <1>3, StateTyped
<1>5. QED BY <1>1, <1>2, <1>3, <1>4, StateTyped

LEMMA PoolStep ==
    ASSUME AInv, NEW d \in Deliveries, jobs[d] # NoJob,
           NEW s \in {"queued", "running", "done", "failed", "cancelled", "dead"},
           JobBecomes(d, s)
    PROVE  AInv'
<1>1. /\ UNCHANGED <<now, store, msg, key, delivered, futures, chain, outcome, restarts>>
      /\ jobs' = [jobs EXCEPT ![d].state = s]
  BY DEF JobBecomes
<1>2. QED BY <1>1, JobSet, StateTyped, IdleStep

(* A poll ends.                                                            *)
LEMMA EndsType ==
    ASSUME AInv, NEW d \in Deliveries, NEW o \in Outcomes, Ends(d, o)
    PROVE  /\ chain' \in [Deliveries -> 0..TimeoutPolls \cup {NoChain}]
           /\ outcome' \in [Deliveries -> Outcomes]
           /\ \A e \in Deliveries : chain'[e] # NoChain => chain[e] # NoChain
BY StateTyped DEF Ends

LEMMA Forget ==
    ASSUME AInv, NEW m \in Messages, futures' = [futures EXCEPT ![m] = 0]
    PROVE  /\ futures' \in [Messages -> 0..MaxDeliveries]
           /\ \A q \in Messages : futures'[q] \in {0, futures[q]}
BY StateTyped, AgentAssumption

LEMMA PollStep ==
    ASSUME AInv, NEW d \in Deliveries, Poll(d)
    PROVE  AInv'
<1>0. /\ chain[d] # NoChain /\ d[1] \in Messages
      /\ UNCHANGED <<now, msg, key, delivered, restarts>>
      /\ {"answer", "error", "timeout", "unknown"} \subseteq Outcomes
  BY DEF Poll, Deliveries, Outcomes
<1>1. CASE Unknown(d)
  BY <1>0, <1>1, StateTyped, EndsType, IdleStep DEF Unknown
<1>7. CASE Echo(d)
  BY <1>0, <1>7, StateTyped, EndsType, IdleStep DEF Echo
<1>2. CASE Fail(d)
  BY <1>0, <1>2, StateTyped, EndsType, Forget, IdleStep DEF Fail
<1>3. CASE PollAgain(d)
  <2>1. chain' \in [Deliveries -> 0..TimeoutPolls \cup {NoChain}]
    BY <1>0, <1>3, StateTyped, AgentAssumption DEF PollAgain
  <2>2. \A e \in Deliveries : chain'[e] # NoChain => chain[e] # NoChain
    BY <1>0, <1>3, StateTyped DEF PollAgain
  <2>3. QED BY <1>0, <1>3, <2>1, <2>2, StateTyped, IdleStep DEF PollAgain
<1>4. CASE TimeOut(d) /\ futures[d[1]] # 0
  <2>1. FutureOf(d[1]) \in Deliveries
    BY <1>0, <1>4, AgentAssumption, StateTyped DEF FutureOf, Deliveries
  <2>2. /\ jobs' \in [Deliveries -> Job \cup {NoJob}]
        /\ \A e \in Deliveries : /\ jobs'[e] # NoJob <=> jobs[e] # NoJob
                                 /\ jobs[e] # NoJob => jobs'[e].history = jobs[e].history
    <3>1. CASE JobIs(FutureOf(d[1]), "queued")
      BY <1>4, <2>1, <3>1, JobSet DEF TimeOut, JobIs
    <3>2. CASE ~JobIs(FutureOf(d[1]), "queued")
      BY <1>4, <3>2, StateTyped DEF TimeOut
    <3>3. QED BY <3>1, <3>2
  <2>3. /\ chain' \in [Deliveries -> 0..TimeoutPolls \cup {NoChain}]
        /\ outcome' \in [Deliveries -> Outcomes]
        /\ \A e \in Deliveries : chain'[e] # NoChain => chain[e] # NoChain
    BY <1>0, <1>4, EndsType DEF TimeOut
  <2>4. /\ futures' \in [Messages -> 0..MaxDeliveries]
        /\ \A q \in Messages : futures'[q] \in {0, futures[q]}
        /\ store' = store
    BY <1>0, <1>4, Forget DEF TimeOut
  <2>5. QED BY <1>0, <2>2, <2>3, <2>4, IdleStep
<1>5. CASE Answer(d) /\ futures[d[1]] # 0
  <2>1. key[d[1]] # NoKey
    BY <1>0, <1>5 DEF AInv, JobInv
  <2>2. /\ store' \in Stores /\ Agrees(store')
        /\ IndexAgrees' /\ KeyInv' /\ IndexKeyInv' /\ TogetherInv' /\ OwnedInv'
    BY <1>0, <1>5, <2>1, RecordStep DEF Answer
  <2>3. /\ chain' \in [Deliveries -> 0..TimeoutPolls \cup {NoChain}]
        /\ outcome' \in [Deliveries -> Outcomes]
        /\ \A e \in Deliveries : chain'[e] # NoChain => chain[e] # NoChain
    BY <1>0, <1>5, EndsType DEF Answer
  <2>4. /\ futures' \in [Messages -> 0..MaxDeliveries]
        /\ \A q \in Messages : futures'[q] \in {0, futures[q]}
        /\ jobs' = jobs
    BY <1>0, <1>5, Forget DEF Answer
  <2>5. JobInv'
    BY <1>0, <2>3, <2>4, PollsStep
  <2>6. TypeOK'
    BY <1>0, <2>2, <2>3, <2>4 DEF AInv, TypeOK, Stores
  <2>7. QED BY <2>2, <2>5, <2>6 DEF AInv
<1>6. QED BY <1>1, <1>2, <1>3, <1>4, <1>5, <1>7 DEF Poll

LEMMA RestartStep ==
    ASSUME AInv, Restart
    PROVE  AInv'
<1>1. /\ restarts' \in 0..MaxRestarts /\ UNCHANGED <<now, msg, key, delivered>>
      /\ futures' = [m \in Messages |-> 0]
  BY AgentAssumption DEF Restart, AInv, TypeOK
<1>2. jobs' \in [Deliveries -> Job \cup {NoJob}]
      /\ \A d \in Deliveries : /\ jobs'[d] # NoJob <=> jobs[d] # NoJob
                               /\ jobs[d] # NoJob => jobs'[d].history = jobs[d].history
  <2> SUFFICES ASSUME NEW d \in Deliveries
               PROVE  /\ jobs'[d] \in Job \cup {NoJob} /\ (jobs'[d] # NoJob <=> jobs[d] # NoJob)
                      /\ jobs[d] # NoJob => jobs'[d].history = jobs[d].history
    BY DEF Restart
  <2> DEFINE job == [jobs[d] EXCEPT !.state = "dead"]
  <2>1. jobs'[d] = IF jobs[d] # NoJob /\ jobs[d].state \in {"queued", "running"} THEN job ELSE jobs[d]
    BY DEF Restart
  <2>2. jobs[d] # NoJob => job \in Job /\ job.history = jobs[d].history
    BY StateTyped DEF Job
  <2> HIDE DEF job
  <2>3. jobs[d] # NoJob => job # NoJob
    BY <2>2, NoneAssumption
  <2>4. QED BY <2>1, <2>2, <2>3, StateTyped
<1>3. /\ store' \in Stores /\ Agrees(store') /\ Shrinks(store, store')
  <2>1. CASE Durable
    BY <2>1, StoreTyped DEF Restart, Shrinks
  <2>2. CASE ~Durable
    BY <2>2, StoreTyped DEF Restart, Shrinks, Agrees, Stores
  <2>3. QED BY <2>1, <2>2
<1>4. /\ chain' \in [Deliveries -> 0..TimeoutPolls \cup {NoChain}]
      /\ outcome' \in [Deliveries -> Outcomes]
      /\ \A d \in Deliveries : chain'[d] # NoChain => chain[d] # NoChain
  BY StateTyped DEF Restart, Outcomes
<1>5. IndexAgrees' /\ KeyInv' /\ IndexKeyInv' /\ TogetherInv' /\ OwnedInv'
  BY <1>1, <1>2, <1>3, QuietStep DEF KeysKept
<1>6. JobInv'
  BY <1>1, <1>2, <1>4, PollsStep
<1>7. futures' \in [Messages -> 0..MaxDeliveries]
  BY <1>1, AgentAssumption
<1>8. TypeOK'
  BY <1>1, <1>2, <1>3, <1>4, <1>7 DEF AInv, TypeOK, Stores
<1>9. QED BY <1>5, <1>6, <1>8 DEF AInv
-----------------------------------------------------------------------------
LEMMA InitAInv == Init => AInv
<1> SUFFICES ASSUME Init PROVE AInv
  OBVIOUS
<1>1. /\ 0 \in Times /\ 0 \in 0..MaxRestarts /\ 0 \in 0..MaxDeliveries
      /\ NoKey \notin Keys /\ "none" \in Outcomes
  BY AgentAssumption DEF Times, Outcomes
<1>2. /\ store = [sessions |-> [k \in Keys |-> NoSession], index |-> [i \in Ids |-> NoKey]]
      /\ \A k \in Keys : store.sessions[k] = NoSession
      /\ \A i \in Ids : store.index[i] = NoKey
  BY DEF Init
<1>3. TypeOK
  BY <1>1, <1>2 DEF Init, TypeOK
<1>4. IndexAgrees /\ IndexKeyInv /\ OwnedInv
  BY <1>1, <1>2 DEF IndexAgrees, IndexKeyInv, OwnedInv
<1>5. \A m \in Messages : key[m] = NoKey /\ futures[m] = 0
  BY DEF Init
<1>6. \A d \in Deliveries : jobs[d] = NoJob /\ chain[d] = NoChain
  BY DEF Init
<1>7. KeyInv
  BY <1>5 DEF KeyInv
<1>8. JobInv
  BY <1>5, <1>6 DEF JobInv, Deliveries
<1>9. TogetherInv
  BY <1>2, <1>6 DEF TogetherInv
<1>10. QED BY <1>3, <1>4, <1>7, <1>8, <1>9 DEF AInv

LEMMA NextAInv == AInv /\ [Next]_vars => AInv'
<1> SUFFICES ASSUME AInv, [Next]_vars PROVE AInv'
  OBVIOUS
<1>1. CASE \E m \in Messages, r \in Incoming : Receive(m, r)
  BY <1>1, ReceiveStep
<1>2. CASE \E d \in Deliveries : StartJob(d)
  BY <1>2, PoolStep DEF StartJob, JobIs
<1>3. CASE \E d \in Deliveries, s \in {"done", "failed"} : EndJob(d, s)
  BY <1>3, PoolStep DEF EndJob, JobIs
<1>4. CASE \E d \in Deliveries : Poll(d)
  BY <1>4, PollStep
<1>5. CASE \E d \in Deliveries : RemovePoll(d)
  <2>1. PICK d \in Deliveries : RemovePoll(d)
    BY <1>5
  <2>2. "removed" \in Outcomes
    BY DEF Outcomes
  <2>3. QED BY <2>1, <2>2, StateTyped, EndsType, IdleStep DEF RemovePoll
<1>6. CASE Restart
  BY <1>6, RestartStep
<1>7. CASE Tick \/ UNCHANGED vars
  <2>1. now' \in Times /\ UNCHANGED <<store, msg, key, delivered, futures, jobs, chain, outcome, restarts>>
    BY <1>7, AgentAssumption DEF Tick, vars, AInv, TypeOK, Times
  <2>2. KeysKept /\ store' \in Stores /\ Agrees(store') /\ Shrinks(store, store')
    BY <2>1, StoreTyped DEF KeysKept, Shrinks
  <2>3. IndexAgrees' /\ KeyInv' /\ IndexKeyInv' /\ TogetherInv' /\ OwnedInv'
    BY <2>1, <2>2, QuietStep
  <2>4. JobInv'
    BY <2>1 DEF AInv, JobInv
  <2>5. TypeOK'
    BY <2>1 DEF AInv, TypeOK
  <2>6. QED BY <2>3, <2>4, <2>5 DEF AInv
<1>8. QED BY <1>1, <1>2, <1>3, <1>4, <1>5, <1>6, <1>7 DEF Next

(* The inductive invariant of sessions, polls and the pool, for any number *)
(* of messages, commands, users and deliveries: agent.py and the routing   *)
(* of replies in bot.py.                                                   *)
THEOREM SessionsInvariance == Spec => []AInv
<1>1. Init => AInv
  BY InitAInv
<1>2. AInv /\ [Next]_vars => AInv'
  BY NextAInv
<1>3. QED BY <1>1, <1>2, PTL DEF Spec

(* The reply index always agrees with the sessions: what SessionStore      *)
(* keeps in two namespaces of the state store never drifts apart.          *)
THEOREM IndexIsSound == Spec => []IndexAgrees
<1>1. AInv => IndexAgrees
  BY DEF AInv
<1>2. QED BY <1>1, SessionsInvariance, PTL

(* An agent is only ever shown turns of messages that are connected to its *)
(* own: no session reaches a conversation that nobody linked to it, though *)
(* replies may cross users, channels and commands.                         *)
THEOREM ConversationsStayApart == Spec => []Isolation
<1>1. AInv => Isolation
  <2> SUFFICES ASSUME AInv, NEW C \in SUBSET Messages, Closed(C),
                      NEW d \in Deliveries, jobs[d] # NoJob, d[1] \in C,
                      NEW t \in jobs[d].history
               PROVE  t \in C
    BY DEF Isolation
  <2>1. QED BY DEF AInv, TogetherInv
<1>2. QED BY <1>1, SessionsInvariance, PTL

-----------------------------------------------------------------------------
(* Answers and runs.                                                       *)
LEMMA NumbersFinite ==
    ASSUME NEW S \in SUBSET (1..MaxDeliveries)
    PROVE  IsFiniteSet(S) /\ Cardinality(S) \in Nat
<1>1. 1 \in Int /\ MaxDeliveries \in Int
  BY AgentAssumption
<1>2. IsFiniteSet(1..MaxDeliveries)
  BY <1>1, FS_Interval, Zenon
<1>3. IsFiniteSet(S)
  BY <1>2, FS_Subset
<1> QED
  BY <1>3, FS_CardinalityType

LEMMA FewerThan ==
    ASSUME NEW A1 \in SUBSET (1..MaxDeliveries), NEW A2 \in SUBSET A1,
           NEW B2 \in SUBSET (1..MaxDeliveries), NEW B1 \in SUBSET B2,
           Cardinality(A1) <= Cardinality(B1)
    PROVE  Cardinality(A2) <= Cardinality(B2)
<1>1. Cardinality(A2) <= Cardinality(A1) /\ Cardinality(B1) <= Cardinality(B2)
  BY NumbersFinite, FS_Subset
<1>2. {Cardinality(A1), Cardinality(A2), Cardinality(B1), Cardinality(B2)} \subseteq Nat
  BY NumbersFinite
<1> QED
  BY <1>1, <1>2

LEMMA OneMoreEach ==
    ASSUME NEW A \in SUBSET (1..MaxDeliveries), NEW B \in SUBSET (1..MaxDeliveries),
           NEW x \in 1..MaxDeliveries, NEW y \in (1..MaxDeliveries) \ B,
           Cardinality(A) <= Cardinality(B)
    PROVE  Cardinality(A \cup {x}) <= Cardinality(B \cup {y})
<1>1. /\ IsFiniteSet(A) /\ Cardinality(A) \in Nat
      /\ IsFiniteSet(B) /\ Cardinality(B) \in Nat
  BY NumbersFinite
<1>2. Cardinality(A \cup {x}) = IF x \in A THEN Cardinality(A) ELSE Cardinality(A) + 1
  BY <1>1, FS_AddElement
<1>3. Cardinality(B \cup {y}) = Cardinality(B) + 1
  BY <1>1, FS_AddElement
<1> QED
  BY <1>1, <1>2, <1>3

(* A step that answers nothing, undoes no run and gives no future to a run *)
(* that is done.                                                           *)
LEMMA RunsKept ==
    ASSUME AInv, RunInv,
           \A d \in Deliveries :
              /\ outcome'[d] = "answer" => outcome[d] = "answer"
              /\ JobIs(d, "done") => JobIs(d, "done")',
           \A m \in Messages :
              futures'[m] \in {0, futures[m]} \/ ~JobIs(<<m, futures'[m]>>, "done")
    PROVE  \A m \in Messages :
              Cardinality(Answers(m))' <= Cardinality(Done(m) \ {futures[m]})'
<1> SUFFICES ASSUME NEW m \in Messages
             PROVE  Cardinality(Answers(m)') <= Cardinality(Done(m)' \ {futures'[m]})
  OBVIOUS
<1>1. \A n \in 1..MaxDeliveries : <<m, n>> \in Deliveries
  BY DEF Deliveries
<1>2. Answers(m)' \subseteq Answers(m) /\ Answers(m) \subseteq 1..MaxDeliveries
  BY <1>1 DEF Answers
<1>3. Done(m) \subseteq Done(m)' /\ Done(m)' \subseteq 1..MaxDeliveries
  BY <1>1 DEF Done
<1>4. 0 \notin Done(m)
  BY AgentAssumption DEF Done
<1>5. Done(m) \ {futures[m]} \subseteq Done(m)' \ {futures'[m]}
  BY <1>3, <1>4 DEF Done
<1>6. Cardinality(Answers(m)) <= Cardinality(Done(m) \ {futures[m]})
  BY DEF RunInv
<1> HIDE DEF Answers, Done
<1> QED
  BY <1>2, <1>3, <1>5, <1>6, FewerThan

(* A step that nothing was delivered in.                                   *)
LEMMA SettledStep ==
    ASSUME AInv, RunInv, UNCHANGED <<msg, delivered>>,
           \A d \in Deliveries :
              jobs'[d] # NoJob \/ chain'[d] # NoChain \/ outcome'[d] # "none" =>
                 jobs[d] # NoJob \/ chain[d] # NoChain \/ outcome[d] # "none",
           \A m \in Messages :
              /\ Cardinality(Answers(m))' <= Cardinality(Done(m) \ {futures[m]})'
              /\ futures'[m] # 0 =>
                   /\ futures'[m] = futures[m]
                   /\ ~ReadsAsError(m) => \A n \in 1..MaxDeliveries :
                        chain[<<m, n>>] # NoChain \/ outcome[<<m, n>>] = "removed" =>
                           chain'[<<m, n>>] # NoChain \/ outcome'[<<m, n>>] = "removed"
    PROVE  RunInv'
<1>1. \A m \in Messages, n \in 1..MaxDeliveries : <<m, n>> \in Deliveries
  BY DEF Deliveries
<1>2. \A m \in Messages, n \in 1..MaxDeliveries :
          jobs'[<<m, n>>] # NoJob \/ chain'[<<m, n>>] # NoChain \/ outcome'[<<m, n>>] # "none" =>
             n <= delivered'[m]
  BY <1>1 DEF RunInv
<1>3. FuturesPolled'
  BY DEF RunInv, FuturesPolled, ReadsAsError
<1> QED
  BY <1>2, <1>3 DEF RunInv

LEMMA RunInit == Init => RunInv
<1> SUFFICES ASSUME Init PROVE RunInv
  OBVIOUS
<1>1. \A m \in Messages, n \in 1..MaxDeliveries :
         /\ <<m, n>> \in Deliveries
         /\ jobs[<<m, n>>] = NoJob /\ chain[<<m, n>>] = NoChain /\ outcome[<<m, n>>] = "none"
  BY DEF Init, Deliveries
<1>2. \A m \in Messages : futures[m] = 0 /\ Answers(m) = {}
  BY <1>1 DEF Init, Answers
<1>3. \A m \in Messages : Done(m) \ {futures[m]} = {}
  BY <1>1 DEF Done, JobIs
<1>4. Cardinality({}) <= Cardinality({})
  BY FS_EmptySet
<1> QED
  BY <1>1, <1>2, <1>3, <1>4 DEF RunInv, FuturesPolled

LEMMA DoneStays ==
    ASSUME AInv, NEW d \in Deliveries, ~JobIs(d, "done"), NEW s,
           jobs[d] # NoJob,
           jobs' = [jobs EXCEPT ![d].state = s]
    PROVE  /\ \A e \in Deliveries : JobIs(e, "done") => JobIs(e, "done")'
           /\ \A e \in Deliveries : jobs'[e] # NoJob => jobs[e] # NoJob
<1> DEFINE job == [jobs[d] EXCEPT !.state = s]
<1>1. jobs' = [jobs EXCEPT ![d] = job]
  OBVIOUS
<1> HIDE DEF job
<1>2. \A e \in Deliveries : e # d => jobs'[e] = jobs[e]
  BY <1>1, StateTyped
<1> QED
  BY <1>2 DEF JobIs

LEMMA JobRunStep ==
    ASSUME AInv, RunInv, NEW d \in Deliveries, ~JobIs(d, "done"), jobs[d] # NoJob,
           NEW s, JobBecomes(d, s)
    PROVE  RunInv'
<1>1. UNCHANGED <<msg, delivered, futures, chain, outcome>>
      /\ jobs' = [jobs EXCEPT ![d].state = s]
  BY DEF JobBecomes
<1>2. /\ \A e \in Deliveries : JobIs(e, "done") => JobIs(e, "done")'
      /\ \A e \in Deliveries : jobs'[e] # NoJob => jobs[e] # NoJob
  BY <1>1, DoneStays
<1>3. \A m \in Messages : Cardinality(Answers(m))' <= Cardinality(Done(m) \ {futures[m]})'
  BY <1>1, <1>2, RunsKept
<1> QED
  BY <1>1, <1>2, <1>3, SettledStep

LEMMA RestartRunStep ==
    ASSUME AInv, RunInv, Restart
    PROVE  RunInv'
<1>1. /\ UNCHANGED <<msg, delivered>>
      /\ \A m \in Messages : futures'[m] = 0
  BY DEF Restart
<1>2. \A d \in Deliveries :
         /\ JobIs(d, "done") => JobIs(d, "done")'
         /\ jobs'[d] # NoJob => jobs[d] # NoJob
  BY StateTyped DEF Restart, JobIs
<1>3. \A d \in Deliveries :
         /\ outcome'[d] = "answer" => outcome[d] = "answer"
         /\ chain'[d] # NoChain => chain[d] # NoChain
         /\ outcome'[d] # "none" => outcome[d] # "none" \/ chain[d] # NoChain
  BY StateTyped DEF Restart
<1>4. \A m \in Messages : Cardinality(Answers(m))' <= Cardinality(Done(m) \ {futures[m]})'
  BY <1>1, <1>2, <1>3, RunsKept
<1> QED
  BY <1>1, <1>2, <1>3, <1>4, SettledStep

(* A delivery that the bot has taken notice of, as its number tells.       *)
LEMMA DeliveredStep ==
    ASSUME AInv, RunInv, NEW m \in Messages, delivered[m] + 1 \in 1..MaxDeliveries,
           delivered' = [delivered EXCEPT ![m] = @ + 1],
           \A q \in Messages : ReadsAsError(q) => ReadsAsError(q)',
           \A d \in Deliveries \ {<<m, delivered[m] + 1>>} :
              jobs'[d] = jobs[d] /\ chain'[d] = chain[d] /\ outcome'[d] = outcome[d],
           outcome'[<<m, delivered[m] + 1>>] # "answer",
           futures' = futures \/ /\ futures' = [futures EXCEPT ![m] = delivered[m] + 1]
                                 /\ chain'[<<m, delivered[m] + 1>>] # NoChain
    PROVE  RunInv'
<1> DEFINE new == <<m, delivered[m] + 1>>
<1>1. /\ new \in Deliveries
      /\ \A q \in Messages, n \in 1..MaxDeliveries :
            <<q, n>> \in Deliveries /\ (<<q, n>> = new <=> q = m /\ n = delivered[m] + 1)
  BY DEF Deliveries
<1>2. /\ delivered \in [Messages -> 0..MaxDeliveries] /\ MaxDeliveries \in Nat
      /\ \A q \in Messages : delivered'[q] = IF q = m THEN delivered[m] + 1 ELSE delivered[q]
  BY AgentAssumption DEF AInv, TypeOK
<1>3. jobs[new] = NoJob /\ chain[new] = NoChain /\ outcome[new] = "none"
  <2>1. ~(delivered[m] + 1 <= delivered[m])
    BY <1>2
  <2> QED
    BY <2>1 DEF RunInv
<1>4. \A q \in Messages :
         futures'[q] = IF futures' # futures /\ q = m THEN delivered[m] + 1 ELSE futures[q]
  BY StateTyped
<1>5. \A q \in Messages : Cardinality(Answers(q))' <= Cardinality(Done(q) \ {futures[q]})'
  <2>1. \A d \in Deliveries : /\ outcome'[d] = "answer" => outcome[d] = "answer"
                              /\ JobIs(d, "done") => JobIs(d, "done")'
    BY <1>3 DEF JobIs
  <2>2. \A q \in Messages :
           futures'[q] \in {0, futures[q]} \/ ~JobIs(<<q, futures'[q]>>, "done")
    BY <1>3, <1>4 DEF JobIs
  <2> QED
    BY <2>1, <2>2, RunsKept
<1>6. ASSUME NEW q \in Messages, NEW n \in 1..MaxDeliveries,
             jobs'[<<q, n>>] # NoJob \/ chain'[<<q, n>>] # NoChain \/ outcome'[<<q, n>>] # "none"
      PROVE  n <= delivered'[q]
  <2>1. CASE <<q, n>> = new
    BY <2>1, <1>1, <1>2
  <2>2. CASE <<q, n>> # new
    <3>1. n <= delivered[q]
      BY <2>2, <1>1, <1>6 DEF RunInv
    <3> QED
      BY <3>1, <1>2
  <2> QED
    BY <2>1, <2>2
<1>7. ASSUME NEW q \in Messages, futures'[q] # 0, ~ReadsAsError(q)'
      PROVE  \E n \in 1..MaxDeliveries :
                chain'[<<q, n>>] # NoChain \/ outcome'[<<q, n>>] = "removed"
  <2>1. CASE futures' # futures /\ q = m
    BY <2>1
  <2>2. CASE ~(futures' # futures /\ q = m)
    <3>1. PICK n \in 1..MaxDeliveries : chain[<<q, n>>] # NoChain \/ outcome[<<q, n>>] = "removed"
      BY <2>2, <1>4, <1>7 DEF RunInv, FuturesPolled
    <3>2. <<q, n>> \in Deliveries \ {new}
      BY <3>1, <1>1, <1>3
    <3> QED
      BY <3>1, <3>2
  <2> QED
    BY <2>1, <2>2
<1> QED
  BY <1>5, <1>6, <1>7 DEF RunInv, FuturesPolled

LEMMA ReceiveRunStep ==
    ASSUME AInv, RunInv, NEW m \in Messages, NEW r \in Incoming, Receive(m, r)
    PROVE  RunInv'
<1> DEFINE new == <<m, delivered[m] + 1>>
<1>1. /\ delivered[m] + 1 \in 1..MaxDeliveries
      /\ delivered' = [delivered EXCEPT ![m] = @ + 1]
  BY AgentAssumption DEF Receive, AInv, TypeOK
<1>2. new \in Deliveries /\ NoChain # 0
  BY <1>1, AgentAssumption DEF Deliveries
<1>3. outcome[new] # "answer"
  <2>1. ~(delivered[m] + 1 <= delivered[m])
    BY <1>1 DEF AInv, TypeOK
  <2> QED
    BY <1>1, <2>1 DEF RunInv
<1>7. \A q \in Messages : ReadsAsError(q) => ReadsAsError(q)'
  BY DEF Receive, ReadsAsError, AInv, TypeOK
<1>4. \/ \E k, i : Preexecute(m, delivered[m] + 1, k, i)
      \/ ShowHelp(m, delivered[m] + 1, r)
  BY DEF Receive, TakeCommand, TakeReply
<1> HIDE DEF new
<1>5. ASSUME NEW k, NEW i, Preexecute(m, delivered[m] + 1, k, i) PROVE RunInv'
  <2>1. CASE Submit(m, delivered[m] + 1, k, i)
    <3>1. /\ futures' = [futures EXCEPT ![m] = delivered[m] + 1]
          /\ chain' = [chain EXCEPT ![new] = 0]
          /\ outcome' = outcome
          /\ \A d \in Deliveries \ {new} : jobs'[d] = jobs[d]
      BY <2>1, StateTyped DEF Submit, new
    <3> QED
      BY <3>1, <1>7, <1>1, <1>2, <1>3, StateTyped, DeliveredStep DEF new
  <2>2. CASE Join(m, delivered[m] + 1)
    <3>1. chain' = [chain EXCEPT ![new] = 0] /\ UNCHANGED <<futures, jobs, outcome>>
      BY <2>2 DEF Join, new
    <3> QED
      BY <3>1, <1>7, <1>1, <1>2, <1>3, StateTyped, DeliveredStep DEF new
  <2>3. CASE BuildFails(m, delivered[m] + 1)
    <3>1. outcome' = [outcome EXCEPT ![new] = "error"] /\ UNCHANGED <<futures, jobs, chain>>
      BY <2>3 DEF BuildFails, new
    <3> QED
      BY <3>1, <1>7, <1>1, <1>2, StateTyped, DeliveredStep DEF new
  <2> QED
    BY <1>5, <2>1, <2>2, <2>3 DEF Preexecute
<1>6. CASE ShowHelp(m, delivered[m] + 1, r)
  <2>1. outcome' = [outcome EXCEPT ![new] = "help"] /\ UNCHANGED <<futures, jobs, chain>>
    BY <1>6 DEF ShowHelp, new
  <2> QED
    BY <2>1, <1>7, <1>1, <1>2, StateTyped, DeliveredStep DEF new
<1> QED
  BY <1>4, <1>5, <1>6

-----------------------------------------------------------------------------
(* An answer takes the run away that it answers with.                      *)
LEMMA AnswerRunStep ==
    ASSUME AInv, RunInv, NEW d \in Deliveries, chain[d] # NoChain,
           futures[d[1]] # 0, Answer(d)
    PROVE  \A m \in Messages :
              Cardinality(Answers(m))' <= Cardinality(Done(m) \ {futures[m]})'
<1> DEFINE q == d[1]
           f == futures[q]
<1>1. /\ q \in Messages /\ d[2] \in 1..MaxDeliveries /\ d = <<q, d[2]>>
      /\ \A m \in Messages, n \in 1..MaxDeliveries : <<m, n>> \in Deliveries
  BY DEF Deliveries
<1>2. f \in 1..MaxDeliveries /\ f \in Done(q)
  BY <1>1, StateTyped, AgentAssumption DEF Answer, Done, FutureOf
<1>3. /\ jobs' = jobs
      /\ \A m \in Messages : futures'[m] = IF m = q THEN 0 ELSE futures[m]
      /\ \A e \in Deliveries : outcome'[e] = IF e = d THEN "answer" ELSE outcome[e]
  BY <1>1, StateTyped DEF Answer, Ends
<1> HIDE DEF q, f
<1>4. ASSUME NEW m \in Messages
      PROVE  Cardinality(Answers(m)') <= Cardinality(Done(m)' \ {futures'[m]})
  <2>1. /\ Done(m)' = Done(m) /\ 0 \notin Done(m) /\ Done(m) \subseteq 1..MaxDeliveries
        /\ Answers(m) \subseteq 1..MaxDeliveries
    BY <1>3 DEF Done, JobIs, Answers
  <2>2. Cardinality(Answers(m)) <= Cardinality(Done(m) \ {futures[m]})
    BY DEF RunInv
  <2>3. CASE m # q
    <3>1. Answers(m)' = Answers(m)
      BY <1>1, <1>3, <2>3 DEF Answers
    <3> QED
      BY <3>1, <1>3, <2>1, <2>2, <2>3
  <2>4. CASE m = q
    <3>1. Answers(m)' = Answers(m) \cup {d[2]}
      BY <1>1, <1>3, <2>4 DEF Answers
    <3>2. Done(m)' \ {futures'[m]} = (Done(m) \ {f}) \cup {f}
      BY <1>2, <1>3, <2>1, <2>4
    <3>3. Cardinality(Answers(m)) <= Cardinality(Done(m) \ {f})
      BY <2>2, <2>4 DEF f
    <3>4. Cardinality(Answers(m) \cup {d[2]}) <= Cardinality((Done(m) \ {f}) \cup {f})
      BY <1>1, <1>2, <2>1, <3>3, OneMoreEach
    <3> QED
      BY <3>1, <3>2, <3>4
  <2> QED
    BY <2>3, <2>4
<1> QED
  BY <1>4

LEMMA PollRunStep ==
    ASSUME AInv, RunInv, NEW d \in Deliveries, Poll(d) \/ RemovePoll(d)
    PROVE  RunInv'
<1>1. /\ chain[d] # NoChain /\ delivered' = delivered /\ msg' = msg
      /\ d[1] \in Messages /\ d[2] \in 1..MaxDeliveries /\ d = <<d[1], d[2]>>
      /\ \A m \in Messages, n \in 1..MaxDeliveries :
            <<m, n>> \in Deliveries /\ (<<m, n>> = d <=> m = d[1] /\ n = d[2])
  BY DEF Poll, RemovePoll, Deliveries
(* A poll that ends without an answer.                                     *)
<1>2. ASSUME NEW o \in Outcomes \ {"answer"}, Ends(d, o),
             \A e \in Deliveries : /\ JobIs(e, "done") => JobIs(e, "done")'
                                   /\ jobs'[e] # NoJob => jobs[e] # NoJob,
             \/ futures' = [futures EXCEPT ![d[1]] = 0]
             \/ /\ futures' = futures
                /\ futures[d[1]] = 0 \/ o = "removed" \/ ReadsAsError(d[1])
      PROVE  RunInv'
  <2>1. \A e \in Deliveries : /\ chain'[e] = IF e = d THEN NoChain ELSE chain[e]
                              /\ outcome'[e] = IF e = d THEN o ELSE outcome[e]
    BY <1>2, StateTyped DEF Ends
  <2>2. \A m \in Messages : /\ futures'[m] \in {0, futures[m]}
                            /\ m = d[1] => \/ futures'[m] = 0
                                           \/ o = "removed"
                                           \/ ReadsAsError(m)
    BY <1>2, StateTyped
  <2>3. \A m \in Messages : Cardinality(Answers(m))' <= Cardinality(Done(m) \ {futures[m]})'
    BY <1>2, <2>1, <2>2, RunsKept
  <2> QED
    BY <1>1, <1>2, <2>1, <2>2, <2>3, SettledStep
<1>3. {"unknown", "error", "timeout", "removed"} \subseteq Outcomes \ {"answer"}
  BY DEF Outcomes
<1>4. CASE RemovePoll(d)
  BY <1>2, <1>3, <1>4 DEF RemovePoll, JobIs
<1>5. CASE Unknown(d) /\ futures[d[1]] = 0
  BY <1>2, <1>3, <1>5 DEF Unknown, JobIs
<1>10. CASE Echo(d)
  BY <1>2, <1>3, <1>10 DEF Echo, JobIs
<1>6. CASE Fail(d)
  BY <1>2, <1>3, <1>6 DEF Fail, JobIs
<1>7. CASE TimeOut(d) /\ futures[d[1]] # 0
  <2>1. FutureOf(d[1]) \in Deliveries
    BY <1>1, <1>7, AgentAssumption, StateTyped DEF FutureOf, Deliveries
  <2>2. \A e \in Deliveries : /\ JobIs(e, "done") => JobIs(e, "done")'
                              /\ jobs'[e] # NoJob => jobs[e] # NoJob
    <3>1. CASE JobIs(FutureOf(d[1]), "queued")
      <4>1. /\ jobs[FutureOf(d[1])] # NoJob /\ ~JobIs(FutureOf(d[1]), "done")
            /\ jobs' = [jobs EXCEPT ![FutureOf(d[1])].state = "cancelled"]
        BY <1>7, <3>1 DEF TimeOut, JobIs
      <4>2. /\ \A e \in Deliveries : JobIs(e, "done") => JobIs(e, "done")'
            /\ \A e \in Deliveries : jobs'[e] # NoJob => jobs[e] # NoJob
        BY <2>1, <4>1, DoneStays
      <4> QED
        BY <4>2
    <3>2. CASE ~JobIs(FutureOf(d[1]), "queued")
      BY <1>7, <3>2 DEF TimeOut, JobIs
    <3> QED
      BY <3>1, <3>2
  <2> QED
    BY <1>2, <1>3, <1>7, <2>2 DEF TimeOut
<1>8. CASE PollAgain(d)
  <2>1. /\ UNCHANGED <<futures, jobs, outcome>>
        /\ \A e \in Deliveries : e # d => chain'[e] = chain[e]
        /\ chain'[d] # NoChain
    BY <1>1, <1>8, StateTyped, AgentAssumption DEF PollAgain
  <2>2. \A m \in Messages : Cardinality(Answers(m))' <= Cardinality(Done(m) \ {futures[m]})'
    BY <2>1, RunsKept DEF JobIs
  <2> QED
    BY <1>1, <2>1, <2>2, SettledStep
<1>9. CASE Answer(d) /\ futures[d[1]] # 0
  <2>1. \A m \in Messages : Cardinality(Answers(m))' <= Cardinality(Done(m) \ {futures[m]})'
    BY <1>1, <1>9, AnswerRunStep
  <2>2. /\ \A e \in Deliveries : /\ jobs'[e] = jobs[e]
                                 /\ chain'[e] = IF e = d THEN NoChain ELSE chain[e]
                                 /\ outcome'[e] = IF e = d THEN "answer" ELSE outcome[e]
        /\ \A m \in Messages : futures'[m] = IF m = d[1] THEN 0 ELSE futures[m]
    BY <1>1, <1>9, StateTyped DEF Answer, Ends
  <2> QED
    BY <1>1, <2>1, <2>2, SettledStep
<1> QED
  BY <1>4, <1>5, <1>6, <1>7, <1>8, <1>9, <1>10 DEF Poll

(* The invariant of futures, runs and answers.                             *)
THEOREM RunsInvariance == Spec => []RunInv
<1>1. AInv /\ RunInv /\ [Next]_vars => RunInv'
  <2> SUFFICES ASSUME AInv, RunInv, [Next]_vars PROVE RunInv'
    OBVIOUS
  <2>1. CASE \E m \in Messages, r \in Incoming : Receive(m, r)
    BY <2>1, ReceiveRunStep
  <2>2. CASE \E d \in Deliveries : StartJob(d)
    <3>1. PICK d \in Deliveries : StartJob(d)
      BY <2>2
    <3>2. /\ ~JobIs(d, "done") /\ jobs[d] # NoJob
          /\ JobBecomes(d, "running")
      BY <3>1 DEF StartJob, JobIs
    <3> QED
      BY <3>2, JobRunStep
  <2>3. CASE \E d \in Deliveries, s \in {"done", "failed"} : EndJob(d, s)
    <3>1. PICK d \in Deliveries, s \in {"done", "failed"} : EndJob(d, s)
      BY <2>3
    <3>2. /\ ~JobIs(d, "done") /\ jobs[d] # NoJob
          /\ JobBecomes(d, s)
      BY <3>1 DEF EndJob, JobIs
    <3> QED
      BY <3>2, JobRunStep
  <2>4. CASE \E d \in Deliveries : Poll(d) \/ RemovePoll(d)
    BY <2>4, PollRunStep
  <2>5. CASE Restart
    BY <2>5, RestartRunStep
  <2>6. CASE Tick \/ UNCHANGED vars
    <3>1. UNCHANGED <<msg, delivered, futures, jobs, chain, outcome>>
      BY <2>6 DEF Tick, vars
    <3> QED
      BY <3>1 DEF RunInv, FuturesPolled, ReadsAsError, Answers, Done, JobIs
  <2> QED
    BY <2>1, <2>2, <2>3, <2>4, <2>5, <2>6 DEF Next
<1> QED
  BY <1>1, RunInit, SessionsInvariance, PTL DEF Spec

(* The variables of AgentCommand keep their types.                         *)
THEOREM AgentTypes == Spec => []TypeOK
<1>1. AInv => TypeOK
  BY DEF AInv
<1> QED
  BY <1>1, SessionsInvariance, PTL

(* However many deliveries of a message poll for it, and whatever times    *)
(* out, is removed or restarts in between, no run of an agent is answered  *)
(* with twice.                                                             *)
THEOREM NoSecondAnswer == Spec => []AnswerPerRun
<1>1. AInv /\ RunInv => AnswerPerRun
  <2> SUFFICES ASSUME AInv, RunInv, NEW m \in Messages
               PROVE  Cardinality(Answers(m)) <= Cardinality(Done(m))
    BY DEF AnswerPerRun
  <2>1. Answers(m) \subseteq 1..MaxDeliveries /\ Done(m) \subseteq 1..MaxDeliveries
    BY DEF Answers, Done
  <2>2. Cardinality(Answers(m)) <= Cardinality(Done(m) \ {futures[m]})
    BY DEF RunInv
  <2> QED
    BY <2>1, <2>2, FewerThan
<1> QED
  BY <1>1, RunsInvariance, SessionsInvariance, PTL

(* However messages are delivered again, time out or meet a restart, the   *)
(* futures that nobody polls for are those whose poll was removed by       *)
(* /schedule remove and those of messages that read as an error.           *)
THEOREM NoFutureLeaks == Spec => []FuturesPolled
<1>1. RunInv => FuturesPolled
  BY DEF RunInv
<1> QED
  BY <1>1, RunsInvariance, PTL
=============================================================================
