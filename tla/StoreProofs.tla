------------------------------ MODULE StoreProofs -----------------------------
(***************************************************************************)
(* Both stores of Stores keep the promise of StateStore, for any threads,  *)
(* keys, values and lifetimes.                                             *)
(***************************************************************************)
EXTENDS Stores, TLAPS

(* What a thread may do to either store, said once for both of them.  A    *)
(* call that meets a torn payload fails; the dictionary never holds one.   *)
GetStep(t, k) ==
    /\ Free(t) /\ kept[k] # Torn
    /\ kept' = IF Live(k) THEN kept ELSE [kept EXCEPT ![k] = Nothing]
    /\ Return(t, IF Live(k) THEN {<<k, kept[k].value>>} ELSE {})

PutStep(t) ==
    /\ call[t].op = "put" /\ kept[call[t].key] # Torn
    /\ kept' = [kept EXCEPT ![call[t].key] = Made(call[t])]
    /\ ReturnNoting(t, {call[t].key}, call[t].value)

DeleteStep(t, k) ==
    /\ Free(t)
    /\ kept' = [kept EXCEPT ![k] = Nothing]
    /\ ReturnNoting(t, {k}, Nothing)

ClearStep(t) ==
    /\ call[t].op = "clear"
    /\ kept' = [k \in Keys |-> IF k \in call[t].scope THEN Nothing ELSE kept[k]]
    /\ ReturnNoting(t, call[t].scope, Nothing)

BeginSweepStep(t, S, lists) ==
    /\ Free(t)
    /\ call' = [call EXCEPT ![t] = [op |-> "sweep", scope |-> S, lists |-> lists,
                                    since |-> clock, offer |-> Offer(S)]]
    /\ UNCHANGED kept

SweepStep(t) ==
    LET c == call[t] IN
    /\ c.op = "sweep" /\ \A k \in c.scope : kept[k] # Torn
    /\ kept' = [k \in Keys |->
           IF k \in c.scope /\ Stored(k) /\ Expired(kept[k], c.since) THEN Nothing ELSE kept[k]]
    /\ call' = [call EXCEPT ![t] = IF c.lists THEN [c EXCEPT !.op = "read"] ELSE Returned({})]

ReadStep(t) ==
    /\ call[t].op = "read" /\ \A k \in call[t].scope : kept[k] # Torn
    /\ Return(t, {<<k, kept[k].value>> : k \in {j \in call[t].scope : Stored(j)}})
    /\ UNCHANGED kept

FailStep(t) ==
    /\ \/ Free(t) /\ \E k \in Keys : kept[k] = Torn
       \/ call[t].op = "put" /\ kept[call[t].key] = Torn
       \/ call[t].op \in {"sweep", "read"} /\ \E k \in call[t].scope : kept[k] = Torn
    /\ Return(t, Error)
    /\ UNCHANGED kept

Step(t) ==
    \/ \E k \in Keys : GetStep(t, k) \/ DeleteStep(t, k)
    \/ \E k \in Keys, v \in Values, ttl \in Lifetimes \cup {Never} : BeginPut(t, k, v, ttl)
    \/ \E S \in Scopes : BeginClear(t, S) \/ \E l \in BOOLEAN : BeginSweepStep(t, S, l)
    \/ PutStep(t)
    \/ ClearStep(t)
    \/ SweepStep(t)
    \/ ReadStep(t)
    \/ FailStep(t)

Crash ==
    /\ \/ kind = "files" /\ UNCHANGED kept
       \/ kind = "memory" /\ kept' = [k \in Keys |-> Nothing]
       \/ /\ kind = "files"
          /\ \E t \in Callers :
                /\ call[t].op = "put"
                /\ kept[call[t].key] # Torn
                /\ kept' = [kept EXCEPT ![call[t].key] = Torn]
       \/ /\ kind = "files"
          /\ \E t \in Callers :
                /\ call[t].op = "clear"
                /\ \E S \in SUBSET call[t].scope :
                      kept' = [k \in Keys |-> IF k \in S THEN Nothing ELSE kept[k]]
    /\ call' = [t \in Callers |-> Returned({})]

(* The calls under way, by what they are.                                  *)
LEMMA CallTyped ==
    ASSUME TypeOK, NEW t \in Callers
    PROVE  /\ call[t] \in Calls
           /\ call[t].op \in {"returned", "put", "clear", "sweep", "read"}
           /\ call[t].op = "put" =>
                 /\ call[t].key \in Keys /\ call[t].value \in Values
                 /\ call[t].ttl \in Lifetimes \cup {Never} /\ call[t].since \in Nat
           /\ call[t].op = "clear" => call[t].scope \in Scopes
           /\ call[t].op \in {"sweep", "read"} =>
                 /\ call[t].scope \in Scopes /\ call[t].lists \in BOOLEAN
                 /\ call[t].since \in Nat
                 /\ call[t].offer \in [Keys -> Values \cup {Nothing}]
           /\ call[t].op = "read" => call[t].lists = TRUE
<1>1. call[t] \in Calls
  BY DEF TypeOK
<1> QED
  BY <1>1 DEF Calls

(* Each store takes such steps.                                            *)
LEMMA MemorySteps ==
    ASSUME StoreInv, kind = "memory", NEW t \in Callers, Memory!Step(t)
    PROVE  Step(t)
<1>1. \A k \in Keys : kept[k] # Torn
  BY DEF StoreInv, MemoryLoads
<1>2. \A S \in Scopes : S \subseteq Keys
  BY StoreAssumption
<1> USE DEF Memory!Free, Free, Memory!Live, Live, Memory!Stored, Stored,
            Memory!Expired, Expired, Memory!Return, Return, Memory!Returned, Returned
<1>3. ASSUME NEW k \in Keys, Memory!Get(t, k) PROVE GetStep(t, k)
  BY <1>1, <1>3 DEF Memory!Get, GetStep
<1>4. ASSUME NEW k \in Keys, Memory!Delete(t, k) PROVE DeleteStep(t, k)
  BY <1>4 DEF Memory!Delete, DeleteStep, Memory!ReturnNoting, ReturnNoting
<1>5. ASSUME NEW k, NEW v, NEW ttl, Memory!BeginPut(t, k, v, ttl) PROVE BeginPut(t, k, v, ttl)
  BY <1>5 DEF Memory!BeginPut, BeginPut
<1>6. ASSUME NEW S, Memory!BeginClear(t, S) PROVE BeginClear(t, S)
  BY <1>6 DEF Memory!BeginClear, BeginClear
<1>7. ASSUME NEW S, NEW l, Memory!BeginSweep(t, S, l) PROVE BeginSweepStep(t, S, l)
  BY <1>7 DEF Memory!BeginSweep, BeginSweepStep, Memory!Offer, Offer
<1>8. CASE Memory!EndPut(t)
  <2>1. call[t].key \in Keys
    BY <1>8, CallTyped DEF Memory!EndPut, StoreInv
  <2> QED
    BY <1>1, <1>8, <2>1
    DEF Memory!EndPut, PutStep, Memory!Made, Made, Memory!ReturnNoting, ReturnNoting, Step
<1>9. CASE Memory!EndClear(t)
  BY <1>9 DEF Memory!EndClear, ClearStep, Memory!ReturnNoting, ReturnNoting, Step
<1>10. CASE Memory!Sweep(t)
  <2>1. call[t].scope \subseteq Keys
    BY <1>2, <1>10, CallTyped DEF Memory!Sweep, StoreInv
  <2> QED
    BY <1>1, <1>10, <2>1 DEF Memory!Sweep, SweepStep, Step
<1>11. CASE Memory!Read(t)
  <2>1. call[t].scope \subseteq Keys
    BY <1>2, <1>11, CallTyped DEF Memory!Read, StoreInv
  <2> QED
    BY <1>1, <1>11, <2>1 DEF Memory!Read, ReadStep, Step
<1> QED
  BY <1>3, <1>4, <1>5, <1>6, <1>7, <1>8, <1>9, <1>10, <1>11 DEF Memory!Step, Step

LEMMA FilesSteps ==
    ASSUME StoreInv, kind = "files", NEW t \in Callers, Files!Step(t)
    PROVE  Step(t)
<1> USE DEF Files!Free, Free, Files!Live, Live, Files!Stored, Stored, Files!Unloadable,
            Files!Expired, Expired, Files!Return, Return, Files!Returned, Returned
<1>1. ASSUME NEW k \in Keys, Files!Get(t, k) PROVE GetStep(t, k) \/ FailStep(t)
  <2>1. CASE kept[k] = Torn
    BY <1>1, <2>1 DEF Files!Get, Files!Fail, FailStep
  <2>2. CASE kept[k] # Torn
    BY <1>1, <2>2 DEF Files!Get, GetStep
  <2> QED
    BY <2>1, <2>2
<1>2. ASSUME NEW k \in Keys, Files!Delete(t, k) PROVE DeleteStep(t, k)
  BY <1>2 DEF Files!Delete, DeleteStep, Files!ReturnNoting, ReturnNoting
<1>3. ASSUME NEW k, NEW v, NEW ttl, Files!BeginPut(t, k, v, ttl) PROVE BeginPut(t, k, v, ttl)
  BY <1>3 DEF Files!BeginPut, BeginPut
<1>4. ASSUME NEW S, Files!BeginClear(t, S) PROVE BeginClear(t, S)
  BY <1>4 DEF Files!BeginClear, BeginClear
<1>5. ASSUME NEW S, NEW l, Files!BeginSweep(t, S, l) PROVE BeginSweepStep(t, S, l)
  BY <1>5 DEF Files!BeginSweep, BeginSweepStep, Files!Offer, Offer
<1>6. CASE Files!EndPut(t)
  <2>1. CASE kept[call[t].key] = Torn
    BY <1>6, <2>1 DEF Files!EndPut, Files!Fail, FailStep, Step
  <2>2. CASE kept[call[t].key] # Torn
    BY <1>6, <2>2
    DEF Files!EndPut, PutStep, Files!Made, Made, Files!ReturnNoting, ReturnNoting, Step
  <2> QED
    BY <2>1, <2>2
<1>7. CASE Files!EndClear(t)
  BY <1>7 DEF Files!EndClear, ClearStep, Files!ReturnNoting, ReturnNoting, Step
<1>8. CASE Files!Sweep(t)
  <2>1. CASE \E k \in call[t].scope : kept[k] = Torn
    BY <1>8, <2>1 DEF Files!Sweep, Files!Fail, FailStep, Step
  <2>2. CASE \A k \in call[t].scope : kept[k] # Torn
    BY <1>8, <2>2 DEF Files!Sweep, SweepStep, Step
  <2> QED
    BY <2>1, <2>2
<1>9. CASE Files!Read(t)
  <2>1. CASE \E k \in call[t].scope : kept[k] = Torn
    BY <1>9, <2>1 DEF Files!Read, Files!Fail, FailStep, Step
  <2>2. CASE \A k \in call[t].scope : kept[k] # Torn
    BY <1>9, <2>2 DEF Files!Read, ReadStep, Step
  <2> QED
    BY <2>1, <2>2
<1> QED
  BY <1>1, <1>2, <1>3, <1>4, <1>5, <1>6, <1>7, <1>8, <1>9 DEF Files!Step, Step

LEMMA NextSteps ==
    ASSUME StoreInv, Next
    PROVE  /\ UNCHANGED kind
           /\ \/ UNCHANGED clock /\ (Crash \/ \E t \in Callers : Step(t))
              \/ Tick
<1>1. CASE kind = "memory" /\ Memory!Next
  <2>1. CASE Memory!Tick
    BY <2>1 DEF Memory!Tick, Tick, Next
  <2>2. CASE UNCHANGED clock /\ Memory!Crash
    BY <1>1, <2>2 DEF Memory!Crash, Memory!Returned, Crash, Returned, Next
  <2>3. CASE UNCHANGED clock /\ \E t \in Callers : Memory!Step(t)
    BY <1>1, <2>3, MemorySteps DEF Next
  <2> QED
    BY <1>1, <2>1, <2>2, <2>3 DEF Memory!Next
<1>2. CASE kind = "files" /\ Files!Next
  <2>1. CASE Files!Tick
    BY <2>1 DEF Files!Tick, Tick, Next
  <2>2. CASE UNCHANGED clock /\ Files!Crash
    <3>1. call' = [t \in Callers |-> Returned({})]
      BY <2>2 DEF Files!Crash, Files!Returned, Returned
    <3>2. Crash
      BY <1>2, <2>2, <3>1 DEF Files!Crash, Files!Unloadable, Crash
    <3> QED
      BY <2>2, <3>2 DEF Next
  <2>3. CASE UNCHANGED clock /\ \E t \in Callers : Files!Step(t)
    BY <1>2, <2>3, FilesSteps DEF Next
  <2> QED
    BY <1>2, <2>1, <2>2, <2>3 DEF Files!Next
<1> QED
  BY <1>1, <1>2 DEF Next

-----------------------------------------------------------------------------
(* The invariant.  What it says of a call of records:                      *)
OfferAgrees(t) ==
    /\ call[t].op \in {"sweep", "read"} =>
          \A k \in call[t].scope :
             /\ Stored(k) =>
                   \/ call[t].offer[k] = kept[k].value
                   \/ call[t].op = "sweep" /\ Expired(kept[k], call[t].since)
             /\ call[t].op = "read" => kept[k] # Torn
    /\ call[t].op = "sweep" => call[t].since <= clock

LEMMA MadeTyped ==
    ASSUME TypeOK, NEW t \in Callers, call[t].op = "put"
    PROVE  /\ Made(call[t]) \in Record
           /\ Made(call[t]).value = call[t].value
<1> DEFINE c == call[t]
<1>1. c.value \in Values /\ c.ttl \in Lifetimes \cup {Never} /\ c.since \in Nat
  BY CallTyped
<1>2. Lifetimes \subseteq Int
  BY StoreAssumption
<1> HIDE DEF c
<1>3. (IF c.ttl = Never THEN Never ELSE c.since + c.ttl) \in Int \cup {Never}
  <2>1. CASE c.ttl = Never
    BY <2>1
  <2>2. CASE c.ttl # Never
    <3>1. c.ttl \in Int
      BY <1>1, <1>2, <2>2
    <3>2. c.since + c.ttl \in Int
      BY <1>1, <3>1
    <3> QED
      BY <2>2, <3>2
  <2> QED
    BY <2>1, <2>2
<1> QED
  BY <1>1, <1>3 DEF Made, Record, c

LEMMA RecordsStored ==
    ASSUME TypeOK
    PROVE  /\ Nothing \notin Record /\ Torn \notin Record /\ Nothing # Torn
           /\ \A k \in Keys : Stored(k) <=> kept[k] \in Record
           /\ \A k \in Keys : Stored(k) => kept[k].value \in Values
           /\ \A k \in Keys : Stored(k) => kept[k].expires \in Int \cup {Never}
           /\ Nothing \notin Values /\ Never \notin Int
BY StoreAssumption DEF TypeOK, Stored, Record

(* A call that returns and gives the keys S the value v.                   *)
LEMMA NotingTyped ==
    ASSUME TypeOK, NEW t \in Callers, NEW S, NEW v \in Values \cup {Nothing}, ReturnNoting(t, S, v)
    PROVE  /\ call' \in [Callers -> Calls]
           /\ call'[t] = Returned({})
           /\ \A u \in Callers \ {t} :
                 /\ call[u].op \notin {"sweep", "read"} => call'[u] = call[u]
                 /\ call[u].op \in {"sweep", "read"} =>
                       /\ call'[u].op = call[u].op /\ call'[u].scope = call[u].scope
                       /\ call'[u].lists = call[u].lists /\ call'[u].since = call[u].since
                       /\ \A k \in Keys : call'[u].offer[k] =
                             IF k \in S \cap call[u].scope THEN v ELSE call[u].offer[k]
<1>1. /\ call'[t] = Returned({})
      /\ \A u \in Callers \ {t} :
            call'[u] = IF call[u].op \in {"sweep", "read"}
                         THEN [call[u] EXCEPT !.offer =
                                 [k \in Keys |-> IF k \in S \cap call[u].scope THEN v ELSE @[k]]]
                         ELSE call[u]
  BY DEF ReturnNoting
<1>2. Returned({}) \in Calls
  BY DEF Returned, Calls
<1>3. ASSUME NEW u \in Callers \ {t}, call[u].op \in {"sweep", "read"}
      PROVE  /\ call'[u] \in Calls
             /\ call'[u].op = call[u].op /\ call'[u].scope = call[u].scope
             /\ call'[u].lists = call[u].lists /\ call'[u].since = call[u].since
             /\ \A k \in Keys : call'[u].offer[k] =
                   IF k \in S \cap call[u].scope THEN v ELSE call[u].offer[k]
  <2> DEFINE offer == [k \in Keys |-> IF k \in S \cap call[u].scope THEN v ELSE call[u].offer[k]]
  <2>1. call[u] \in Calls /\ call[u].offer \in [Keys -> Values \cup {Nothing}]
    BY <1>3, CallTyped
  <2>2. /\ offer \in [Keys -> Values \cup {Nothing}]
        /\ \A k \in Keys : offer[k] =
              IF k \in S \cap call[u].scope THEN v ELSE call[u].offer[k]
    BY <2>1
  <2>3. call'[u] = [call[u] EXCEPT !.offer = offer]
    BY <1>1, <1>3
  <2> HIDE DEF offer
  <2>4. /\ call'[u] \in Calls /\ call'[u].offer = offer
        /\ call'[u].op = call[u].op /\ call'[u].scope = call[u].scope
        /\ call'[u].lists = call[u].lists /\ call'[u].since = call[u].since
    BY <1>3, <2>1, <2>2, <2>3 DEF Calls
  <2> QED
    BY <2>2, <2>4
<1>4. \A u \in Callers : call'[u] \in Calls
  BY <1>1, <1>2, <1>3, CallTyped
<1>5. call' = [u \in Callers |-> call'[u]]
  BY DEF ReturnNoting
<1> QED
  BY <1>1, <1>3, <1>4, <1>5

(* A step that removes records, or writes the value of a call, and notes   *)
(* it in the calls of records.                                             *)
LEMMA NotingStep ==
    ASSUME StoreInv, NEW t \in Callers, NEW S \in SUBSET Keys,
           NEW r \in Record \cup {Nothing}, NEW v \in Values \cup {Nothing},
           r \in Record => v = r.value,
           ReturnNoting(t, S, v), UNCHANGED <<clock, kind>>,
           kept' = [k \in Keys |-> IF k \in S THEN r ELSE kept[k]]
    PROVE  StoreInv'
<1>1. TypeOK /\ OffersAgree /\ MemoryLoads
  BY DEF StoreInv
<1>2. TypeOK'
  BY <1>1, NotingTyped DEF TypeOK
<1>3. MemoryLoads'
  BY <1>1, RecordsStored DEF MemoryLoads
<1>4. ASSUME NEW u \in Callers PROVE OfferAgrees(u)'
  <2>1. CASE u = t
    BY <2>1, <1>1, NotingTyped DEF OfferAgrees, Returned
  <2>2. CASE u # t /\ call[u].op \in {"sweep", "read"}
    <3>1. /\ call'[u].op = call[u].op /\ call'[u].scope = call[u].scope
          /\ call'[u].since = call[u].since
          /\ \A k \in Keys : call'[u].offer[k] =
                IF k \in S \cap call[u].scope THEN v ELSE call[u].offer[k]
      BY <1>1, <2>2, NotingTyped
    <3>2. call[u].scope \subseteq Keys
      BY <1>1, <2>2, CallTyped, StoreAssumption
    <3>3. OfferAgrees(u)
      BY <1>1 DEF OffersAgree, OfferAgrees
    <3>4. ASSUME NEW k \in call[u].scope
          PROVE  /\ Stored(k)' =>
                       \/ call'[u].offer[k] = kept'[k].value
                       \/ call[u].op = "sweep" /\ Expired(kept'[k], call[u].since)
                 /\ call[u].op = "read" => kept'[k] # Torn
      <4>1. CASE k \in S
        BY <1>1, <3>1, <3>2, <4>1, RecordsStored DEF Stored
      <4>2. CASE k \notin S
        BY <2>2, <3>1, <3>2, <3>3, <4>2 DEF Stored, OfferAgrees
      <4> QED
        BY <4>1, <4>2
    <3> QED
      BY <2>2, <3>1, <3>3, <3>4 DEF OfferAgrees, Expired
  <2>3. CASE u # t /\ call[u].op \notin {"sweep", "read"}
    BY <2>3, <1>1, NotingTyped DEF OfferAgrees
  <2> QED
    BY <2>1, <2>2, <2>3
<1> QED
  BY <1>2, <1>3, <1>4 DEF StoreInv, OffersAgree, OfferAgrees

LEMMA StepInv ==
    ASSUME StoreInv, NEW t \in Callers, Step(t), UNCHANGED <<clock, kind>>
    PROVE  StoreInv'
<1>1. /\ TypeOK /\ OffersAgree /\ MemoryLoads
      /\ clock \in Nat /\ kept \in [Keys -> Record \cup {Nothing, Torn}]
      /\ call \in [Callers -> Calls] /\ \A u \in Callers : OfferAgrees(u)
  BY DEF StoreInv, TypeOK, OffersAgree, OfferAgrees
<1>2. \A S \in Scopes : S \subseteq Keys
  BY StoreAssumption
(* A call that begins or returns and notes nothing, while records vanish.  *)
<1>3. ASSUME NEW c \in Calls, call' = [call EXCEPT ![t] = c],
             \A k \in Keys : kept'[k] \in {kept[k], Nothing},
             kept' \in [Keys -> Record \cup {Nothing, Torn}],
             OfferAgrees(t)'
      PROVE  StoreInv'
  <2>1. TypeOK' /\ MemoryLoads'
    BY <1>1, <1>3, RecordsStored DEF TypeOK, MemoryLoads
  <2>2. ASSUME NEW u \in Callers \ {t} PROVE OfferAgrees(u)'
    <3>1. call'[u] = call[u] /\ OfferAgrees(u)
      BY <1>1, <1>3
    <3>2. call[u].op \in {"sweep", "read"} => call[u].scope \subseteq Keys
      BY <1>1, <1>2, CallTyped
    <3> QED
      BY <1>3, <3>1, <3>2, RecordsStored, <1>1 DEF OfferAgrees, Stored, Expired
  <2> QED
    BY <1>3, <2>1, <2>2 DEF StoreInv, OffersAgree, OfferAgrees
<1>4. ASSUME NEW r \in (SUBSET (Keys \X Values)) \cup {Error}, Return(t, r),
             \A k \in Keys : kept'[k] \in {kept[k], Nothing},
             kept' \in [Keys -> Record \cup {Nothing, Torn}]
      PROVE  StoreInv'
  <2>1. Returned(r) \in Calls
    BY DEF Returned, Calls
  <2>2. call' = [call EXCEPT ![t] = Returned(r)]
    BY <1>4 DEF Return
  <2>3. call'[t].op = "returned"
    BY <1>1, <2>2 DEF Returned
  <2>4. OfferAgrees(t)'
    BY <2>3 DEF OfferAgrees
  <2> QED
    BY <1>3, <1>4, <2>1, <2>2, <2>4
<1>5. ASSUME NEW k \in Keys, GetStep(t, k) PROVE StoreInv'
  <2> DEFINE r == IF Live(k) THEN {<<k, kept[k].value>>} ELSE {}
  <2>1. r \in (SUBSET (Keys \X Values)) \cup {Error}
    BY <1>1, RecordsStored DEF Live
  <2>2. Return(t, r)
    BY <1>5 DEF GetStep
  <2>3. /\ \A j \in Keys : kept'[j] \in {kept[j], Nothing}
        /\ kept' \in [Keys -> Record \cup {Nothing, Torn}]
    BY <1>1, <1>5 DEF GetStep
  <2> QED
    BY <1>4, <2>1, <2>2, <2>3
<1>6. ASSUME NEW k \in Keys, DeleteStep(t, k) PROVE StoreInv'
  <2>1. kept' = [j \in Keys |-> IF j \in {k} THEN Nothing ELSE kept[j]]
    BY <1>1, <1>6 DEF DeleteStep
  <2> QED
    BY <1>1, <1>6, <2>1, NotingStep, RecordsStored DEF DeleteStep
<1>7. ASSUME NEW k \in Keys, NEW v \in Values, NEW ttl \in Lifetimes \cup {Never},
             BeginPut(t, k, v, ttl)
      PROVE  StoreInv'
  <2> DEFINE c == [op |-> "put", key |-> k, value |-> v, ttl |-> ttl, since |-> clock]
  <2>1. c \in Calls /\ c.op = "put"
    BY <1>1 DEF Calls
  <2>2. call' = [call EXCEPT ![t] = c] /\ kept' = kept
    BY <1>7 DEF BeginPut
  <2> HIDE DEF c
  <2>3. OfferAgrees(t)'
    BY <1>1, <2>1, <2>2 DEF OfferAgrees
  <2> QED
    BY <1>1, <1>3, <2>1, <2>2, <2>3
<1>8. ASSUME NEW S \in Scopes, BeginClear(t, S) PROVE StoreInv'
  <2> DEFINE c == [op |-> "clear", scope |-> S]
  <2>1. c \in Calls /\ c.op = "clear"
    BY DEF Calls
  <2>2. call' = [call EXCEPT ![t] = c] /\ kept' = kept
    BY <1>8 DEF BeginClear
  <2> HIDE DEF c
  <2>3. OfferAgrees(t)'
    BY <1>1, <2>1, <2>2 DEF OfferAgrees
  <2> QED
    BY <1>1, <1>3, <2>1, <2>2, <2>3
<1>9. ASSUME NEW S \in Scopes, NEW l \in BOOLEAN, BeginSweepStep(t, S, l) PROVE StoreInv'
  <2> DEFINE c == [op |-> "sweep", scope |-> S, lists |-> l, since |-> clock, offer |-> Offer(S)]
  <2>1. /\ Offer(S) \in [Keys -> Values \cup {Nothing}]
        /\ \A k \in S : Offer(S)[k] = IF Live(k) THEN kept[k].value ELSE Nothing
    BY <1>1, <1>2, RecordsStored DEF Offer, Live
  <2>2. c \in Calls
    BY <1>1, <2>1 DEF Calls
  <2>3. c.op = "sweep" /\ c.scope = S /\ c.since = clock /\ c.offer = Offer(S)
    OBVIOUS
  <2>4. call' = [call EXCEPT ![t] = c] /\ kept' = kept
    BY <1>9 DEF BeginSweepStep
  <2> HIDE DEF c
  <2>5. call'[t] = c
    BY <1>1, <2>4
  <2>6. OfferAgrees(t)'
    BY <1>1, <2>1, <2>3, <2>4, <2>5 DEF OfferAgrees, Live, Stored, Expired
  <2> QED
    BY <1>1, <1>3, <2>2, <2>4, <2>6
<1>10. CASE PutStep(t)
  <2> DEFINE c == call[t]
  <2>1. /\ c.key \in Keys /\ c.value \in Values /\ Made(c) \in Record /\ Made(c).value = c.value
    BY <1>1, <1>10, CallTyped, MadeTyped DEF PutStep
  <2>2. ReturnNoting(t, {c.key}, c.value) /\ kept' = [kept EXCEPT ![c.key] = Made(c)]
    BY <1>10 DEF PutStep
  <2> HIDE DEF c
  <2>3. kept' = [j \in Keys |-> IF j \in {c.key} THEN Made(c) ELSE kept[j]]
    BY <1>1, <2>2
  <2>4. {c.key} \in SUBSET Keys /\ Made(c) \in Record \cup {Nothing}
    BY <2>1
  <2> QED
    BY <2>1, <2>2, <2>3, <2>4, NotingStep
<1>11. CASE ClearStep(t)
  <2>1. call[t].scope \subseteq Keys
    BY <1>1, <1>2, <1>11, CallTyped DEF ClearStep
  <2> QED
    BY <1>1, <1>11, <2>1, NotingStep, RecordsStored DEF ClearStep
<1>12. CASE SweepStep(t)
  <2> DEFINE c == call[t]
  <2>1. /\ c.op = "sweep" /\ c.scope \in Scopes /\ c.scope \subseteq Keys
        /\ c.lists \in BOOLEAN /\ c.since \in Nat
        /\ c.offer \in [Keys -> Values \cup {Nothing}] /\ c \in Calls
        /\ \A k \in c.scope : kept[k] # Torn
    BY <1>1, <1>2, <1>12, CallTyped DEF SweepStep
  <2>2. \A k \in Keys : kept'[k] =
            IF k \in c.scope /\ Stored(k) /\ Expired(kept[k], c.since) THEN Nothing ELSE kept[k]
    BY <1>12 DEF SweepStep
  <2>3. kept' \in [Keys -> Record \cup {Nothing, Torn}]
    BY <1>1, <1>12 DEF SweepStep
  <2>4. call' = [call EXCEPT ![t] = IF c.lists THEN [c EXCEPT !.op = "read"] ELSE Returned({})]
    BY <1>12 DEF SweepStep
  <2>5. OfferAgrees(t)
    BY <1>1
  <2>6. CASE ~c.lists
    <3>1. Return(t, {})
      BY <2>4, <2>6 DEF Return
    <3> QED
      BY <1>4, <2>2, <2>3, <3>1
  <2>7. CASE c.lists
    <3> DEFINE d == [c EXCEPT !.op = "read"]
    <3>1. /\ d \in Calls /\ d.op = "read" /\ d.scope = c.scope /\ d.offer = c.offer
      BY <2>1, <2>7 DEF Calls
    <3>2. call' = [call EXCEPT ![t] = d]
      BY <2>4, <2>7
    <3> HIDE DEF d
    <3>3. call'[t] = d
      BY <1>1, <3>2
    <3>4. ASSUME NEW k \in c.scope
          PROVE  /\ Stored(k)' => c.offer[k] = kept'[k].value
                 /\ kept'[k] # Torn
      BY <2>1, <2>2, <2>5, <1>1, RecordsStored DEF OfferAgrees, Stored
    <3>5. OfferAgrees(t)'
      BY <3>1, <3>3, <3>4 DEF OfferAgrees
    <3> QED
      BY <1>3, <2>2, <2>3, <3>1, <3>2, <3>5
  <2> QED
    BY <2>1, <2>6, <2>7
<1>13. CASE ReadStep(t)
  <2>1. call[t].scope \subseteq Keys
    BY <1>1, <1>2, <1>13, CallTyped DEF ReadStep
  <2> DEFINE r == {<<k, kept[k].value>> : k \in {j \in call[t].scope : Stored(j)}}
  <2>2. r \in (SUBSET (Keys \X Values)) \cup {Error}
    BY <1>1, <2>1, RecordsStored
  <2>3. Return(t, r) /\ kept' = kept
    BY <1>13 DEF ReadStep
  <2> HIDE DEF r
  <2> QED
    BY <1>1, <1>4, <2>2, <2>3
<1>14. CASE FailStep(t)
  <2>1. Return(t, Error) /\ kept' = kept
    BY <1>14 DEF FailStep
  <2>2. Error \in (SUBSET (Keys \X Values)) \cup {Error}
    OBVIOUS
  <2>3. /\ \A k \in Keys : kept'[k] \in {kept[k], Nothing}
        /\ kept' \in [Keys -> Record \cup {Nothing, Torn}]
    BY <1>1, <2>1
  <2> QED
    BY <1>4, <2>1, <2>2, <2>3
<1> QED
  BY <1>5, <1>6, <1>7, <1>8, <1>9, <1>10, <1>11, <1>12, <1>13, <1>14 DEF Step

LEMMA CrashInv ==
    ASSUME StoreInv, Crash, UNCHANGED <<clock, kind>>
    PROVE  StoreInv'
<1>1. /\ TypeOK /\ clock \in Nat /\ MemoryLoads
      /\ kept \in [Keys -> Record \cup {Nothing, Torn}]
  BY DEF StoreInv, TypeOK
<1>2. /\ call' \in [Callers -> Calls]
      /\ \A t \in Callers : call'[t].op = "returned"
  BY DEF Crash, Returned, Calls
<1>3. kept' \in [Keys -> Record \cup {Nothing, Torn}]
  BY <1>1 DEF Crash
<1>4. MemoryLoads'
  BY RecordsStored, <1>1 DEF Crash, MemoryLoads
<1> QED
  BY <1>1, <1>2, <1>3, <1>4 DEF StoreInv, TypeOK, OffersAgree

(* The invariant of both stores, across threads and crashes.               *)
THEOREM StoresAreSound == Spec => []StoreInv
<1>1. Init => StoreInv
  <2> SUFFICES ASSUME Init PROVE StoreInv
    OBVIOUS
  <2>1. /\ kind \in {"memory", "files"} /\ clock = 0
        /\ kept = [k \in Keys |-> Nothing]
        /\ call = [t \in Callers |-> Returned({})]
    BY DEF Init, Memory!Init, Files!Init, Memory!Returned, Files!Returned, Returned
  <2>2. Returned({}) \in Calls /\ Returned({}).op = "returned"
    BY DEF Returned, Calls
  <2>3. TypeOK
    BY <2>1, <2>2 DEF TypeOK
  <2>4. OffersAgree
    BY <2>1, <2>2 DEF OffersAgree
  <2>5. MemoryLoads
    BY <2>1, StoreAssumption DEF MemoryLoads
  <2> QED
    BY <2>3, <2>4, <2>5 DEF StoreInv
<1>2. StoreInv /\ [Next]_vars => StoreInv'
  <2> SUFFICES ASSUME StoreInv, [Next]_vars PROVE StoreInv'
    OBVIOUS
  <2>1. CASE Next /\ UNCHANGED clock /\ (Crash \/ \E t \in Callers : Step(t))
    BY <2>1, NextSteps, StepInv, CrashInv
  <2>2. CASE UNCHANGED kind /\ Tick
    <3>1. /\ clock \in Nat /\ clock' = clock + 1 /\ UNCHANGED <<kept, call, kind>>
      BY <2>2 DEF Tick, StoreInv, TypeOK
    <3>2. TypeOK' /\ MemoryLoads'
      BY <3>1 DEF StoreInv, TypeOK, MemoryLoads
    <3>3. \A t \in Callers : call[t].op = "sweep" => call[t].since \in Nat
      BY CallTyped DEF StoreInv
    <3>4. OffersAgree'
      BY <3>1, <3>3 DEF StoreInv, OffersAgree, Stored, Expired
    <3> QED
      BY <3>2, <3>4 DEF StoreInv
  <2>3. CASE UNCHANGED vars
    BY <2>3 DEF vars, StoreInv, TypeOK, OffersAgree, MemoryLoads, Stored, Expired
  <2> QED
    BY <2>1, <2>2, <2>3, NextSteps
<1> QED
  BY <1>1, <1>2, PTL DEF Spec

-----------------------------------------------------------------------------
(* The mapping of Promise: what the store counts as kept, and calls as the *)
(* promise sees them.                                                      *)
KeptSeen == [k \in Keys |-> IF Stored(k) /\ ~Live(k) THEN Nothing ELSE kept[k]]

AsSeen(c) ==
    IF c.op \in {"sweep", "read"}
      THEN [op |-> "sweep", scope |-> c.scope, lists |-> c.lists, offer |-> c.offer]
      ELSE c

CallSeen == [t \in Callers |-> AsSeen(call[t])]

LEMMA KeptSeenIs ==
    ASSUME TypeOK, NEW k \in Keys
    PROVE  /\ kept[k] = Torn => KeptSeen[k] = Torn
           /\ Live(k) => KeptSeen[k] = kept[k] /\ kept[k] \in Record
           /\ ~Live(k) /\ kept[k] # Torn => KeptSeen[k] = Nothing
           /\ KeptSeen[k] = Torn => kept[k] = Torn
           /\ KeptSeen[k] \in Record => Live(k)
           /\ KeptSeen[k] \in Record \cup {Nothing, Torn}
BY RecordsStored DEF KeptSeen, Live, Stored, TypeOK

(* What the promise sees of the calls after one of them has changed.       *)
LEMMA ChangeSeen ==
    ASSUME TypeOK, NEW t \in Callers, NEW c, call' = [call EXCEPT ![t] = c]
    PROVE  CallSeen' = [CallSeen EXCEPT ![t] = AsSeen(c)]
<1>1. call \in [Callers -> Calls]
  BY DEF TypeOK
<1>2. CallSeen' = [u \in Callers |-> AsSeen(call'[u])]
  BY DEF CallSeen, AsSeen
<1>3. [CallSeen EXCEPT ![t] = AsSeen(c)] =
         [u \in Callers |-> IF u = t THEN AsSeen(c) ELSE AsSeen(call[u])]
  BY DEF CallSeen
<1>4. \A u \in Callers : AsSeen(call'[u]) = IF u = t THEN AsSeen(c) ELSE AsSeen(call[u])
  BY <1>1
<1> QED
  BY <1>2, <1>3, <1>4

LEMMA ReturnSeen ==
    ASSUME TypeOK, NEW t \in Callers, NEW r, Return(t, r)
    PROVE  CallSeen' = [CallSeen EXCEPT ![t] = Returned(r)]
<1>1. call' = [call EXCEPT ![t] = Returned(r)]
  BY DEF Return
<1>2. AsSeen(Returned(r)) = Returned(r)
  BY DEF AsSeen, Returned
<1> QED
  BY <1>1, <1>2, ChangeSeen

LEMMA SeenIs ==
    ASSUME TypeOK, NEW t \in Callers
    PROVE  /\ CallSeen[t] = AsSeen(call[t])
           /\ call[t].op \in {"sweep", "read"} =>
                 /\ CallSeen[t] = [op |-> "sweep", scope |-> call[t].scope,
                                   lists |-> call[t].lists, offer |-> call[t].offer]
                 /\ CallSeen[t].op = "sweep" /\ CallSeen[t].scope = call[t].scope
                 /\ CallSeen[t].lists = call[t].lists /\ CallSeen[t].offer = call[t].offer
           /\ call[t].op \notin {"sweep", "read"} => CallSeen[t] = call[t]
           /\ CallSeen[t].op \in {"sweep", "read"} <=> call[t].op \in {"sweep", "read"}
BY DEF CallSeen, AsSeen

(* What was changed is noted for a call of records, as the promise sees it. *)
LEMMA NotedSeen ==
    ASSUME TypeOK, NEW t \in Callers, NEW S, NEW v \in Values \cup {Nothing}, ReturnNoting(t, S, v),
           NEW u \in Callers \ {t}, call[u].op \in {"sweep", "read"}
    PROVE  AsSeen(call'[u]) = [CallSeen[u] EXCEPT !.offer =
               [k \in Keys |-> IF k \in S \cap CallSeen[u].scope THEN v ELSE @[k]]]
<1> DEFINE offer == [k \in Keys |-> IF k \in S \cap call[u].scope THEN v ELSE call[u].offer[k]]
<1>1. call'[u] = [call[u] EXCEPT !.offer = offer]
  BY DEF ReturnNoting
<1>2. /\ call[u] \in Calls
      /\ call'[u].op = call[u].op /\ call'[u].scope = call[u].scope
      /\ call'[u].lists = call[u].lists
  <2>1. call[u] \in Calls
    BY CallTyped
  <2>2. /\ call'[u].op = call[u].op /\ call'[u].scope = call[u].scope
        /\ call'[u].lists = call[u].lists
    BY NotingTyped
  <2> QED
    BY <2>1, <2>2
<1>3. call[u].scope \in Scopes /\ call[u].offer \in [Keys -> Values \cup {Nothing}]
  BY CallTyped
<1>4. [CallSeen[u] EXCEPT !.offer = [k \in Keys |->
           IF k \in S \cap CallSeen[u].scope THEN v ELSE @[k]]] = [CallSeen[u] EXCEPT !.offer = offer]
  BY SeenIs
<1> HIDE DEF offer
<1>5. call'[u].offer = offer
  BY <1>1, <1>2 DEF Calls
<1>6. AsSeen(call'[u]) =
         [op |-> "sweep", scope |-> call[u].scope, lists |-> call[u].lists, offer |-> offer]
  BY <1>2, <1>5 DEF AsSeen
<1>7. [CallSeen[u] EXCEPT !.offer = offer] =
         [op |-> "sweep", scope |-> call[u].scope, lists |-> call[u].lists, offer |-> offer]
  <2>1. CallSeen[u] = [op |-> "sweep", scope |-> call[u].scope,
                       lists |-> call[u].lists, offer |-> call[u].offer]
    BY SeenIs
  <2> QED
    BY <2>1
<1> QED
  BY <1>4, <1>6, <1>7

LEMMA NotingSeen ==
    ASSUME TypeOK, NEW t \in Callers, NEW S, NEW v \in Values \cup {Nothing}, ReturnNoting(t, S, v)
    PROVE  CallSeen' =
              [u \in Callers |->
                 IF u = t THEN Returned({})
                 ELSE IF CallSeen[u].op \in {"sweep", "read"}
                   THEN [CallSeen[u] EXCEPT !.offer =
                            [k \in Keys |-> IF k \in S \cap CallSeen[u].scope THEN v ELSE @[k]]]
                 ELSE CallSeen[u]]
<1> DEFINE Noted(u) == [CallSeen[u] EXCEPT !.offer =
               [k \in Keys |-> IF k \in S \cap CallSeen[u].scope THEN v ELSE @[k]]]
<1>1. AsSeen(call'[t]) = Returned({})
  BY NotingTyped DEF AsSeen, Returned
<1>2. \A u \in Callers \ {t} : call[u].op \in {"sweep", "read"} => AsSeen(call'[u]) = Noted(u)
  BY NotedSeen
<1>3. ASSUME NEW u \in Callers \ {t}, call[u].op \notin {"sweep", "read"}
      PROVE  AsSeen(call'[u]) = CallSeen[u]
  BY <1>3, NotingTyped, SeenIs
<1>4. CallSeen' = [u \in Callers |-> AsSeen(call'[u])]
  BY DEF CallSeen, AsSeen
<1> HIDE DEF Noted
<1>5. \A u \in Callers : AsSeen(call'[u]) =
          IF u = t THEN Returned({})
          ELSE IF CallSeen[u].op \in {"sweep", "read"} THEN Noted(u) ELSE CallSeen[u]
  BY <1>1, <1>2, <1>3, SeenIs
<1>6. CallSeen' = [u \in Callers |->
          IF u = t THEN Returned({})
          ELSE IF CallSeen[u].op \in {"sweep", "read"} THEN Noted(u) ELSE CallSeen[u]]
  BY <1>4, <1>5
<1> QED
  BY <1>6 DEF Noted

(* A record, as the promise sees it.                                       *)
RecordSeen(r) == IF r \notin {Nothing, Torn} /\ Expired(r, clock) THEN Nothing ELSE r

LEMMA KeptSeenAll ==
    /\ KeptSeen = [k \in Keys |-> RecordSeen(kept[k])]
    /\ clock' = clock => KeptSeen' = [k \in Keys |-> RecordSeen(kept'[k])]
BY DEF KeptSeen, RecordSeen, Stored, Live

LEMMA VanishedSeen ==
    ASSUME StoreInv, UNCHANGED clock,
           \A k \in Keys : \/ kept'[k] = kept[k]
                           \/ Stored(k) /\ ~Live(k) /\ kept'[k] = Nothing
    PROVE  KeptSeen' = KeptSeen
<1>1. \A k \in Keys : RecordSeen(kept'[k]) = RecordSeen(kept[k])
  BY DEF RecordSeen, Stored, Live
<1> QED
  BY <1>1, KeptSeenAll

(* The steps of a thread are steps of the promise.                         *)
LEMMA GetKept ==
    ASSUME StoreInv, NEW t \in Callers, NEW k \in Keys, GetStep(t, k), UNCHANGED clock
    PROVE  Promise!Get(t, k)
<1>1. TypeOK /\ kept \in [Keys -> Record \cup {Nothing, Torn}]
  BY DEF StoreInv, TypeOK
<1>2. KeptSeen' = KeptSeen
  <2>1. Live(k) => kept' = kept
    BY DEF GetStep
  <2>2. ~Live(k) => kept' = [kept EXCEPT ![k] = Nothing]
    BY DEF GetStep
  <2>3. \A j \in Keys : \/ kept'[j] = kept[j]
                        \/ Stored(j) /\ ~Live(j) /\ kept'[j] = Nothing
    BY <1>1, <2>1, <2>2 DEF GetStep, Stored
  <2> QED
    BY <2>3, VanishedSeen
<1>3. CallSeen[t].op = "returned"
  BY <1>1, SeenIs DEF GetStep, Free
<1>4. CallSeen' = [CallSeen EXCEPT ![t] = Returned(
          IF KeptSeen[k] = Torn THEN Error
          ELSE IF KeptSeen[k] = Nothing THEN {} ELSE {<<k, KeptSeen[k].value>>})]
  <2>1. Return(t, IF Live(k) THEN {<<k, kept[k].value>>} ELSE {}) /\ kept[k] # Torn
    BY DEF GetStep
  <2>2. (IF KeptSeen[k] = Torn THEN Error
         ELSE IF KeptSeen[k] = Nothing THEN {} ELSE {<<k, KeptSeen[k].value>>})
        = IF Live(k) THEN {<<k, kept[k].value>>} ELSE {}
    BY <1>1, <2>1, KeptSeenIs, RecordsStored
  <2> QED
    BY <1>1, <2>1, <2>2, ReturnSeen
<1> QED
  BY <1>2, <1>3, <1>4
  DEF Promise!Get, Promise!Free, Promise!Return, Promise!Returned, Returned,
      KeptSeen, CallSeen, AsSeen

LEMMA DeleteKept ==
    ASSUME StoreInv, NEW t \in Callers, NEW k \in Keys, DeleteStep(t, k), UNCHANGED clock
    PROVE  Promise!Delete(t, k)
<1>1. TypeOK /\ kept \in [Keys -> Record \cup {Nothing, Torn}]
  BY DEF StoreInv, TypeOK
<1>2. KeptSeen' = [KeptSeen EXCEPT ![k] = Nothing]
  <2>1. kept' = [kept EXCEPT ![k] = Nothing]
    BY DEF DeleteStep
  <2>2. \A j \in Keys : RecordSeen(kept'[j]) = IF j = k THEN Nothing ELSE RecordSeen(kept[j])
    BY <1>1, <2>1 DEF RecordSeen
  <2> QED
    BY <2>2, KeptSeenAll
<1>3. CallSeen[t].op = "returned"
  BY <1>1, SeenIs DEF DeleteStep, Free
<1>4. ReturnNoting(t, {k}, Nothing)
  BY DEF DeleteStep
<1> QED
  BY <1>1, <1>2, <1>3, <1>4, NotingSeen
  DEF Promise!Delete, Promise!Free, Promise!ReturnNoting, Promise!Returned, Returned,
      KeptSeen, CallSeen, AsSeen

LEMMA PutKept ==
    ASSUME StoreInv, NEW t \in Callers, PutStep(t), UNCHANGED clock
    PROVE  Promise!EndPut(t)
<1> DEFINE c == call[t]
<1>1. TypeOK /\ kept \in [Keys -> Record \cup {Nothing, Torn}]
  BY DEF StoreInv, TypeOK
<1>2. /\ c.op = "put" /\ kept[c.key] # Torn /\ kept' = [kept EXCEPT ![c.key] = Made(c)]
      /\ ReturnNoting(t, {c.key}, c.value)
  BY DEF PutStep
<1>3. c.key \in Keys /\ c.value \in Values /\ Made(c) \in Record
  BY <1>1, <1>2, CallTyped, MadeTyped
<1>4. CallSeen[t] = c
  BY <1>1, <1>2, SeenIs
<1> HIDE DEF c
<1>5. KeptSeen' = [KeptSeen EXCEPT ![c.key] =
                      IF Expired(Made(c), clock) THEN Nothing ELSE Made(c)]
  <2>1. \A j \in Keys : RecordSeen(kept'[j]) =
            IF j = c.key THEN IF Expired(Made(c), clock) THEN Nothing ELSE Made(c)
            ELSE RecordSeen(kept[j])
    BY <1>1, <1>2, <1>3, RecordsStored DEF RecordSeen
  <2> QED
    BY <1>3, <2>1, KeptSeenAll
<1>6. KeptSeen[c.key] # Torn
  BY <1>1, <1>2, <1>3, KeptSeenIs
<1>7. CallSeen' =
        [u \in Callers |->
           IF u = t THEN Returned({})
           ELSE IF CallSeen[u].op \in {"sweep", "read"}
             THEN [CallSeen[u] EXCEPT !.offer =
                     [k \in Keys |-> IF k \in {c.key} \cap CallSeen[u].scope THEN c.value ELSE @[k]]]
           ELSE CallSeen[u]]
  BY <1>1, <1>2, <1>3, NotingSeen
<1>8. CallSeen[t].op = "put" /\ CallSeen[t].key = c.key /\ CallSeen[t].value = c.value
  BY <1>2, <1>4
<1>9. KeptSeen' = [KeptSeen EXCEPT ![CallSeen[t].key] =
                      IF Expired(Made(CallSeen[t]), clock) THEN Nothing ELSE Made(CallSeen[t])]
  BY <1>4, <1>5
<1>10. CallSeen' =
        [u \in Callers |->
           IF u = t THEN Returned({})
           ELSE IF CallSeen[u].op \in {"sweep", "read"}
             THEN [CallSeen[u] EXCEPT !.offer =
                     [k \in Keys |-> IF k \in {CallSeen[t].key} \cap CallSeen[u].scope
                                       THEN CallSeen[t].value ELSE @[k]]]
           ELSE CallSeen[u]]
  BY <1>7, <1>8
<1>11. KeptSeen[CallSeen[t].key] # Torn
  BY <1>6, <1>8
<1> QED
  BY <1>8, <1>9, <1>10, <1>11
  DEF Promise!EndPut, Promise!Left, Promise!Made, Made, Promise!Expired, Expired,
      Promise!ReturnNoting, Promise!Returned, Returned, KeptSeen, CallSeen, AsSeen

LEMMA ClearKept ==
    ASSUME StoreInv, NEW t \in Callers, ClearStep(t), UNCHANGED clock
    PROVE  Promise!EndClear(t)
<1> DEFINE S == call[t].scope
<1>1. TypeOK /\ kept \in [Keys -> Record \cup {Nothing, Torn}]
  BY DEF StoreInv, TypeOK
<1>2. /\ call[t].op = "clear" /\ kept' = [k \in Keys |-> IF k \in S THEN Nothing ELSE kept[k]]
      /\ ReturnNoting(t, S, Nothing)
  BY DEF ClearStep
<1>3. CallSeen[t].op = "clear" /\ CallSeen[t].scope = S
  BY <1>1, <1>2, SeenIs
<1> HIDE DEF S
<1>4. KeptSeen' = [k \in Keys |-> IF k \in S THEN Nothing ELSE KeptSeen[k]]
  <2>1. \A j \in Keys : RecordSeen(kept'[j]) =
            IF j \in S THEN Nothing ELSE RecordSeen(kept[j])
    BY <1>2 DEF RecordSeen
  <2> QED
    BY <2>1, KeptSeenAll
<1>5. KeptSeen' = [k \in Keys |-> IF k \in CallSeen[t].scope THEN Nothing ELSE KeptSeen[k]]
  BY <1>3, <1>4
<1>6. CallSeen' =
        [u \in Callers |->
           IF u = t THEN Returned({})
           ELSE IF CallSeen[u].op \in {"sweep", "read"}
             THEN [CallSeen[u] EXCEPT !.offer =
                     [k \in Keys |-> IF k \in S \cap CallSeen[u].scope THEN Nothing ELSE @[k]]]
           ELSE CallSeen[u]]
  BY <1>1, <1>2, NotingSeen
<1>7. CallSeen' =
        [u \in Callers |->
           IF u = t THEN Returned({})
           ELSE IF CallSeen[u].op \in {"sweep", "read"}
             THEN [CallSeen[u] EXCEPT !.offer =
                     [k \in Keys |-> IF k \in CallSeen[t].scope \cap CallSeen[u].scope
                                       THEN Nothing ELSE @[k]]]
           ELSE CallSeen[u]]
  BY <1>3, <1>6
<1> QED
  BY <1>3, <1>5, <1>7
  DEF Promise!EndClear, Promise!ReturnNoting, Promise!Returned, Returned,
      KeptSeen, CallSeen, AsSeen

(* A call that begins.                                                     *)
LEMMA BeginKept ==
    ASSUME StoreInv, NEW t \in Callers, UNCHANGED clock
    PROVE  /\ \A k \in Keys, v \in Values, ttl \in Lifetimes \cup {Never} :
                BeginPut(t, k, v, ttl) => Promise!BeginPut(t, k, v, ttl)
           /\ \A S \in Scopes : BeginClear(t, S) => Promise!BeginClear(t, S)
           /\ \A S \in Scopes, l \in BOOLEAN : BeginSweepStep(t, S, l) => Promise!BeginScan(t, S, l)
<1>1. TypeOK
  BY DEF StoreInv
<1>2. kept' = kept => KeptSeen' = KeptSeen
  BY VanishedSeen
<1>3. Free(t) => CallSeen[t].op = "returned"
  BY <1>1, SeenIs DEF Free
<1>4. ASSUME NEW k \in Keys, NEW v \in Values, NEW ttl \in Lifetimes \cup {Never},
             BeginPut(t, k, v, ttl)
      PROVE  Promise!BeginPut(t, k, v, ttl)
  <2> DEFINE c == [op |-> "put", key |-> k, value |-> v, ttl |-> ttl, since |-> clock]
  <2>1. call' = [call EXCEPT ![t] = c] /\ AsSeen(c) = c
    BY <1>4 DEF BeginPut, AsSeen
  <2> HIDE DEF c
  <2>2. CallSeen' = [CallSeen EXCEPT ![t] = c]
    BY <1>1, <2>1, ChangeSeen
  <2> QED
    BY <1>2, <1>3, <1>4, <2>2
    DEF BeginPut, Promise!BeginPut, Promise!Free, KeptSeen, CallSeen, AsSeen, c
<1>5. ASSUME NEW S \in Scopes, BeginClear(t, S) PROVE Promise!BeginClear(t, S)
  <2> DEFINE c == [op |-> "clear", scope |-> S]
  <2>1. call' = [call EXCEPT ![t] = c] /\ AsSeen(c) = c
    BY <1>5 DEF BeginClear, AsSeen
  <2> HIDE DEF c
  <2>2. CallSeen' = [CallSeen EXCEPT ![t] = c]
    BY <1>1, <2>1, ChangeSeen
  <2> QED
    BY <1>2, <1>3, <1>5, <2>2
    DEF BeginClear, Promise!BeginClear, Promise!Free, KeptSeen, CallSeen, AsSeen, c
<1>6. ASSUME NEW S \in Scopes, NEW l \in BOOLEAN, BeginSweepStep(t, S, l)
      PROVE  Promise!BeginScan(t, S, l)
  <2> DEFINE c == [op |-> "sweep", scope |-> S, lists |-> l, since |-> clock, offer |-> Offer(S)]
             d == [op |-> "sweep", scope |-> S, lists |-> l, offer |-> Offer(S)]
  <2>1. call' = [call EXCEPT ![t] = c] /\ AsSeen(c) = d
    BY <1>6 DEF BeginSweepStep, AsSeen
  <2>2. Offer(S) = Promise!Offer(S)
    <3>1. \A k \in Keys :
             /\ Live(k) <=> KeptSeen[k] \notin {Nothing, Torn} /\ ~Expired(KeptSeen[k], clock)
             /\ Live(k) => kept[k].value = KeptSeen[k].value
      BY <1>1, KeptSeenIs, RecordsStored DEF Live
    <3>2. Offer(S) = [k \in Keys |->
             IF k \in S /\ KeptSeen[k] \notin {Nothing, Torn} /\ ~Expired(KeptSeen[k], clock)
               THEN KeptSeen[k].value ELSE Nothing]
      BY <3>1 DEF Offer
    <3> QED
      BY <3>2 DEF Promise!Offer, Promise!Live, Promise!Stored, Promise!Expired, Expired, KeptSeen
  <2> HIDE DEF c
  <2>3. CallSeen' = [CallSeen EXCEPT ![t] = d]
    BY <1>1, <2>1, ChangeSeen
  <2>4. CallSeen' = [CallSeen EXCEPT ![t] =
            [op |-> "sweep", scope |-> S, lists |-> l, offer |-> Promise!Offer(S)]]
    BY <2>2, <2>3
  <2>5. Free(t) /\ kept' = kept
    BY <1>6 DEF BeginSweepStep
  <2> QED
    BY <1>2, <1>3, <2>4, <2>5
    DEF Promise!BeginScan, Promise!Free, KeptSeen, CallSeen, AsSeen
<1> QED
  BY <1>4, <1>5, <1>6

(* The cleanup of records changes nothing that the promise sees, for what  *)
(* had expired when it read the clock has expired.                         *)
LEMMA SweepKept ==
    ASSUME StoreInv, NEW t \in Callers, SweepStep(t), UNCHANGED clock
    PROVE  Promise!EndScan(t) \/ (KeptSeen' = KeptSeen /\ CallSeen' = CallSeen)
<1> DEFINE c == call[t]
<1>1. TypeOK /\ OffersAgree /\ clock \in Nat /\ kept \in [Keys -> Record \cup {Nothing, Torn}]
  BY DEF StoreInv, TypeOK
<1>2. /\ c.op = "sweep" /\ c.since <= clock /\ c.since \in Nat /\ c \in Calls
      /\ c.scope \subseteq Keys /\ \A k \in c.scope : kept[k] # Torn
  BY <1>1, CallTyped, StoreAssumption DEF SweepStep, OffersAgree
<1>3. \A k \in Keys : kept'[k] =
          IF k \in c.scope /\ Stored(k) /\ Expired(kept[k], c.since) THEN Nothing ELSE kept[k]
  BY DEF SweepStep
<1>4. call' = [call EXCEPT ![t] = IF c.lists THEN [c EXCEPT !.op = "read"] ELSE Returned({})]
  BY DEF SweepStep
<1>5. /\ CallSeen[t] = AsSeen(c) /\ CallSeen[t].op = "sweep"
      /\ CallSeen[t].scope = c.scope /\ CallSeen[t].lists = c.lists
  BY <1>1, <1>2, SeenIs
<1> HIDE DEF c
<1>6. KeptSeen' = KeptSeen
  <2>1. \A k \in Keys : Stored(k) /\ Expired(kept[k], c.since) => ~Live(k)
    BY <1>1, <1>2, RecordsStored DEF Expired, Live
  <2> QED
    BY <1>3, <2>1, VanishedSeen
<1>7. CASE c.lists
  <2> DEFINE d == [c EXCEPT !.op = "read"]
  <2>1. /\ d.op = "read" /\ d.scope = c.scope /\ d.lists = c.lists /\ d.offer = c.offer
    BY <1>2 DEF Calls
  <2>2. call' = [call EXCEPT ![t] = d]
    BY <1>4, <1>7
  <2> HIDE DEF d
  <2>3. AsSeen(d) = AsSeen(c)
    BY <1>2, <2>1 DEF AsSeen
  <2>4. CallSeen' = [CallSeen EXCEPT ![t] = CallSeen[t]]
    BY <1>1, <1>5, <2>2, <2>3, ChangeSeen
  <2> QED
    BY <1>6, <2>4 DEF CallSeen
<1>8. CASE ~c.lists
  <2>1. Return(t, {})
    BY <1>4, <1>8 DEF Return
  <2>2. CallSeen' = [CallSeen EXCEPT ![t] = Returned({})]
    BY <1>1, <2>1, ReturnSeen
  <2>3. \A k \in CallSeen[t].scope : KeptSeen[k] # Torn
    BY <1>1, <1>2, <1>5, KeptSeenIs
  <2>4. CallSeen[t].op = "sweep" /\ ~CallSeen[t].lists
    BY <1>5, <1>8
  <2>5. Promise!EndScan(t)
    BY <1>6, <2>2, <2>3, <2>4
    DEF Promise!EndScan, Promise!Return, Promise!Returned, Returned, KeptSeen, CallSeen, AsSeen
  <2> QED
    BY <2>5
<1> QED
  BY <1>7, <1>8

(* What records returns is among what it may return, by the invariant.     *)
LEMMA ReadKept ==
    ASSUME StoreInv, NEW t \in Callers, ReadStep(t), UNCHANGED clock
    PROVE  Promise!EndScan(t)
<1> DEFINE c == call[t]
           S == {k \in c.scope : Stored(k)}
<1>1. TypeOK /\ OffersAgree /\ kept \in [Keys -> Record \cup {Nothing, Torn}]
  BY DEF StoreInv, TypeOK
<1>2. /\ c.op = "read" /\ c.scope \subseteq Keys /\ c.lists
      /\ \A k \in c.scope : kept[k] # Torn
      /\ \A k \in S : c.offer[k] = kept[k].value
  BY <1>1, CallTyped, StoreAssumption DEF ReadStep, OffersAgree
<1>3. Return(t, {<<k, kept[k].value>> : k \in S}) /\ kept' = kept
  BY DEF ReadStep
<1>4. /\ CallSeen[t].op = "sweep" /\ CallSeen[t].scope = c.scope
      /\ CallSeen[t].lists = c.lists /\ CallSeen[t].offer = c.offer
  BY <1>1, <1>2, SeenIs
<1>5. S \in SUBSET CallSeen[t].scope /\ S \subseteq Keys /\ \A k \in S : Stored(k)
  BY <1>2, <1>4
<1>6. \A k \in CallSeen[t].scope : KeptSeen[k] # Torn
  BY <1>1, <1>2, <1>4, KeptSeenIs
<1>7. \A k \in CallSeen[t].scope : KeptSeen[k] # Nothing => k \in S
  BY <1>1, <1>2, <1>4, <1>6, KeptSeenIs DEF Live
<1> HIDE DEF S, c
<1>8. \A k \in S : CallSeen[t].offer[k] # Nothing
  BY <1>1, <1>2, <1>4, <1>5, RecordsStored
<1>9. {<<k, kept[k].value>> : k \in S} = {<<k, CallSeen[t].offer[k]>> : k \in S}
  BY <1>2, <1>4
<1>10. Return(t, {<<k, CallSeen[t].offer[k]>> : k \in S})
  BY <1>3, <1>9
<1>11. CallSeen' = [CallSeen EXCEPT ![t] = Returned({<<k, CallSeen[t].offer[k]>> : k \in S})]
  BY <1>1, <1>10, ReturnSeen
<1>12. KeptSeen' = KeptSeen
  BY <1>3, VanishedSeen
<1>13. CallSeen[t].lists
  BY <1>2, <1>4
<1> QED
  BY <1>4, <1>5, <1>6, <1>7, <1>8, <1>11, <1>12, <1>13
  DEF Promise!EndScan, Promise!Return, Promise!Returned, Returned, KeptSeen, CallSeen, AsSeen

(* A call that meets a torn payload raises, whichever call it is.          *)
LEMMA FailKept ==
    ASSUME StoreInv, NEW t \in Callers, FailStep(t), UNCHANGED clock
    PROVE  (\E k \in Keys : Promise!Get(t, k)) \/ Promise!EndPut(t) \/ Promise!EndScan(t)
<1>1. TypeOK
  BY DEF StoreInv
<1>2. CallSeen' = [CallSeen EXCEPT ![t] = Returned(Error)]
  BY <1>1, ReturnSeen DEF FailStep
<1>3. KeptSeen' = KeptSeen
  BY VanishedSeen DEF FailStep
<1>4. CASE Free(t) /\ \E k \in Keys : kept[k] = Torn
  <2>1. PICK k \in Keys : kept[k] = Torn
    BY <1>4
  <2>2. CallSeen[t].op = "returned" /\ KeptSeen[k] = Torn
    BY <1>1, <1>4, <2>1, SeenIs, KeptSeenIs DEF Free
  <2>3. Promise!Get(t, k)
    BY <1>2, <1>3, <2>2
    DEF Promise!Get, Promise!Free, Promise!Return, Promise!Returned, Returned,
        KeptSeen, CallSeen, AsSeen
  <2> QED
    BY <2>3
<1>5. CASE call[t].op = "put" /\ kept[call[t].key] = Torn
  <2>1. call[t].key \in Keys
    BY <1>1, <1>5, CallTyped
  <2>2. CallSeen[t].op = "put" /\ CallSeen[t].key = call[t].key
    BY <1>1, <1>5, SeenIs
  <2>3. KeptSeen[CallSeen[t].key] = Torn
    BY <1>1, <1>5, <2>1, <2>2, KeptSeenIs
  <2>4. Promise!EndPut(t)
    BY <1>2, <1>3, <2>2, <2>3
    DEF Promise!EndPut, Promise!Return, Promise!Returned, Returned, KeptSeen, CallSeen, AsSeen
  <2> QED
    BY <2>4
<1>6. CASE call[t].op \in {"sweep", "read"} /\ \E k \in call[t].scope : kept[k] = Torn
  <2>1. PICK k \in call[t].scope : kept[k] = Torn
    BY <1>6
  <2>2. k \in Keys
    BY <1>1, <1>6, CallTyped, StoreAssumption
  <2>3. CallSeen[t].op = "sweep" /\ k \in CallSeen[t].scope
    BY <1>1, <1>6, SeenIs
  <2>4. KeptSeen[k] = Torn
    BY <1>1, <2>1, <2>2, KeptSeenIs
  <2>5. Promise!EndScan(t)
    BY <1>2, <1>3, <2>3, <2>4
    DEF Promise!EndScan, Promise!Return, Promise!Returned, Returned, KeptSeen, CallSeen, AsSeen
  <2> QED
    BY <2>5
<1> QED
  BY <1>4, <1>5, <1>6 DEF FailStep

(* A crash damages or loses what the promise allows it to.                 *)
LEMMA CrashKept ==
    ASSUME StoreInv, Crash, UNCHANGED <<clock, kind>>
    PROVE  Promise!Crash
<1>1. TypeOK /\ kept \in [Keys -> Record \cup {Nothing, Torn}] /\ kind \in {"memory", "files"}
  BY DEF StoreInv, TypeOK
<1>2. CallSeen' = [t \in Callers |-> Returned({})]
  <2>1. call' = [t \in Callers |-> Returned({})]
    BY DEF Crash
  <2>2. AsSeen(Returned({})) = Returned({})
    BY DEF AsSeen, Returned
  <2>3. CallSeen' = [t \in Callers |-> AsSeen(call'[t])]
    BY DEF CallSeen, AsSeen
  <2> QED
    BY <2>1, <2>2, <2>3
<1>3. CASE kind = "files" /\ UNCHANGED kept
  <2>1. KeptSeen' = KeptSeen
    BY <1>3, VanishedSeen
  <2> QED
    BY <1>2, <1>3, <2>1
    DEF Promise!Crash, Promise!Remains, Promise!Returned, Returned, KeptSeen, CallSeen, AsSeen
<1>4. CASE kind = "memory" /\ kept' = [k \in Keys |-> Nothing]
  <2>1. KeptSeen' = [k \in Keys |-> Nothing]
    BY <1>4, KeptSeenAll DEF RecordSeen
  <2> QED
    BY <1>2, <1>4, <2>1
    DEF Promise!Crash, Promise!Returned, Returned, KeptSeen, CallSeen, AsSeen
<1>5. ASSUME kind = "files", NEW t \in Callers, call[t].op = "put", kept[call[t].key] # Torn,
             kept' = [kept EXCEPT ![call[t].key] = Torn]
      PROVE  Promise!Crash
  <2>1. call[t].key \in Keys
    BY <1>1, <1>5, CallTyped
  <2>2. CallSeen[t].op = "put" /\ CallSeen[t].key = call[t].key
    BY <1>1, <1>5, SeenIs
  <2>3. KeptSeen[CallSeen[t].key] # Torn
    BY <1>1, <1>5, <2>1, <2>2, KeptSeenIs
  <2>4. KeptSeen' = [KeptSeen EXCEPT ![CallSeen[t].key] = Torn]
    <3>1. \A k \in Keys : RecordSeen(kept'[k]) =
             IF k = call[t].key THEN Torn ELSE RecordSeen(kept[k])
      BY <1>1, <1>5, <2>1 DEF RecordSeen
    <3> QED
      BY <2>2, <3>1, KeptSeenAll
  <2> QED
    BY <1>2, <1>5, <2>2, <2>3, <2>4
    DEF Promise!Crash, Promise!Remains, Promise!Returned, Returned, KeptSeen, CallSeen, AsSeen
<1>6. ASSUME kind = "files", NEW t \in Callers, call[t].op = "clear",
             NEW S \in SUBSET call[t].scope,
             kept' = [k \in Keys |-> IF k \in S THEN Nothing ELSE kept[k]]
      PROVE  Promise!Crash
  <2>1. CallSeen[t].op = "clear" /\ S \in SUBSET CallSeen[t].scope
    BY <1>1, <1>6, SeenIs
  <2>2. KeptSeen' = [k \in Keys |-> IF k \in S THEN Nothing ELSE KeptSeen[k]]
    <3>1. \A k \in Keys : RecordSeen(kept'[k]) = IF k \in S THEN Nothing ELSE RecordSeen(kept[k])
      BY <1>6 DEF RecordSeen
    <3> QED
      BY <3>1, KeptSeenAll
  <2> QED
    BY <1>2, <1>6, <2>1, <2>2
    DEF Promise!Crash, Promise!Remains, Promise!Returned, Returned, KeptSeen, CallSeen, AsSeen
<1> QED
  BY <1>3, <1>4, <1>5, <1>6 DEF Crash

(* What expires as time passes vanishes.                                   *)
LEMMA TickKept ==
    ASSUME StoreInv, Tick
    PROVE  Promise!Pass
<1>1. TypeOK /\ clock \in Nat
  BY DEF StoreInv, TypeOK
<1>2. clock' = clock + 1 /\ kept' = kept /\ call' = call
  BY DEF Tick
<1>3. CallSeen' = CallSeen
  BY <1>2 DEF CallSeen, AsSeen
<1>4. ASSUME NEW k \in Keys, Stored(k), Expired(kept[k], clock)
      PROVE  Expired(kept[k], clock + 1)
  BY <1>1, <1>4, RecordsStored DEF Expired
<1>5. KeptSeen' = [k \in Keys |->
          IF Stored(k) /\ Expired(kept[k], clock + 1) THEN Nothing ELSE kept[k]]
  BY <1>2 DEF KeptSeen, Stored, Live, Expired
<1>6. ASSUME NEW k \in Keys
      PROVE  (IF KeptSeen[k] \notin {Nothing, Torn} /\ Expired(KeptSeen[k], clock + 1)
                THEN Nothing ELSE KeptSeen[k])
             = IF Stored(k) /\ Expired(kept[k], clock + 1) THEN Nothing ELSE kept[k]
  BY <1>4 DEF KeptSeen, Stored, Live
<1>7. KeptSeen' = [k \in Keys |->
          IF KeptSeen[k] \notin {Nothing, Torn} /\ Expired(KeptSeen[k], clock + 1)
            THEN Nothing ELSE KeptSeen[k]]
  BY <1>5, <1>6
<1> QED
  BY <1>2, <1>3, <1>7
  DEF Promise!Pass, Promise!Stored, Promise!Expired, Expired, KeptSeen, CallSeen, AsSeen

(* Either store, with its threads and its crashes, keeps the promise of    *)
(* StateStore: every call acts at one moment of its own, records leaves    *)
(* out nothing that is live and returns only what was live when it was     *)
(* called or was put since, expired or not, and a crash of                 *)
(* FsspecStateStore harms only what was being written or cleared.          *)
THEOREM StoresKeepPromise == Spec => ImplementsStore
<1>1. Init => Promise!Init
  <2> SUFFICES ASSUME Init PROVE Promise!Init
    OBVIOUS
  <2>1. /\ clock = 0
        /\ kept = [k \in Keys |-> Nothing]
        /\ call = [t \in Callers |-> Returned({})]
    BY DEF Init, Memory!Init, Files!Init, Memory!Returned, Files!Returned, Returned
  <2>2. KeptSeen = [k \in Keys |-> Nothing]
    BY <2>1 DEF KeptSeen
  <2>3. AsSeen(Returned({})) = Returned({})
    BY DEF AsSeen, Returned
  <2>4. CallSeen = [t \in Callers |-> Returned({})]
    BY <2>1, <2>3 DEF CallSeen
  <2> QED
    BY <2>1, <2>2, <2>4 DEF Promise!Init, Promise!Returned, Returned, KeptSeen, CallSeen, AsSeen
<1>2. StoreInv /\ [Next]_vars => [Promise!Next]_(Promise!vars)
  <2> SUFFICES ASSUME StoreInv, [Next]_vars PROVE [Promise!Next]_(Promise!vars)
    OBVIOUS
  <2>1. ASSUME UNCHANGED <<clock, kind>>, NEW t \in Callers, Step(t)
        PROVE  Promise!Step(t) \/ (KeptSeen' = KeptSeen /\ CallSeen' = CallSeen)
    <3>1. CASE \E k \in Keys : GetStep(t, k) \/ DeleteStep(t, k)
      BY <2>1, <3>1, GetKept, DeleteKept DEF Promise!Step
    <3>2. CASE \E k \in Keys, v \in Values, ttl \in Lifetimes \cup {Never} : BeginPut(t, k, v, ttl)
      BY <2>1, <3>2, BeginKept DEF Promise!Step
    <3>3. CASE \E S \in Scopes : BeginClear(t, S) \/ \E l \in BOOLEAN : BeginSweepStep(t, S, l)
      BY <2>1, <3>3, BeginKept DEF Promise!Step
    <3>4. CASE PutStep(t)
      BY <2>1, <3>4, PutKept DEF Promise!Step
    <3>5. CASE ClearStep(t)
      BY <2>1, <3>5, ClearKept DEF Promise!Step
    <3>6. CASE SweepStep(t)
      BY <2>1, <3>6, SweepKept DEF Promise!Step
    <3>7. CASE ReadStep(t)
      BY <2>1, <3>7, ReadKept DEF Promise!Step
    <3>8. CASE FailStep(t)
      BY <2>1, <3>8, FailKept DEF Promise!Step
    <3> QED
      BY <2>1, <3>1, <3>2, <3>3, <3>4, <3>5, <3>6, <3>7, <3>8 DEF Step
  <2>2. ASSUME UNCHANGED <<clock, kind>>, KeptSeen' = KeptSeen, CallSeen' = CallSeen
        PROVE  UNCHANGED Promise!vars
    BY <2>2 DEF Promise!vars, KeptSeen, CallSeen, AsSeen
  <2>3. CASE UNCHANGED <<clock, kind>> /\ \E t \in Callers : Step(t)
    <3>1. PICK t \in Callers : Step(t)
      BY <2>3
    <3>2. CASE Promise!Step(t)
      BY <2>3, <3>2 DEF Promise!Next
    <3>3. CASE KeptSeen' = KeptSeen /\ CallSeen' = CallSeen
      BY <2>2, <2>3, <3>3
    <3> QED
      BY <2>1, <2>3, <3>1, <3>2, <3>3
  <2>4. CASE UNCHANGED <<clock, kind>> /\ Crash
    BY <2>4, CrashKept DEF Promise!Next
  <2>5. CASE UNCHANGED kind /\ Tick
    BY <2>5, TickKept DEF Promise!Next
  <2>6. CASE UNCHANGED vars
    <3>1. UNCHANGED <<clock, kind, kept, call>>
      BY <2>6 DEF vars
    <3>2. KeptSeen' = KeptSeen /\ CallSeen' = CallSeen
      BY <3>1, VanishedSeen DEF CallSeen, AsSeen
    <3> QED
      BY <2>2, <3>1, <3>2
  <2> QED
    BY <2>3, <2>4, <2>5, <2>6, NextSteps
<1> QED
  BY <1>1, <1>2, StoresAreSound, PTL DEF Spec, ImplementsStore, Promise!Spec
==============================================================================
