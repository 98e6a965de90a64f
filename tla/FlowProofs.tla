------------------------------ MODULE FlowProofs ------------------------------
(***************************************************************************)
(* The safety of MessageFlow, for any number of adapters, messages, ids    *)
(* and answers.                                                            *)
(***************************************************************************)
EXTENDS MessageFlow, WellFoundedInduction, FiniteSetTheorems, TLAPS

(* The parts of FlowInv: answers on their way out, messages on their way   *)
(* in.                                                                     *)
OutInv ==
    /\ NothingLost
    /\ InOrder
    /\ \A n \in last : Delivered(n)

HearInv ==
    /\ FirstAdapterHeard
    /\ \A b \in Backends : \A i \in DOMAIN arriving[b] : From(arriving[b][i]) = b

LEMMA FirstIsLeast ==
    ASSUME NEW ns \in SUBSET Nat, ns # {}
    PROVE  First(ns) \in ns /\ \A n \in ns : First(ns) <= n
<1> DEFINE R == OpToRel(<, Nat)
<1>1. IsWellFoundedOn(R, Nat)
  BY NatLessThanWellFounded
<1>2. \A x, y \in Nat : <<y, x>> \in R <=> y < x
  BY DEF OpToRel
<1> HIDE DEF R
<1>3. PICK x \in ns : \A y \in ns : ~(<<y, x>> \in R)
  BY <1>1, WFMin
<1>4. \A y \in ns : ~(y < x)
  BY <1>2, <1>3
<1>5. \A y \in ns : x <= y
  BY <1>4
<1> QED
  BY <1>5 DEF First

LEMMA OutType ==
    ASSUME TypeOK
    PROVE  /\ Out \subseteq DOMAIN answers
           /\ DOMAIN answers \subseteq Nat
<1>1. \A b \in Backends : \A i \in DOMAIN out[b] : out[b][i] \in DOMAIN answers
  BY DEF TypeOK
<1> QED
  BY <1>1 DEF Out, TypeOK

(* Steps that leave the answers alone.                                     *)
LEMMA OutUndisturbed ==
    ASSUME OutInv, UNCHANGED <<answers, buffer, last, batch, out>>
    PROVE  OutInv'
BY DEF OutInv, NothingLost, InOrder, Delivered, Out

(* Steps that leave the messages of the users alone.                       *)
LEMMA HearUndisturbed ==
    ASSUME HearInv, UNCHANGED <<arriving, accepted, seen, refused>>
    PROVE  HearInv'
BY DEF HearInv, FirstAdapterHeard

-----------------------------------------------------------------------------
(* The initial states.                                                     *)
LEMMA FlowInit == Init => TypeOK /\ OutInv /\ HearInv
<1> SUFFICES ASSUME Init PROVE TypeOK /\ OutInv /\ HearInv
  OBVIOUS
<1>1. TypeOK
  BY FlowAssumption DEF Init, TypeOK, Answer
<1>2. Out = {} /\ DOMAIN answers = {}
  BY DEF Init, Out
<1>3. OutInv
  BY <1>2 DEF Init, OutInv, NothingLost, InOrder
<1>4. HearInv
  BY DEF Init, HearInv, FirstAdapterHeard
<1> QED
  BY <1>1, <1>3, <1>4

LEMMA ArriveStep ==
    ASSUME TypeOK, OutInv, HearInv, NEW m \in Requests, Arrive(m)
    PROVE  TypeOK' /\ OutInv' /\ HearInv'
<1> USE DEF Arrive
<1>0. From(m) \in Backends
  BY FlowAssumption
<1>1. arriving' \in [Backends -> Seq(Requests)]
  BY <1>0 DEF TypeOK
<1>2. TypeOK'
  BY <1>1 DEF TypeOK, node, refusals, Answer
<1>3. OutInv'
  BY OutUndisturbed DEF node
<1>4. ASSUME NEW b \in Backends
      PROVE  /\ b # From(m) => arriving'[b] = arriving[b]
             /\ b = From(m) =>
                  /\ DOMAIN arriving'[b] = 1..(Len(arriving[b]) + 1)
                  /\ arriving'[b][Len(arriving[b]) + 1] = m
                  /\ \A i \in DOMAIN arriving[b] : arriving'[b][i] = arriving[b][i]
             /\ DOMAIN arriving[b] = 1..Len(arriving[b])
             /\ Len(arriving[b]) \in Nat
  BY <1>0 DEF TypeOK
<1>5. \A b \in Backends : \A i \in DOMAIN arriving'[b] : From(arriving'[b][i]) = b
  <2> SUFFICES ASSUME NEW b \in Backends, NEW i \in DOMAIN arriving'[b]
               PROVE  From(arriving'[b][i]) = b
    OBVIOUS
  <2>1. CASE b # From(m)
    BY <2>1, <1>4 DEF HearInv
  <2>2. CASE b = From(m) /\ i \in DOMAIN arriving[b]
    BY <2>2, <1>4 DEF HearInv
  <2>3. CASE b = From(m) /\ i \notin DOMAIN arriving[b]
    <3>1. i = Len(arriving[b]) + 1
      BY <2>3, <1>4
    <3> QED
      BY <3>1, <2>3, <1>4
  <2> QED
    BY <2>1, <2>2, <2>3
<1>6. FirstAdapterHeard'
  <2> SUFFICES ASSUME NEW x \in seen', From(x) = 1
               PROVE  \/ x \in accepted \cup refused
                      \/ \E i \in DOMAIN arriving'[1] : arriving'[1][i] = x
    BY DEF FirstAdapterHeard, refusals
  <2>1. 1 \in Backends
    BY FlowAssumption DEF Backends
  <2>2. CASE x = m
    <3>1. Len(arriving[1]) + 1 \in DOMAIN arriving'[1]
      BY <2>1, <2>2, <1>4
    <3> QED
      BY <3>1, <2>1, <2>2, <1>4
  <2>3. CASE x \in seen
    <3>1. CASE x \in accepted \cup refused
      BY <3>1
    <3>2. CASE \E i \in DOMAIN arriving[1] : arriving[1][i] = x
      <4>1. PICK i \in DOMAIN arriving[1] : arriving[1][i] = x
        BY <3>2
      <4>2. i \in DOMAIN arriving'[1] /\ arriving'[1][i] = x
        BY <4>1, <2>1, <1>4
      <4> QED
        BY <4>2
    <3> QED
      BY <3>1, <3>2, <2>3 DEF HearInv, FirstAdapterHeard
  <2> QED
    BY <2>2, <2>3
<1> QED
  BY <1>2, <1>3, <1>5, <1>6 DEF HearInv

(* Of the adapters that tick the first one comes first.                    *)
LEMMA LeftmostIsFirst ==
    ASSUME NEW T \in SUBSET Backends, T # {}
    PROVE  /\ Leftmost(T) \in T
           /\ 1 \in T => Leftmost(T) = 1
<1>1. T \in SUBSET Nat
  BY FlowAssumption DEF Backends
<1>2. Leftmost(T) = First(T)
  BY DEF Leftmost, First
<1>3. First(T) \in T /\ \A n \in T : First(T) <= n
  BY <1>1, FirstIsLeast
<1>4. \A n \in T : 1 <= n /\ n \in Int
  BY FlowAssumption DEF Backends
<1> QED
  BY <1>2, <1>3, <1>4

LEMMA HearStep ==
    ASSUME TypeOK, OutInv, HearInv, NEW T \in SUBSET Backends, Hear(T)
    PROVE  TypeOK' /\ OutInv' /\ HearInv'
<1> DEFINE m == Head(arriving[Leftmost(T)])
<1> USE DEF Hear
<1>0. Leftmost(T) \in T /\ (1 \in T => Leftmost(T) = 1)
  BY LeftmostIsFirst
<1>1. m \in Requests
  BY <1>0 DEF TypeOK
<1>2. arriving' \in [Backends -> Seq(Requests)]
  BY DEF TypeOK
<1>3. /\ accepted' \subseteq Requests
      /\ refusal' \in Outsiders \cup {Nobody}
      /\ refused' \subseteq Outsiders
      /\ told' \subseteq Outsiders
  BY <1>1 DEF TypeOK, refusals
<1>4. TypeOK'
  BY <1>2, <1>3 DEF TypeOK, Answer
<1>5. OutInv'
  BY OutUndisturbed
<1>6. ASSUME NEW b \in Backends
      PROVE  /\ b \notin T => arriving'[b] = arriving[b]
             /\ b \in T =>
                  /\ DOMAIN arriving'[b] = 1..(Len(arriving[b]) - 1)
                  /\ \A i \in DOMAIN arriving'[b] :
                        i + 1 \in DOMAIN arriving[b] /\ arriving'[b][i] = arriving[b][i + 1]
                  /\ Head(arriving[b]) = arriving[b][1]
             /\ DOMAIN arriving[b] = 1..Len(arriving[b])
             /\ Len(arriving[b]) \in Nat
  BY DEF TypeOK
<1>7. \A b \in Backends : \A i \in DOMAIN arriving'[b] : From(arriving'[b][i]) = b
  BY <1>6 DEF HearInv
<1>8. FirstAdapterHeard'
  <2> SUFFICES ASSUME NEW x \in seen, From(x) = 1
               PROVE  \/ x \in accepted' \cup refused'
                      \/ \E i \in DOMAIN arriving'[1] : arriving'[1][i] = x
    BY DEF FirstAdapterHeard
  <2>1. 1 \in Backends
    BY FlowAssumption DEF Backends
  <2>2. accepted \subseteq accepted' /\ refused \subseteq refused' /\ m \in accepted' \cup refused'
    BY DEF refusals
  <2>3. CASE x \in accepted \cup refused
    BY <2>2, <2>3
  <2>4. CASE \E i \in DOMAIN arriving[1] : arriving[1][i] = x
    <3>1. PICK i \in DOMAIN arriving[1] : arriving[1][i] = x
      BY <2>4
    <3>2. CASE 1 \notin T
      BY <3>1, <3>2, <2>1, <1>6
    <3>3. CASE 1 \in T /\ i = 1
      BY <3>1, <3>3, <2>1, <2>2, <1>0, <1>6
    <3>4. CASE 1 \in T /\ i # 1
      <4>1. i - 1 \in DOMAIN arriving'[1]
        BY <3>1, <3>4, <2>1, <1>6
      <4>2. arriving'[1][i - 1] = arriving[1][(i - 1) + 1]
        BY <4>1, <3>4, <2>1, <1>6
      <4>3. (i - 1) + 1 = i
        BY <3>1, <2>1, <1>6
      <4> QED
        BY <4>1, <4>2, <4>3, <3>1
    <3> QED
      BY <3>2, <3>3, <3>4
  <2> QED
    BY <2>3, <2>4 DEF HearInv, FirstAdapterHeard
<1> QED
  BY <1>4, <1>5, <1>7, <1>8 DEF HearInv

-----------------------------------------------------------------------------
(* An answer that is delivered stays delivered when answers are added and  *)
(* nothing is taken back.                                                  *)
LEMMA DeliveredStays ==
    ASSUME TypeOK, NEW n \in DOMAIN answers, Delivered(n),
           batch \cup Out \subseteq (batch \cup Out)',
           \A k \in DOMAIN answers : answers'[k] = answers[k]
    PROVE  Delivered(n)'
<1>1. batch \cup Out \subseteq DOMAIN answers
  BY OutType DEF TypeOK
<1> QED
  BY <1>1 DEF Delivered

LEMMA ExecuteStep ==
    ASSUME TypeOK, OutInv, HearInv, NEW m \in Requests, NEW id \in Ids \cup {NoId},
           Execute(m, id)
    PROVE  TypeOK' /\ OutInv' /\ HearInv'
<1> DEFINE a == [backend |-> From(m), id |-> id]
           new == Len(answers) + 1
<1> USE DEF Execute
<1>1. a \in Answer
  BY FlowAssumption DEF Answer
<1>2. /\ answers' \in Seq(Answer)
      /\ Len(answers') = new
      /\ DOMAIN answers = 1..Len(answers)
      /\ Len(answers) \in Nat
      /\ DOMAIN answers' = DOMAIN answers \cup {new}
      /\ \A k \in DOMAIN answers : answers'[k] = answers[k]
  <2>1. answers' = Append(answers, a)
    OBVIOUS
  <2> HIDE DEF a
  <2> QED
    BY <1>1, <2>1 DEF TypeOK
<1> HIDE DEF a
<1>3. Len(answers') <= MaxAnswers
  BY <1>2, FlowAssumption
<1>4. out' \in [Backends -> Seq(DOMAIN answers')]
  <2>1. \A b \in Backends : out[b] \in Seq(DOMAIN answers')
    BY <1>2 DEF TypeOK
  <2> QED
    BY <2>1 DEF TypeOK
<1>5. TypeOK'
  BY <1>2, <1>3, <1>4 DEF TypeOK, inbound, refusals
<1>6. Out' = Out /\ batch' = batch
  BY DEF Out
<1>7. buffer' = buffer \cup {new} /\ last' = last
  BY <1>2
<1>8. Out \subseteq DOMAIN answers /\ batch \subseteq DOMAIN answers /\ last \subseteq DOMAIN answers
  BY OutType DEF TypeOK
<1>9. \A n \in DOMAIN answers : Delivered(n) => Delivered(n)'
  BY <1>2, <1>6, DeliveredStays
<1>10. NothingLost'
  BY <1>2, <1>7, <1>9 DEF OutInv, NothingLost
<1>11. InOrder'
  <2>1. \A n \in Out \cup batch : n < new
    BY <1>2, <1>8
  <2>2. \A b \in Backends : \A i, j \in DOMAIN out'[b] : i < j => out'[b][i] < out'[b][j]
    BY DEF OutInv, InOrder
  <2>3. \A n \in Out', k \in batch' : n < k
    BY <1>6 DEF OutInv, InOrder
  <2>4. \A n \in (Out \cup batch)', k \in buffer' : n < k
    BY <2>1, <1>6, <1>7 DEF OutInv, InOrder
  <2> QED
    BY <2>2, <2>3, <2>4 DEF InOrder
<1>12. \A n \in last' : Delivered(n)'
  BY <1>7, <1>8, <1>9 DEF OutInv
<1>13. HearInv'
  BY HearUndisturbed DEF inbound, refusals
<1> QED
  BY <1>5, <1>10, <1>11, <1>12, <1>13 DEF OutInv

(* What the comparison with the last buffer leaves out is delivered.       *)
LEMMA LeftOutIsDelivered ==
    ASSUME TypeOK, OutInv, NEW n \in buffer, n \notin Fresh
    PROVE  \E k \in batch \cup Out :
              k < n /\ answers[k].id = answers[n].id /\ answers[n].id # NoId
<1>1. answers[n].id \in IdsOf(last)
  BY DEF Fresh
<1>2. PICK l \in last : answers[l].id = answers[n].id /\ answers[n].id # NoId
  BY <1>1 DEF IdsOf
<1>3. PICK k \in batch \cup Out : answers[k].id = answers[l].id
  BY DEF OutInv, Delivered
<1>4. k < n
  BY DEF OutInv, InOrder
<1> QED
  BY <1>2, <1>3, <1>4

LEMMA FlushStep ==
    ASSUME TypeOK, OutInv, HearInv, Flush
    PROVE  TypeOK' /\ OutInv' /\ HearInv'
<1> USE DEF Flush
<1>1. Fresh \subseteq buffer
  BY DEF Fresh
<1>2. TypeOK'
  BY <1>1, FlowAssumption DEF TypeOK, inbound, refusals
<1>3. HearInv'
  BY HearUndisturbed DEF inbound, refusals
<1>4. CASE buffer = {}
  <2>1. UNCHANGED <<answers, buffer, last, batch, out>>
    BY <1>4
  <2> QED
    BY <1>2, <1>3, <2>1, OutUndisturbed
<1>5. CASE buffer # {}
  <2>1. /\ batch' = batch \cup Fresh
        /\ last' = buffer
        /\ buffer' = {}
        /\ answers' = answers
    BY <1>5
  <2>2. Out' = Out
    BY DEF Out
  <2>3. \A n \in DOMAIN answers : Delivered(n) => Delivered(n)'
    BY <2>1, <2>2, DeliveredStays
  <2>4. \A n \in buffer : Delivered(n)'
    <3>1. \A n \in Fresh : Delivered(n)'
      BY <2>1 DEF Delivered
    <3>2. \A n \in buffer \ Fresh : Delivered(n)
      BY LeftOutIsDelivered DEF Delivered
    <3> QED
      BY <2>3, <3>1, <3>2 DEF TypeOK
  <2>5. NothingLost'
    BY <2>1, <2>3, <2>4 DEF OutInv, NothingLost
  <2>6. InOrder'
    <3>1. \A b \in Backends : \A i, j \in DOMAIN out'[b] : i < j => out'[b][i] < out'[b][j]
      BY DEF OutInv, InOrder
    <3>2. \A n \in Out', k \in batch' : n < k
      BY <1>1, <2>1, <2>2 DEF OutInv, InOrder
    <3> QED
      BY <2>1, <3>1, <3>2 DEF InOrder
  <2> QED
    BY <1>2, <1>3, <2>1, <2>4, <2>5, <2>6 DEF OutInv
<1> QED
  BY <1>2, <1>3, <1>4, <1>5

(* The answers that go out come from batch, the smallest number first.     *)
LEMMA PublishStep ==
    ASSUME TypeOK, OutInv, batch # {}, Publish(First(batch)),
           batch' = batch \ {First(batch)},
           UNCHANGED <<answers, buffer, last>>
    PROVE  OutInv' /\ out' \in [Backends -> Seq(DOMAIN answers)]
<1> DEFINE n == First(batch)
           c == answers[n].backend
<1>1. batch \subseteq DOMAIN answers /\ DOMAIN answers \subseteq Nat /\ Out \subseteq DOMAIN answers
  BY OutType DEF TypeOK
<1>2. n \in batch /\ \A k \in batch : n <= k
  BY <1>1, FirstIsLeast
<1>3. c \in Backends
  <2>1. n \in DOMAIN answers
    BY <1>1, <1>2
  <2>2. \A k \in DOMAIN answers : answers[k] \in Answer
    BY DEF TypeOK
  <2> QED
    BY <2>1, <2>2 DEF Answer
<1>4. out' = [out EXCEPT ![c] = Append(@, n)]
  BY DEF Publish
<1> HIDE DEF n, c
<1>5. out' \in [Backends -> Seq(DOMAIN answers)]
  BY <1>1, <1>2, <1>3, <1>4 DEF TypeOK
<1>6. ASSUME NEW b \in Backends
      PROVE  /\ b # c => out'[b] = out[b]
             /\ b = c => /\ DOMAIN out'[b] = 1..(Len(out[b]) + 1)
                         /\ out'[b][Len(out[b]) + 1] = n
                         /\ \A i \in DOMAIN out[b] : out'[b][i] = out[b][i]
             /\ DOMAIN out[b] = 1..Len(out[b])
             /\ Len(out[b]) \in Nat
  BY <1>1, <1>2, <1>3, <1>4 DEF TypeOK
<1>7. ASSUME NEW b \in Backends, NEW i \in DOMAIN out'[b]
      PROVE  \/ i \in DOMAIN out[b] /\ out'[b][i] = out[b][i]
             \/ b = c /\ i = Len(out[b]) + 1 /\ out'[b][i] = n
  <2>1. CASE i \in DOMAIN out[b]
    BY <2>1, <1>6
  <2>2. CASE i \notin DOMAIN out[b]
    <3>1. b = c
      BY <2>2, <1>6
    <3>2. i = Len(out[b]) + 1
      BY <3>1, <2>2, <1>6
    <3> QED
      BY <3>1, <3>2, <1>6
  <2> QED
    BY <2>1, <2>2
<1>8. Out' = Out \cup {n}
  <2>1. \A x : x \in Out <=> \E b \in Backends : \E i \in DOMAIN out[b] : x = out[b][i]
    BY DEF Out
  <2>2. \A x : x \in Out' <=> \E b \in Backends : \E i \in DOMAIN out'[b] : x = out'[b][i]
    BY DEF Out
  <2>3. \A x \in Out' : x \in Out \cup {n}
    BY <2>1, <2>2, <1>7
  <2>4. \A x \in Out : x \in Out'
    <3> SUFFICES ASSUME NEW x \in Out PROVE x \in Out'
      OBVIOUS
    <3>1. PICK b \in Backends : \E i \in DOMAIN out[b] : x = out[b][i]
      BY <2>1
    <3>2. PICK i \in DOMAIN out[b] : x = out[b][i]
      BY <3>1
    <3>3. i \in DOMAIN out'[b] /\ out'[b][i] = x
      BY <3>2, <1>6
    <3> QED
      BY <3>3, <2>2
  <2>5. n \in Out'
    <3>1. Len(out[c]) + 1 \in DOMAIN out'[c]
      BY <1>3, <1>6
    <3> QED
      BY <3>1, <1>3, <1>6, <2>2
  <2> QED
    BY <2>3, <2>4, <2>5
<1>9. (batch \cup Out)' = batch \cup Out
  BY <1>2, <1>8 DEF n
<1>10. \A k \in DOMAIN answers : Delivered(k) => Delivered(k)'
  BY <1>9, DeliveredStays
<1>11. NothingLost' /\ \A k \in last' : Delivered(k)'
  BY <1>10 DEF OutInv, NothingLost, TypeOK
<1>12. InOrder'
  <2>1. \A k \in Out : k < n
    BY <1>2 DEF OutInv, InOrder
  <2>2. ASSUME NEW b \in Backends, NEW i \in DOMAIN out'[b], NEW j \in DOMAIN out'[b], i < j
        PROVE  out'[b][i] < out'[b][j]
    <3>1. i \in DOMAIN out[b] /\ out'[b][i] = out[b][i]
      BY <2>2, <1>6, <1>7
    <3>2. CASE j \in DOMAIN out[b] /\ out'[b][j] = out[b][j]
      BY <2>2, <3>1, <3>2 DEF OutInv, InOrder
    <3>3. CASE b = c /\ out'[b][j] = n
      <4>1. out[b][i] \in Out
        BY <3>1 DEF Out
      <4> QED
        BY <4>1, <3>1, <3>3, <2>1
    <3> QED
      BY <3>2, <3>3, <1>7
  <2>3. \A x \in Out', k \in batch' : x < k
    <3>1. \A k \in batch' : n < k
      BY <1>1, <1>2 DEF n
    <3> QED
      BY <3>1, <1>8 DEF OutInv, InOrder
  <2>4. \A x \in (Out \cup batch)', k \in buffer' : x < k
    BY <1>9 DEF OutInv, InOrder
  <2> QED
    BY <2>2, <2>3, <2>4 DEF InOrder
<1> QED
  BY <1>5, <1>11, <1>12 DEF OutInv

LEMMA EndCycleStep ==
    ASSUME TypeOK, OutInv, HearInv, EndCycle
    PROVE  TypeOK' /\ OutInv' /\ HearInv'
<1> USE DEF EndCycle
<1>1. HearInv'
  BY HearUndisturbed DEF inbound
<1>2. /\ batch' \subseteq batch
      /\ told' \subseteq Outsiders
      /\ refusal' = Nobody
      /\ UNCHANGED <<inbound, wait, buffer, last, refused, answers>>
      /\ phase' = "idle"
  BY DEF MessagesOut, TypeOK
<1>3. OutInv' /\ out' \in [Backends -> Seq(DOMAIN answers)]
  <2>1. CASE batch # {}
    BY <2>1, PublishStep DEF MessagesOut
  <2>2. CASE batch = {}
    BY <2>2, OutUndisturbed DEF MessagesOut, TypeOK
  <2> QED
    BY <2>1, <2>2
<1>4. TypeOK'
  BY <1>2, <1>3 DEF TypeOK, inbound
<1> QED
  BY <1>1, <1>3, <1>4

LEMMA TickStep ==
    ASSUME TypeOK, OutInv, HearInv, Tick
    PROVE  TypeOK' /\ OutInv' /\ HearInv'
<1>1. TypeOK'
  BY FlowAssumption DEF Tick, TypeOK, inbound, refusals
<1>2. OutInv' /\ HearInv'
  BY OutUndisturbed, HearUndisturbed DEF Tick, inbound, refusals
<1> QED
  BY <1>1, <1>2

-----------------------------------------------------------------------------
(* The invariant of MessageFlow: types, no lost answer, the order of what  *)
(* is published, and the messages of the first adapter.                    *)
THEOREM FlowInvariance == Spec => []FlowInv
<1>1. FlowInv <=> TypeOK /\ OutInv /\ HearInv
  BY DEF FlowInv, OutInv, HearInv
<1>2. Init => FlowInv
  BY <1>1, FlowInit
<1>3. FlowInv /\ [Next]_vars => FlowInv'
  <2> SUFFICES ASSUME TypeOK, OutInv, HearInv, [Next]_vars
               PROVE  TypeOK' /\ OutInv' /\ HearInv'
    BY <1>1 DEF FlowInv, OutInv, HearInv
  <2>1. ASSUME NEW m \in Requests, Arrive(m) PROVE TypeOK' /\ OutInv' /\ HearInv'
    BY <2>1, ArriveStep
  <2>2. ASSUME NEW T \in SUBSET Backends, Hear(T) PROVE TypeOK' /\ OutInv' /\ HearInv'
    BY <2>2, HearStep
  <2>3. ASSUME NEW m \in Requests, NEW id \in Ids \cup {NoId}, Execute(m, id)
        PROVE  TypeOK' /\ OutInv' /\ HearInv'
    BY <2>3, ExecuteStep
  <2>4. CASE Flush
    BY <2>4, FlushStep
  <2>5. CASE EndCycle
    BY <2>5, EndCycleStep
  <2>6. CASE Tick
    BY <2>6, TickStep
  <2>7. CASE UNCHANGED vars
    <3>1. TypeOK'
      BY <2>7 DEF vars, inbound, node, refusals, TypeOK
    <3> QED
      BY <3>1, <2>7, OutUndisturbed, HearUndisturbed DEF vars, inbound, node, refusals
  <2> QED
    BY <2>1, <2>2, <2>3, <2>4, <2>5, <2>6, <2>7 DEF Next
<1> QED
  BY <1>2, <1>3, PTL DEF Spec

(* No answer of a command is lost on its way out.                          *)
THEOREM AnswersAreKept == Spec => []NothingLost
BY FlowInvariance, PTL DEF FlowInv

(* Adapters publish answers in order and none twice.                       *)
THEOREM AnswersKeepOrder == Spec => []InOrder
BY FlowInvariance, PTL DEF FlowInv

(* The bot hears every message of its first adapter.                       *)
THEOREM FirstAdapterIsHeard == Spec => []FirstAdapterHeard
BY FlowInvariance, PTL DEF FlowInv

-----------------------------------------------------------------------------
(* Refusals that neither went out nor may still do so in this cycle.       *)
Lost == refused \ (told \cup {refusal})

(* A refusal lives for one cycle, and no more are lost than answers went   *)
(* out.                                                                    *)
RefusalInv ==
    /\ phase = "idle" => refusal = Nobody
    /\ IsFiniteSet(Lost)
    /\ Cardinality(Lost) <= Cardinality(Out)

LEMMA IntervalsAreFinite ==
    ASSUME NEW n \in Nat
    PROVE  IsFiniteSet(1..n)
<1>1. 1 \in Int /\ n \in Int
  OBVIOUS
<1> QED
  BY <1>1, FS_Interval, Zenon

(* Losses L and answers O before and after a step that loses no refusal,   *)
(* and after one that loses at most y but publishes x.                     *)
LEMMA LosesNone ==
    ASSUME NEW n \in Nat, NEW O2 \in SUBSET (1..n), NEW O1 \in SUBSET O2,
           NEW L1, IsFiniteSet(L1), NEW L2 \in SUBSET L1,
           Cardinality(L1) <= Cardinality(O1)
    PROVE  IsFiniteSet(L2) /\ Cardinality(L2) <= Cardinality(O2)
<1>1. IsFiniteSet(O2)
  BY IntervalsAreFinite, FS_Subset
<1>2. IsFiniteSet(O1) /\ Cardinality(O1) <= Cardinality(O2)
  BY <1>1, FS_Subset
<1>3. IsFiniteSet(L2) /\ Cardinality(L2) <= Cardinality(L1)
  BY FS_Subset
<1>4. {Cardinality(O1), Cardinality(O2), Cardinality(L1), Cardinality(L2)} \subseteq Nat
  BY <1>1, <1>2, <1>3, FS_CardinalityType
<1> QED
  BY <1>2, <1>3, <1>4

LEMMA LosesOne ==
    ASSUME NEW n \in Nat, NEW O2 \in SUBSET (1..n), NEW O1 \in SUBSET O2,
           NEW x \in O2 \ O1,
           NEW L1, IsFiniteSet(L1), NEW y, NEW L2 \in SUBSET (L1 \cup {y}),
           Cardinality(L1) <= Cardinality(O1)
    PROVE  IsFiniteSet(L2) /\ Cardinality(L2) <= Cardinality(O2)
<1>1. O1 \in SUBSET (1..n) /\ O1 \cup {x} \in SUBSET O2
  OBVIOUS
<1>2. IsFiniteSet(O1)
  BY <1>1, IntervalsAreFinite, FS_Subset
<1>3. Cardinality(O1 \cup {x}) = Cardinality(O1) + 1
  BY <1>2, FS_AddElement
<1>4. /\ IsFiniteSet(L1 \cup {y})
      /\ Cardinality(L1 \cup {y}) <= Cardinality(L1) + 1
  <2>1. Cardinality(L1) \in Nat
    BY FS_CardinalityType
  <2>2. /\ IsFiniteSet(L1 \cup {y})
        /\ Cardinality(L1 \cup {y}) = IF y \in L1 THEN Cardinality(L1) ELSE Cardinality(L1) + 1
    BY FS_AddElement
  <2> QED
    BY <2>1, <2>2
<1>5. Cardinality(L1) \in Nat /\ Cardinality(O1) \in Nat
  BY <1>2, FS_CardinalityType
<1>6. Cardinality(L1 \cup {y}) \in Nat
  BY <1>4, FS_CardinalityType
<1>7. Cardinality(L1 \cup {y}) <= Cardinality(O1 \cup {x})
  BY <1>3, <1>4, <1>5, <1>6
<1> QED
  BY <1>1, <1>4, <1>7, LosesNone

LEMMA RefusalInit == Init => RefusalInv
<1> SUFFICES ASSUME Init PROVE RefusalInv
  OBVIOUS
<1>1. Lost = {} /\ Out = {}
  BY DEF Init, Lost, Out
<1> QED
  BY <1>1, FS_EmptySet DEF Init, RefusalInv

LEMMA PublishGrows ==
    ASSUME TypeOK, OutInv, batch # {}, Publish(First(batch))
    PROVE  Out \subseteq Out' /\ First(batch) \in Out' \ Out
<1> DEFINE n == First(batch)
           c == answers[n].backend
<1>1. batch \subseteq DOMAIN answers /\ DOMAIN answers \subseteq Nat /\ Out \subseteq DOMAIN answers
  BY OutType DEF TypeOK
<1>2. n \in batch
  BY <1>1, FirstIsLeast
<1>3. c \in Backends
  <2>1. \A k \in DOMAIN answers : answers[k] \in Answer
    BY DEF TypeOK
  <2> QED
    BY <1>1, <1>2, <2>1 DEF Answer
<1>4. n \notin Out
  <2>1. ~(n < n)
    BY <1>1, <1>2
  <2> QED
    BY <1>2, <2>1 DEF OutInv, InOrder
<1>5. out' = [out EXCEPT ![c] = Append(@, n)]
  BY DEF Publish
<1> HIDE DEF n, c
<1>6. out[c] \in Seq(DOMAIN answers)
  BY <1>3 DEF TypeOK
<1>7. /\ out'[c] = Append(out[c], n)
      /\ \A b \in Backends \ {c} : out'[b] = out[b]
  BY <1>3, <1>5 DEF TypeOK
<1>8. /\ Len(out[c]) + 1 \in DOMAIN out'[c]
      /\ out'[c][Len(out[c]) + 1] = n
      /\ DOMAIN out[c] \subseteq DOMAIN out'[c]
      /\ \A i \in DOMAIN out[c] : out'[c][i] = out[c][i]
  BY <1>1, <1>2, <1>6, <1>7
<1>9. n \in Out'
  BY <1>3, <1>8 DEF Out
<1>10. ASSUME NEW b \in Backends, NEW i \in DOMAIN out[b]
       PROVE  i \in DOMAIN out'[b] /\ out'[b][i] = out[b][i]
  BY <1>7, <1>8
<1>11. Out \subseteq Out'
  BY <1>10 DEF Out
<1> QED
  BY <1>4, <1>9, <1>11 DEF n

LEMMA RefusalStep ==
    ASSUME TypeOK, OutInv, RefusalInv, [Next]_vars, TypeOK'
    PROVE  RefusalInv'
<1>1. Out' \in SUBSET (1..Len(answers')) /\ Len(answers') \in Nat
  <2>1. \A b \in Backends : \A i \in DOMAIN out'[b] : out'[b][i] \in DOMAIN answers'
    BY DEF TypeOK
  <2>2. DOMAIN answers' = 1..Len(answers') /\ Len(answers') \in Nat
    BY DEF TypeOK
  <2> QED
    BY <2>1, <2>2 DEF Out
<1>2. Nobody \notin refused /\ Nobody \notin refused'
  BY FlowAssumption DEF TypeOK
<1>3. ASSUME Lost' \subseteq Lost, Out \subseteq Out', phase' = "idle" => refusal' = Nobody
      PROVE  RefusalInv'
  <2>1. IsFiniteSet(Lost') /\ Cardinality(Lost') <= Cardinality(Out')
    BY <1>1, <1>3, LosesNone DEF RefusalInv
  <2> QED
    BY <1>3, <2>1 DEF RefusalInv
<1>4. ASSUME UNCHANGED <<out, refused, told, refusal>>,
             phase' # "idle" \/ phase' = phase
      PROVE  RefusalInv'
  <2>1. Lost' = Lost /\ Out' = Out
    BY <1>4 DEF Lost, Out
  <2> QED
    BY <1>3, <1>4, <2>1 DEF RefusalInv
<1>5. ASSUME NEW T \in SUBSET Backends, Hear(T) PROVE RefusalInv'
  <2>1. /\ refusal = Nobody
        /\ phase' = "heard"
        /\ UNCHANGED <<out, told>>
        /\ \/ refused' = refused \cup {refusal'}
           \/ refused' = refused /\ refusal' = refusal
    BY <1>5 DEF Hear, RefusalInv, refusals
  <2>2. Lost' \subseteq Lost
    BY <2>1, <1>2 DEF Lost
  <2>3. Out' = Out
    BY <2>1 DEF Out
  <2> QED
    BY <2>1, <2>2, <2>3, <1>3
<1>6. CASE EndCycle
  <2>1. phase' = "idle" /\ refusal' = Nobody /\ refused' = refused
    BY <1>6 DEF EndCycle
  <2>2. CASE batch # {} /\ Publish(First(batch)) /\ told' = told
    <3>1. Out \subseteq Out' /\ First(batch) \in Out' \ Out
      BY <2>2, PublishGrows
    <3>2. Lost' \subseteq Lost \cup {refusal}
      BY <2>1, <2>2 DEF Lost
    <3>3. IsFiniteSet(Lost') /\ Cardinality(Lost') <= Cardinality(Out')
      BY <1>1, <3>1, <3>2, LosesOne DEF RefusalInv
    <3> QED
      BY <2>1, <3>3 DEF RefusalInv
  <2>3. CASE out' = out /\ (told' = told \cup {refusal} \/ (told' = told /\ refusal = Nobody))
    <3>1. Lost' \subseteq Lost
      BY <2>1, <2>3, <1>2 DEF Lost
    <3>2. Out' = Out
      BY <2>3 DEF Out
    <3> QED
      BY <2>1, <3>1, <3>2, <1>3
  <2> QED
    BY <1>6, <2>2, <2>3 DEF EndCycle, MessagesOut
<1>7. ASSUME NEW m \in Requests, Arrive(m) PROVE RefusalInv'
  BY <1>7, <1>4 DEF Arrive, node, refusals
<1>8. ASSUME NEW m \in Requests, NEW id \in Ids \cup {NoId}, Execute(m, id)
      PROVE  RefusalInv'
  BY <1>8, <1>4 DEF Execute, refusals
<1>9. CASE Flush
  BY <1>9, <1>4 DEF Flush, refusals
<1>10. CASE Tick
  BY <1>10, <1>4 DEF Tick, refusals
<1>11. CASE UNCHANGED vars
  BY <1>11, <1>4 DEF vars, node, refusals
<1> QED
  BY <1>5, <1>6, <1>7, <1>8, <1>9, <1>10, <1>11 DEF Next

(* Only answers that go out can take the place of a refusal, one each.     *)
THEOREM RefusalsYield == Spec => []RefusalsYieldToAnswers
<1>1. FlowInv => TypeOK /\ OutInv
  BY DEF FlowInv, OutInv
<1>2. RefusalInv => RefusalsYieldToAnswers
  BY DEF RefusalInv, Lost, RefusalsYieldToAnswers
<1>3. FlowInv /\ FlowInv' /\ RefusalInv /\ [Next]_vars => RefusalInv'
  <2> SUFFICES ASSUME FlowInv, FlowInv', RefusalInv, [Next]_vars PROVE RefusalInv'
    OBVIOUS
  <2>1. TypeOK'
    BY DEF FlowInv
  <2> QED
    BY <1>1, <2>1, RefusalStep
<1> QED
  BY <1>2, <1>3, RefusalInit, FlowInvariance, PTL DEF Spec
===============================================================================
