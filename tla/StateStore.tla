------------------------------- MODULE StateStore -------------------------------
(***************************************************************************)
(* What StateStore of csp_bot/persistence.py promises to threads that      *)
(* share a store: a map from which records vanish when they expire.  Every *)
(* call acts on it at one moment, and records returns all that is there at *)
(* its last moment.  It may also return what was there when it was called, *)
(* or was put since, and has expired.  That is weaker than what the        *)
(* Protocol says: the record of a put that comes while records runs may    *)
(* have expired before records was called (see Stores).                    *)
(*                                                                         *)
(* A crash ends every call.  A durable store loses nothing but what some   *)
(* put was writing or some clear was removing at that moment, and the      *)
(* payload of that put may be torn: then every call that reads it raises.  *)
(***************************************************************************)
EXTENDS StoreCalls

VARIABLE durable    \* the map outlives the process

vars == <<clock, durable, kept, call>>

Init ==
    /\ clock = 0
    /\ durable \in BOOLEAN
    /\ kept = [k \in Keys |-> Nothing]
    /\ call = [t \in Callers |-> Returned({})]

Get(t, k) ==
    /\ Free(t)
    /\ Return(t, IF kept[k] = Torn THEN Error
                 ELSE IF kept[k] = Nothing THEN {} ELSE {<<k, kept[k].value>>})
    /\ UNCHANGED kept

Delete(t, k) ==
    /\ Free(t)
    /\ kept' = [kept EXCEPT ![k] = Nothing]
    /\ ReturnNoting(t, {k}, Nothing)

EndClear(t) ==
    /\ call[t].op = "clear"
    /\ kept' = [k \in Keys |-> IF k \in call[t].scope THEN Nothing ELSE kept[k]]
    /\ ReturnNoting(t, call[t].scope, Nothing)

(* A lifetime that has passed when the record is written leaves nothing.   *)
Left(c) == IF Expired(Made(c), clock) THEN Nothing ELSE Made(c)

EndPut(t) ==
    LET c == call[t] IN
    /\ c.op = "put"
    /\ \/ /\ kept[c.key] = Torn
          /\ Return(t, Error)
          /\ UNCHANGED kept
       \/ /\ kept[c.key] # Torn
          /\ kept' = [kept EXCEPT ![c.key] = Left(c)]
          /\ ReturnNoting(t, {c.key}, c.value)

BeginScan(t, S, lists) ==
    /\ Free(t)
    /\ call' = [call EXCEPT ![t] = [op |-> "sweep", scope |-> S, lists |-> lists,
                                    offer |-> Offer(S)]]
    /\ UNCHANGED kept

EndScan(t) ==
    LET c == call[t] IN
    /\ c.op = "sweep"
    /\ \/ /\ \E k \in c.scope : kept[k] = Torn
          /\ Return(t, Error)
       \/ /\ \A k \in c.scope : kept[k] # Torn
          /\ c.lists
          /\ \E S \in SUBSET c.scope :
                /\ \A k \in c.scope : kept[k] # Nothing => k \in S
                /\ \A k \in S : c.offer[k] # Nothing
                /\ Return(t, {<<k, c.offer[k]>> : k \in S})
       \/ /\ \A k \in c.scope : kept[k] # Torn
          /\ ~c.lists
          /\ Return(t, {})
    /\ UNCHANGED kept

(* What a crash may leave of a durable store.                              *)
Remains(new) ==
    \/ new = kept
    \/ \E t \in Callers :
          /\ call[t].op = "put"
          /\ kept[call[t].key] # Torn
          /\ new \in {[kept EXCEPT ![call[t].key] = r] : r \in {Left(call[t]), Torn}}
    \/ \E t \in Callers :
          /\ call[t].op = "clear"
          /\ \E S \in SUBSET call[t].scope :
                new = [k \in Keys |-> IF k \in S THEN Nothing ELSE kept[k]]

Crash ==
    /\ IF durable THEN Remains(kept') ELSE kept' = [k \in Keys |-> Nothing]
    /\ call' = [t \in Callers |-> Returned({})]

(* Time passes, and what expires is gone.                                  *)
Pass ==
    /\ clock' = clock + 1
    /\ kept' = [k \in Keys |-> IF Stored(k) /\ Expired(kept[k], clock + 1)
                                 THEN Nothing ELSE kept[k]]
    /\ UNCHANGED call

Step(t) ==
    \/ \E k \in Keys : Get(t, k) \/ Delete(t, k)
    \/ \E k \in Keys, v \in Values, ttl \in Lifetimes \cup {Never} : BeginPut(t, k, v, ttl)
    \/ \E S \in Scopes : BeginClear(t, S) \/ \E l \in BOOLEAN : BeginScan(t, S, l)
    \/ EndPut(t)
    \/ EndClear(t)
    \/ EndScan(t)

Next ==
    /\ UNCHANGED durable
    /\ \/ UNCHANGED clock /\ (Crash \/ \E t \in Callers : Step(t))
       \/ Pass

Spec == Init /\ [][Next]_vars
=============================================================================
