----------------------------- MODULE InMemoryStore -----------------------------
(***************************************************************************)
(* InMemoryStateStore of csp_bot/persistence.py: a dictionary under a      *)
(* lock.  An expired record stays in it until a get or a cleanup meets it. *)
(***************************************************************************)
EXTENDS StoreCalls

Init ==
    /\ clock = 0
    /\ kept = [k \in Keys |-> Nothing]
    /\ call = [t \in Callers |-> Returned({})]

Get(t, k) ==
    /\ Free(t)
    /\ kept' = IF Live(k) THEN kept ELSE [kept EXCEPT ![k] = Nothing]
    /\ Return(t, IF Live(k) THEN {<<k, kept[k].value>>} ELSE {})

EndPut(t) ==
    LET c == call[t] IN
    /\ c.op = "put"
    /\ kept' = [kept EXCEPT ![c.key] = Made(c)]
    /\ ReturnNoting(t, {c.key}, c.value)

Delete(t, k) ==
    /\ Free(t)
    /\ kept' = [kept EXCEPT ![k] = Nothing]
    /\ ReturnNoting(t, {k}, Nothing)

(* records (lists) and cleanup_expired read the clock...                   *)
BeginSweep(t, S, lists) ==
    /\ Free(t)
    /\ call' = [call EXCEPT ![t] = [op |-> "sweep", scope |-> S, lists |-> lists,
                                    since |-> clock, offer |-> Offer(S)]]
    /\ UNCHANGED kept

(* Faulty: records does not clean up before it reads.                      *)
SweepNothing(t) ==
    /\ call[t].op = "sweep"
    /\ call' = [call EXCEPT ![t] = IF @.lists THEN [@ EXCEPT !.op = "read"] ELSE Returned({})]
    /\ UNCHANGED kept

(* ... drop what had expired by then...                                    *)
Sweep(t) ==
    LET c == call[t] IN
    /\ c.op = "sweep"
    /\ kept' = [k \in Keys |->
           IF k \in c.scope /\ Stored(k) /\ Expired(kept[k], c.since) THEN Nothing ELSE kept[k]]
    /\ call' = [call EXCEPT ![t] = IF c.lists THEN [c EXCEPT !.op = "read"] ELSE Returned({})]

(* ... and records returns what it finds when it has the lock again.       *)
Read(t) ==
    /\ call[t].op = "read"
    /\ Return(t, {<<k, kept[k].value>> : k \in {j \in call[t].scope : Stored(j)}})
    /\ UNCHANGED kept

EndClear(t) ==
    /\ call[t].op = "clear"
    /\ kept' = [k \in Keys |-> IF k \in call[t].scope THEN Nothing ELSE kept[k]]
    /\ ReturnNoting(t, call[t].scope, Nothing)

(* The process dies, and the dictionary with it.                           *)
Crash ==
    /\ kept' = [k \in Keys |-> Nothing]
    /\ call' = [t \in Callers |-> Returned({})]

Step(t) ==
    \/ \E k \in Keys : Get(t, k) \/ Delete(t, k)
    \/ \E k \in Keys, v \in Values, ttl \in Lifetimes \cup {Never} : BeginPut(t, k, v, ttl)
    \/ \E S \in Scopes : BeginClear(t, S) \/ \E l \in BOOLEAN : BeginSweep(t, S, l)
    \/ EndPut(t)
    \/ EndClear(t)
    \/ Sweep(t)
    \/ Read(t)

Next ==
    \/ UNCHANGED clock /\ (Crash \/ \E t \in Callers : Step(t))
    \/ Tick
=============================================================================
