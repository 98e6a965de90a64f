------------------------------ MODULE FsspecStore ------------------------------
(***************************************************************************)
(* FsspecStateStore of csp_bot/persistence.py: one pickled file per key,   *)
(* under a lock of the process.  Opening a file for writing empties it, so *)
(* a crash in a put may leave a payload that does not load: _load_record   *)
(* raises, for put, get, records and cleanup_expired, until the file is    *)
(* deleted or cleared.                                                     *)
(***************************************************************************)
EXTENDS StoreCalls

Init ==
    /\ clock = 0
    /\ kept = [k \in Keys |-> Nothing]
    /\ call = [t \in Callers |-> Returned({})]

(* _load_record raises for a file of the scope.                            *)
Unloadable(S) == \E k \in S : kept[k] = Torn

Fail(t) == Return(t, Error) /\ UNCHANGED kept

(* Faulty: whether the record has expired is not looked at.                *)
GetAnything(t, k) ==
    /\ Free(t)
    /\ \/ Unloadable({k}) /\ Fail(t)
       \/ /\ ~Unloadable({k})
          /\ UNCHANGED kept
          /\ Return(t, IF Stored(k) THEN {<<k, kept[k].value>>} ELSE {})

Get(t, k) ==
    /\ Free(t)
    /\ \/ Unloadable({k}) /\ Fail(t)
       \/ /\ ~Unloadable({k})
          /\ kept' = IF Live(k) THEN kept ELSE [kept EXCEPT ![k] = Nothing]
          /\ Return(t, IF Live(k) THEN {<<k, kept[k].value>>} ELSE {})

(* Loading the old record comes before the new one is written.             *)
EndPut(t) ==
    LET c == call[t] IN
    /\ c.op = "put"
    /\ \/ Unloadable({c.key}) /\ Fail(t)
       \/ /\ ~Unloadable({c.key})
          /\ kept' = [kept EXCEPT ![c.key] = Made(c)]
          /\ ReturnNoting(t, {c.key}, c.value)

(* Deleting does not load.                                                 *)
Delete(t, k) ==
    /\ Free(t)
    /\ kept' = [kept EXCEPT ![k] = Nothing]
    /\ ReturnNoting(t, {k}, Nothing)

BeginSweep(t, S, lists) ==
    /\ Free(t)
    /\ call' = [call EXCEPT ![t] = [op |-> "sweep", scope |-> S, lists |-> lists,
                                    since |-> clock, offer |-> Offer(S)]]
    /\ UNCHANGED kept

(* All files of the scope are loaded before the first one is deleted.      *)
Sweep(t) ==
    LET c == call[t] IN
    /\ c.op = "sweep"
    /\ \/ Unloadable(c.scope) /\ Fail(t)
       \/ /\ ~Unloadable(c.scope)
          /\ kept' = [k \in Keys |->
                IF k \in c.scope /\ Stored(k) /\ Expired(kept[k], c.since)
                  THEN Nothing ELSE kept[k]]
          /\ call' = [call EXCEPT ![t] =
                IF c.lists THEN [c EXCEPT !.op = "read"] ELSE Returned({})]

Read(t) ==
    LET S == call[t].scope IN
    /\ call[t].op = "read"
    /\ \/ Unloadable(S) /\ Fail(t)
       \/ /\ ~Unloadable(S)
          /\ Return(t, {<<k, kept[k].value>> : k \in {j \in S : Stored(j)}})
          /\ UNCHANGED kept

EndClear(t) ==
    /\ call[t].op = "clear"
    /\ kept' = [k \in Keys |-> IF k \in call[t].scope THEN Nothing ELSE kept[k]]
    /\ ReturnNoting(t, call[t].scope, Nothing)

(* The process dies: between calls, while a put writes its file, or while  *)
(* a clear removes one file after the other.                               *)
Crash ==
    /\ \/ UNCHANGED kept
       \/ \E t \in Callers :
             /\ call[t].op = "put"
             /\ ~Unloadable({call[t].key})
             /\ kept' = [kept EXCEPT ![call[t].key] = Torn]
       \/ \E t \in Callers :
             /\ call[t].op = "clear"
             /\ \E S \in SUBSET call[t].scope :
                   kept' = [k \in Keys |-> IF k \in S THEN Nothing ELSE kept[k]]
    /\ call' = [t \in Callers |-> Returned({})]

Step(t) ==
    \/ \E k \in Keys : Get(t, k) \/ Delete(t, k)
    \/ \E k \in Keys, v \in Values, ttl \in Lifetimes \cup {Never} : BeginPut(t, k, v, ttl)
    \/ \E S \in Scopes : BeginClear(t, S) \/ \E l \in BOOLEAN : BeginSweep(t, S, l)
    \/ EndPut(t)
    \/ EndClear(t)
    \/ Sweep(t)
    \/ Read(t)

Next ==
    \/ UNCHANGED clock /\ (Crash \/ \E t \in Callers : Step(t))
    \/ Tick
=============================================================================
