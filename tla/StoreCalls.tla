------------------------------- MODULE StoreCalls -------------------------------
(***************************************************************************)
(* The calls of StateStore in csp_bot/persistence.py, as its callers see   *)
(* them: what the abstract store and its two implementations share.        *)
(*                                                                         *)
(* A put reads the clock before it takes the lock, and so does a cleanup;  *)
(* what happens under the lock is one step, but for a crash.  A key stands *)
(* for a namespace and a key in it, and a scope for the keys of a          *)
(* namespace.                                                              *)
(*                                                                         *)
(* In the stores, definitions marked "Faulty" are broken versions of the   *)
(* definition that follows them: no action uses them.                      *)
(***************************************************************************)
EXTENDS Integers

CONSTANTS
    Callers,    \* the threads
    Keys,       \* namespaces with their keys
    Scopes,     \* the keys of each namespace, and all keys
    Values,     \* what is stored
    Lifetimes,  \* values of ttl_seconds, but for None; one below 0 is allowed
    Never,      \* no TTL, and no expiry
    Nothing,    \* no record
    Torn,       \* a payload that does not load
    Error,      \* the call raised
    MaxTime     \* bound on the clock

ASSUME StoreAssumption ==
    /\ \A S \in Scopes : S \subseteq Keys
    /\ Lifetimes \subseteq Int
    /\ Never \notin Int
    /\ MaxTime \in Nat
    /\ Nothing \notin Values
    /\ Nothing # Torn
    /\ Nothing \notin [value : Values, expires : Int \cup {Never}]
    /\ Torn \notin [value : Values, expires : Int \cup {Never}]

VARIABLES
    clock,
    kept,   \* the record of each key
    call    \* what each thread is doing, or what its last call returned

Record == [value : Values, expires : Int \cup {Never}]

(* StoredRecord.is_expired                                                 *)
Expired(r, t) == r.expires # Never /\ t >= r.expires

Stored(k) == kept[k] \notin {Nothing, Torn}
Live(k)   == Stored(k) /\ ~Expired(kept[k], clock)

Returned(r)  == [op |-> "returned", result |-> r]
Free(t)      == call[t].op = "returned"
Return(t, r) == call' = [call EXCEPT ![t] = Returned(r)]

(* The record that a put writes.                                           *)
Made(c) == [value |-> c.value, expires |-> IF c.ttl = Never THEN Never ELSE c.since + c.ttl]

BeginPut(t, k, v, ttl) ==
    /\ Free(t)
    /\ call' = [call EXCEPT ![t] = [op |-> "put", key |-> k, value |-> v,
                                    ttl |-> ttl, since |-> clock]]
    /\ UNCHANGED kept

BeginClear(t, S) ==
    /\ Free(t)
    /\ call' = [call EXCEPT ![t] = [op |-> "clear", scope |-> S]]
    /\ UNCHANGED kept

(* What records may return for each key of its scope: the value that was   *)
(* live when the call began, or has been written since, be it by a put     *)
(* whose record had expired before it was written.                         *)
Offer(S) == [k \in Keys |-> IF k \in S /\ Live(k) THEN kept[k].value ELSE Nothing]

(* Caller t has given the keys S the value v: every call of records that   *)
(* is under way may return it, and none may return what was there before.  *)
ReturnNoting(t, S, v) ==
    call' = [u \in Callers |->
        IF u = t THEN Returned({})
        ELSE IF call[u].op \in {"sweep", "read"}
          THEN [call[u] EXCEPT !.offer =
                   [k \in Keys |-> IF k \in S \cap call[u].scope THEN v ELSE @[k]]]
        ELSE call[u]]

Tick ==
    /\ clock < MaxTime
    /\ clock' = clock + 1
    /\ UNCHANGED <<kept, call>>
=============================================================================
