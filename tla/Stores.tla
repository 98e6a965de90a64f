--------------------------------- MODULE Stores --------------------------------
(***************************************************************************)
(* Both implementations of the store of csp_bot/persistence.py, one of     *)
(* them chosen at startup, and the mapping to what they promise.           *)
(***************************************************************************)
EXTENDS StoreCalls

VARIABLE kind   \* the store that set_state_store was given

vars == <<clock, kept, call, kind>>

Memory == INSTANCE InMemoryStore
Files  == INSTANCE FsspecStore

Calls ==
    [op : {"returned"}, result : (SUBSET (Keys \X Values)) \cup {Error}]
    \cup [op : {"put"}, key : Keys, value : Values, ttl : Lifetimes \cup {Never}, since : Nat]
    \cup [op : {"clear"}, scope : Scopes]
    \cup [op : {"sweep"}, scope : Scopes, lists : BOOLEAN, since : Nat,
          offer : [Keys -> Values \cup {Nothing}]]
    \cup [op : {"read"}, scope : Scopes, lists : {TRUE}, since : Nat,
          offer : [Keys -> Values \cup {Nothing}]]

TypeOK ==
    /\ clock \in Nat
    /\ kind \in {"memory", "files"}
    /\ kept \in [Keys -> Record \cup {Nothing, Torn}]
    /\ call \in [Callers -> Calls]

Init ==
    /\ kind \in {"memory", "files"}
    /\ kind = "memory" => Memory!Init
    /\ kind = "files" => Files!Init

Next ==
    /\ \/ kind = "memory" /\ Memory!Next
       \/ kind = "files" /\ Files!Next
    /\ UNCHANGED kind

Spec == Init /\ [][Next]_vars
-----------------------------------------------------------------------------
(* A call of records is under way from its reading of the clock to its     *)
(* second acquisition of the lock, and what has expired counts as gone.    *)
Promise == INSTANCE StateStore WITH
    durable <- kind = "files",
    kept <- [k \in Keys |-> IF Stored(k) /\ ~Live(k) THEN Nothing ELSE kept[k]],
    call <- [t \in Callers |->
        IF call[t].op \in {"sweep", "read"}
          THEN [op |-> "sweep", scope |-> call[t].scope, lists |-> call[t].lists,
                offer |-> call[t].offer]
          ELSE call[t]]

(* Either store keeps the promise of StateStore, whatever threads and      *)
(* crashes do: expired records that have not been dropped are never seen   *)
(* by get; records, though it takes the lock twice, leaves out nothing     *)
(* that is live, and returns of each key only what was live when it was    *)
(* called or was put since, and has not been deleted or overwritten; and a *)
(* crash of the durable store damages or loses only what was being written *)
(* or cleared.  What was put since may have expired when records was       *)
(* called: RecordsAreUnexpired does not hold.                              *)
ImplementsStore == Promise!Spec

(* "Return unexpired records", says the Protocol of records: what it       *)
(* returns had not expired when it was called.  A TTL of 0, it says of     *)
(* put, expires immediately.                                               *)
RecordsAreUnexpired ==
    [][\A t \in Callers, k \in Keys :
         /\ call[t].op = "read"
         /\ call'[t].op = "returned"
         /\ Stored(k)
         /\ Expired(kept[k], call[t].since)
            => call'[t].result = Error \/ <<k, kept[k].value>> \notin call'[t].result]_vars

(* What a call of records may still return: its sweep, whose clock was     *)
(* read before it got the lock, leaves nothing that the caller may not     *)
(* see.  With it the invariant of the stores is inductive.                 *)
OffersAgree ==
    \A t \in Callers :
        /\ call[t].op \in {"sweep", "read"} =>
              \A k \in call[t].scope :
                 /\ Stored(k) =>
                       \/ call[t].offer[k] = kept[k].value
                       \/ call[t].op = "sweep" /\ Expired(kept[k], call[t].since)
                 /\ call[t].op = "read" => kept[k] # Torn
        /\ call[t].op = "sweep" => call[t].since <= clock

MemoryLoads == kind = "memory" => \A k \in Keys : kept[k] # Torn

StoreInv == TypeOK /\ OffersAgree /\ MemoryLoads
=============================================================================
