------------------------------- MODULE UserAccess -------------------------------
(***************************************************************************)
(* Who may talk to the bot on one backend: the users of its                *)
(* user_access_channels, as _update_user_access of csp_bot/bot.py fetched  *)
(* them last.  connect does so once, then a thread of its own repeats it.  *)
(* The channels are fetched one after the other while their members come   *)
(* and go; a fetch that fails leaves its channel out.                      *)
(*                                                                         *)
(* Definitions marked "Faulty" are broken versions of the definition that  *)
(* follows them: no action uses them.                                      *)
(***************************************************************************)
EXTENDS Integers, Sequences

CONSTANTS
    Users,
    AccessChannels, \* config.user_access_channels, in this order
    Refreshed       \* query_user_access_seconds is not 0

VARIABLES
    members,    \* who is in each channel, on the chat platform
    authorized, \* _authorized_users of the backend
    started,    \* connect has returned from the first refresh
    cursor,     \* the channel that is fetched next; 0 while the thread sleeps
    collected,  \* users, in _update_user_access
    seen,       \* history: who was in some channel at a time of this refresh
    steady,     \* history: who was in each fetched channel all through it
    lastSeen,   \* history: seen and steady of the refresh
    lastSteady, \*    that was completed last
    everSeen    \* history: who was in some channel at any time

accessVars == <<members, authorized, started, cursor, collected,
                seen, steady, lastSeen, lastSteady, everSeen>>

Places  == 1..Len(AccessChannels)
Anybody == UNION {members[i] : i \in Places}

TypeOK ==
    /\ members \in [Places -> SUBSET Users]
    /\ {authorized, collected, seen, lastSeen, lastSteady, everSeen} \subseteq SUBSET Users
    /\ steady \in [Places -> SUBSET Users]
    /\ started \in BOOLEAN
    /\ cursor \in 0..(Len(AccessChannels) + 1)

Init ==
    /\ members \in [Places -> SUBSET Users]
    /\ authorized = {}
    /\ started = FALSE
    /\ cursor = 0
    /\ collected = {}
    /\ seen = {} /\ steady = [i \in Places |-> {}]
    /\ lastSeen = {} /\ lastSteady = {}
    /\ everSeen = Anybody

Move(i, there) ==
    /\ members' = [members EXCEPT ![i] = there]
    /\ seen' = seen \cup there
    /\ steady' = [steady EXCEPT ![i] = @ \cap there]
    /\ everSeen' = everSeen \cup there
    /\ UNCHANGED <<authorized, started, cursor, collected, lastSeen, lastSteady>>

(* Faulty: users collected for the refresh before are kept.                *)
BeginWithOld ==
    /\ cursor = 0
    /\ ~started \/ Refreshed
    /\ cursor' = 1
    /\ seen' = Anybody
    /\ steady' = members
    /\ UNCHANGED <<members, authorized, started, collected, lastSeen, lastSteady, everSeen>>

(* connect, and then the loop of the thread.                               *)
Begin ==
    /\ cursor = 0
    /\ ~started \/ Refreshed
    /\ cursor' = 1
    /\ collected' = {}
    /\ seen' = Anybody
    /\ steady' = members
    /\ UNCHANGED <<members, authorized, started, lastSeen, lastSteady, everSeen>>

Fetch ==
    /\ cursor \in Places
    /\ cursor' = cursor + 1
    /\ \/ /\ collected' = collected \cup members[cursor]
          /\ UNCHANGED steady
       \/ /\ steady' = [steady EXCEPT ![cursor] = {}]
          /\ UNCHANGED collected
    /\ UNCHANGED <<members, authorized, started, seen, lastSeen, lastSteady, everSeen>>

(* Faulty: the old users are added to, not replaced.                       *)
StoreMore ==
    /\ cursor = Len(AccessChannels) + 1
    /\ cursor' = 0
    /\ authorized' = authorized \cup collected
    /\ started' = TRUE
    /\ lastSeen' = seen
    /\ lastSteady' = UNION {steady[i] : i \in Places}
    /\ UNCHANGED <<members, collected, seen, steady, everSeen>>

Store ==
    /\ cursor = Len(AccessChannels) + 1
    /\ cursor' = 0
    /\ authorized' = collected
    /\ started' = TRUE
    /\ lastSeen' = seen
    /\ lastSteady' = UNION {steady[i] : i \in Places}
    /\ UNCHANGED <<members, collected, seen, steady, everSeen>>

(* _is_authorized                                                          *)
IsAuthorized(u) == u \in authorized

Next ==
    \/ \E i \in Places, there \in SUBSET Users : Move(i, there)
    \/ Begin
    \/ Fetch
    \/ Store

Refresh == Begin \/ Fetch \/ Store
-----------------------------------------------------------------------------
(* A user is authorised only if he was in an access channel at some time   *)
(* of the last completed refresh, and is if one channel whose fetch        *)
(* succeeded had him all the time.  One who moved from the second channel  *)
(* to the first between their fetches was never out, and is not.           *)
AccessIsFresh ==
    /\ authorized \subseteq lastSeen
    /\ lastSteady \subseteq authorized

(* A user who leaves the access channels for good is not authorised for    *)
(* ever, whatever fetches fail.                                            *)
RevokedInTheEnd ==
    \A u \in Users : Refreshed /\ <>[](u \notin Anybody) => <>[](u \notin authorized)

(* What AccessIsFresh rests on, while a refresh is under way.              *)
AccessInv ==
    /\ TypeOK
    /\ AccessIsFresh
    /\ cursor # 0 =>
          /\ collected \subseteq seen
          /\ Anybody \subseteq seen
          /\ \A i \in Places :
                /\ steady[i] \subseteq seen
                /\ i < cursor => steady[i] \subseteq collected
                /\ i >= cursor => steady[i] \subseteq members[i]
    /\ seen \cup lastSeen \cup collected \cup Anybody \subseteq everSeen
=============================================================================
