--------------------------------- MODULE Inbound --------------------------------
(***************************************************************************)
(* The way of a message into csp_bot/bot.py, end to end: load_commands,    *)
(* connect with its first look at the access channels, and then, while a   *)
(* thread goes on refreshing who is authorised, _process_incoming_messages *)
(* with _is_message_to_bot, _is_authorized and _extract_commands.  It      *)
(* composes Dispatch with UserAccess and Arguments.                        *)
(*                                                                         *)
(* Who the bot is on a backend has to be asked for (_fetch_bot_info), and  *)
(* asking may fail.  Definitions marked "Faulty" are broken versions of    *)
(* the definition that follows them: no action uses them.                  *)
(***************************************************************************)
EXTENDS Dispatch, Arguments

CONSTANTS
    Users,
    Self,           \* the bot, as a user; it need not be one of Users
    AccessChannels, \* the access channels of Guarded
    Refreshed,      \* query_user_access_seconds of Guarded is not 0
    Guarded,        \* the backend that has access channels
    Symphony,       \* the backend with mentions by name
    NameGiven       \* backends with a bot_name in their configuration

VARIABLES
    members, authorized, started, cursor, collected,
    seen, steady, lastSeen, lastSteady, everSeen,   \* see UserAccess
    known,      \* backends whose bot info is cached
    passedBy    \* history: messages that were ignored or refused

Access == INSTANCE UserAccess

accessVars == <<members, authorized, started, cursor, collected,
                seen, steady, lastSeen, lastSteady, everSeen>>
entry  == <<known, passedBy>>
inVars == <<vars, accessVars, entry>>

(* A message is also its author, who may be the bot itself, whether it is  *)
(* a direct one, how it mentions the bot, and which of these mentions its  *)
(* text begins with.                                                       *)
ASSUME InboundAssumption ==
    /\ Guarded \in Configured
    /\ AccessChannels \in Seq(STRING)
    /\ AccessChannels # <<>>
    /\ Refreshed \in BOOLEAN
    /\ NameGiven \subseteq Configured
    /\ NoWord = NoName
    /\ \A m \in Messages :
          /\ m.author \in Users \cup {Self}
          /\ m.dm \in BOOLEAN
          /\ m.mentions \subseteq {"id", "name"}
          /\ m.leads \subseteq m.mentions

(* What /schedule add leaves of its words is the inner command.            *)
InnerOf(words, mentions, b) == Add(Parse(words, mentions, b = Symphony).args).command

InInit ==
    /\ Init
    /\ Access!Init
    /\ known \in SUBSET Configured
    /\ passedBy = {}

Loading ==
    /\ \/ \E p \in Plugins : LoadPlugin(p)
       \/ PluginsLoaded
       \/ LoadModel
       \/ ModelsLoaded
       \/ \E n \in Names : LoadDecorated(n)
       \/ DecoratedLoaded
    /\ UNCHANGED <<accessVars, entry>>

(* connect starts when load_commands has returned.                         *)
Refreshing ==
    /\ stage = "ready"
    /\ Access!Refresh
    /\ UNCHANGED <<vars, entry>>

Moving ==
    /\ stage = "ready"
    /\ \E i \in Access!Places, there \in SUBSET Users : Access!Move(i, there)
    /\ UNCHANGED <<vars, entry>>

(* Faulty: that some id is mentioned is enough.                            *)
HeardByMention(m, id, name) ==
    \/ m.dm /\ (m.author = Self => ~id)
    \/ "id" \in m.mentions
    \/ "name" \in m.mentions /\ name

(* _is_message_to_bot, of what _get_bot_id and _get_bot_name returned: a   *)
(* bot that does not know its id takes its own direct messages for others',*)
(* and one of its own that mentions it is heard in any case.               *)
ToBot(m, id, name) ==
    \/ m.dm /\ (m.author = Self => ~id)
    \/ "id" \in m.mentions /\ id
    \/ "name" \in m.mentions /\ name

(* _extract_commands takes off the mentions that the text begins with, as  *)
(* far as the bot knows its id and its name by then.                       *)
Stripped(m, id, name) ==
    /\ "id" \in m.leads => id
    /\ "name" \in m.leads => name

(* Faulty: an empty set of users stands for no restriction.                *)
MayTalkToNobody(m) == m.backend = Guarded => authorized = {} \/ Access!IsAuthorized(m.author)

(* _is_authorized: backends without access channels are open to anybody.   *)
MayTalk(m) == m.backend = Guarded => Access!IsAuthorized(m.author)

(* _get_bot_id and _get_bot_name: while the bot info is not cached each    *)
(* asks for both, and the first answer is kept.  These are the id and the  *)
(* name that lookup i yields, when so many lookups before it have failed.  *)
IdAt(i, failed)         == failed < i
NameAt(m, i, failed)    == m.backend \in NameGiven \/ failed < i

(* Lookups of a name that is given do not ask: where the first lookup has  *)
(* failed the second and the third do not make up for it.                  *)
MayFail(b, failed) ==
    /\ b \in known => failed = 0
    /\ b \in NameGiven => failed \notin {1, 2}

(* _is_message_to_bot looks up the id and the name, then _extract_commands *)
(* the name and the id, and further on maybe the id again.                 *)
Hear(m) ==
    /\ stage = "ready"
    /\ started
    /\ m \notin asked \cup passedBy
    /\ \E failed \in 0..4, again \in BOOLEAN :
          LET heard == ToBot(m, IdAt(1, failed), NameAt(m, 2, failed)) /\ MayTalk(m) IN
          /\ MayFail(m.backend, failed)
          /\ known' = IF failed < (IF heard THEN 4 ELSE 2) \/ (heard /\ again)
                        THEN known \cup {m.backend} ELSE known
          /\ \/ ~heard /\ passedBy' = passedBy \cup {m} /\ UNCHANGED vars
             \/ /\ heard
                /\ UNCHANGED passedBy
                /\ IF Stripped(m, IdAt(4, failed), NameAt(m, 3, failed))
                     THEN Process(m) ELSE Misread(m)
    /\ UNCHANGED accessVars

Running ==
    /\ \E c \in channel : Execute(c)
    /\ UNCHANGED <<accessVars, entry>>

InNext ==
    \/ Loading
    \/ Refreshing
    \/ Moving
    \/ \E m \in Messages : Hear(m)
    \/ Running

InSpec == InInit /\ [][InNext]_inVars

(* A command that was extracted runs, which Scheduler has to show, and the *)
(* thread of the refresh goes on: each fetch returns or raises.            *)
InFairSpec == InSpec /\ WF_inVars(Running) /\ WF_inVars(Refreshing)
-----------------------------------------------------------------------------
(* No command of a user who was in no access channel at any time is ever   *)
(* waited for or run: not through a command that was scheduled earlier, a  *)
(* refresh that overlaps with moves, or a first refresh that failed.       *)
NoStrangers ==
    \A c \in channel \cup executed :
        c.msg.backend = Guarded => c.msg.author \in everSeen

(* The bot asks who it is once to hear a message and once more to read it, *)
(* and asking may fail.  Still a message that is heard for how it mentions *)
(* the bot is read: what hearing went by is known when the mention is      *)
(* taken off.  Only a direct message, which needs no mention, can be taken *)
(* for one without a command; or one that was heard for the name in the    *)
(* configuration, by which nobody has asked for the id that it begins with.*)
HeardIsRead ==
    \A m \in misread :
        m.dm \/ ("id" \in m.leads /\ "name" \in m.mentions /\ m.backend \in NameGiven)

(* Whatever is said once messages are heard: _parse_command_args puts      *)
(* every word to the one use that it should have, although each turn of    *)
(* its loop depends on what the turns before it have skipped and on the    *)
(* mentions they have used up.                                             *)
WordsAreParsed == started => EveryTextParses

(* Whatever is said once messages are heard: schedule add finds the cron,  *)
(* the date and the inner command, whatever does not parse and however     *)
(* often its words are repeated.                                           *)
AddIsUnderstood == started => EveryAddParses

(* See UserAccess: what is said there of the users of a backend holds      *)
(* beside the messages, loading and everything else that happens.          *)
AccessIsFresh   == Access!AccessIsFresh
RevokedInTheEnd == Access!RevokedInTheEnd
AccessInv       == Access!AccessInv
=============================================================================
