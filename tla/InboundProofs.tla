----------------------------- MODULE InboundProofs -----------------------------
(***************************************************************************)
(* Messages on their way in, beside the refresh of who is authorised: for  *)
(* any users, access channels, messages, commands and words.               *)
(***************************************************************************)
EXTENDS Inbound, DispatchProofs, ArgumentProofs

LEMMA PlacesOfChannels ==
    /\ Len(AccessChannels) \in Nat
    /\ Access!Places = 1..Len(AccessChannels)
BY InboundAssumption DEF Access!Places

(* Members are among those that are in some channel.                       *)
LEMMA AnybodyIs ==
    ASSUME Access!TypeOK
    PROVE  /\ Access!Anybody \subseteq Users
           /\ \A i \in Access!Places : members[i] \subseteq Access!Anybody
BY DEF Access!Anybody, Access!TypeOK

LEMMA AccessBegins == Access!Init => Access!AccessInv
<1> SUFFICES ASSUME Access!Init PROVE Access!AccessInv
  OBVIOUS
<1>1. Access!TypeOK
  <2>1. members \in [Access!Places -> SUBSET Users] /\ everSeen = Access!Anybody
    BY DEF Access!Init
  <2>2. everSeen \subseteq Users
    BY <2>1 DEF Access!Anybody
  <2>3. cursor \in 0..(Len(AccessChannels) + 1)
    BY PlacesOfChannels DEF Access!Init
  <2> QED
    BY <2>1, <2>2, <2>3 DEF Access!Init, Access!TypeOK
<1> QED
  BY <1>1 DEF Access!Init, Access!AccessInv, Access!AccessIsFresh

LEMMA MoveStep ==
    ASSUME Access!AccessInv, NEW p \in Access!Places, NEW there \in SUBSET Users,
           Access!Move(p, there)
    PROVE  Access!AccessInv' /\ everSeen \subseteq everSeen'
<1> USE DEF Access!Move
<1>1. Access!TypeOK /\ Access!AccessIsFresh
  BY DEF Access!AccessInv
<1>2. /\ Access!TypeOK'
      /\ \A i \in Access!Places : /\ members'[i] = IF i = p THEN there ELSE members[i]
                                  /\ steady'[i] = IF i = p THEN steady[i] \cap there ELSE steady[i]
  BY <1>1 DEF Access!TypeOK
<1>3. Access!Anybody' \subseteq Access!Anybody \cup there
  BY <1>2 DEF Access!Anybody, Access!Places
<1>4. Access!AccessIsFresh'
  BY <1>1 DEF Access!AccessIsFresh
<1>5. ASSUME cursor # 0
      PROVE  /\ collected' \subseteq seen'
             /\ Access!Anybody' \subseteq seen'
             /\ \A i \in Access!Places :
                   /\ steady'[i] \subseteq seen'
                   /\ i < cursor => steady'[i] \subseteq collected'
                   /\ i >= cursor => steady'[i] \subseteq members'[i]
  BY <1>2, <1>3, <1>5 DEF Access!AccessInv
<1>6. (seen \cup lastSeen \cup collected \cup Access!Anybody \subseteq everSeen)'
  BY <1>3 DEF Access!AccessInv
<1>7. Access!Places' = Access!Places /\ cursor' = cursor
  BY DEF Access!Places
<1> QED
  BY <1>2, <1>4, <1>5, <1>6, <1>7 DEF Access!AccessInv

LEMMA BeginStep ==
    ASSUME Access!AccessInv, Access!Begin
    PROVE  Access!AccessInv'
<1> USE DEF Access!Begin
<1>1. Access!TypeOK /\ Access!AccessIsFresh
  BY DEF Access!AccessInv
<1>2. Access!TypeOK'
  BY <1>1, AnybodyIs, PlacesOfChannels DEF Access!TypeOK, Access!Places
<1>3. Access!Anybody' = Access!Anybody /\ Access!Places' = Access!Places
  BY DEF Access!Anybody, Access!Places
<1>4. Access!AccessIsFresh'
  BY <1>1 DEF Access!AccessIsFresh
<1>5. \A i \in Access!Places : steady'[i] = members'[i] /\ steady'[i] \subseteq seen' /\ ~(i < 1)
  BY <1>1, AnybodyIs, PlacesOfChannels
<1> QED
  BY <1>2, <1>3, <1>4, <1>5 DEF Access!AccessInv

LEMMA FetchStep ==
    ASSUME Access!AccessInv, Access!Fetch
    PROVE  Access!AccessInv'
<1> USE DEF Access!Fetch
<1>1. Access!TypeOK /\ Access!AccessIsFresh
  BY DEF Access!AccessInv
<1>2. cursor \in Access!Places /\ cursor \in Nat /\ cursor # 0 /\ cursor' # 0
      /\ cursor' = cursor + 1 /\ members[cursor] \subseteq Users
  BY <1>1, PlacesOfChannels DEF Access!TypeOK
<1>3. Access!TypeOK'
  <2>1. cursor' \in 0..(Len(AccessChannels) + 1)
    BY <1>2, PlacesOfChannels
  <2>2. collected' \subseteq Users /\ steady' \in [Access!Places -> SUBSET Users]
    BY <1>1, <1>2 DEF Access!TypeOK
  <2> QED
    BY <1>1, <2>1, <2>2 DEF Access!TypeOK, Access!Places
<1>4. Access!Anybody' = Access!Anybody /\ Access!Places' = Access!Places
  BY DEF Access!Anybody, Access!Places
<1>5. Access!AccessIsFresh'
  BY <1>1 DEF Access!AccessIsFresh
<1>6. members[cursor] \subseteq Access!Anybody
  BY <1>1, <1>2, AnybodyIs
<1>7. collected \subseteq collected' /\ collected' \subseteq seen'
  BY <1>2, <1>6 DEF Access!AccessInv
<1>8. ASSUME NEW i \in Access!Places
      PROVE  /\ steady'[i] \subseteq seen'
             /\ i < cursor' => steady'[i] \subseteq collected'
             /\ i >= cursor' => steady'[i] \subseteq members'[i]
  <2>1. /\ steady[i] \subseteq seen
        /\ i < cursor => steady[i] \subseteq collected
        /\ i >= cursor => steady[i] \subseteq members[i]
    BY <1>2 DEF Access!AccessInv
  <2>2. steady'[i] \subseteq steady[i]
    BY <1>1 DEF Access!TypeOK
  <2>3. i = cursor => steady'[i] = {} \/ (steady'[i] \subseteq members[i] /\ members[i] \subseteq collected')
    BY <1>1, <1>2, <2>1, PlacesOfChannels DEF Access!TypeOK
  <2>4. i \in Int
    BY PlacesOfChannels
  <2>5. i < cursor' <=> i < cursor \/ i = cursor
    BY <1>2, <2>4
  <2>6. i >= cursor' => i >= cursor
    BY <1>2, <2>4
  <2> QED
    BY <1>7, <2>1, <2>2, <2>3, <2>5, <2>6
<1>9. (seen \cup lastSeen \cup collected \cup Access!Anybody \subseteq everSeen)'
  BY <1>4, <1>6, <1>2 DEF Access!AccessInv
<1> QED
  BY <1>2, <1>3, <1>4, <1>5, <1>7, <1>8, <1>9 DEF Access!AccessInv

LEMMA StoreStep ==
    ASSUME Access!AccessInv, Access!Store
    PROVE  Access!AccessInv'
<1> USE DEF Access!Store
<1>1. Access!TypeOK /\ cursor # 0 /\ \A i \in Access!Places : i < cursor
  BY PlacesOfChannels DEF Access!AccessInv
<1>2. Access!Anybody' = Access!Anybody
  BY DEF Access!Anybody, Access!Places
<1>3. UNION {steady[i] : i \in Access!Places} \subseteq collected
  BY <1>1 DEF Access!AccessInv
<1>4. Access!AccessIsFresh'
  BY <1>1, <1>3 DEF Access!AccessInv, Access!AccessIsFresh
<1>5. Access!TypeOK'
  <2>1. cursor' \in 0..(Len(AccessChannels) + 1)
    BY PlacesOfChannels
  <2>2. UNION {steady[i] : i \in Access!Places} \subseteq Users
    BY <1>1 DEF Access!TypeOK
  <2> QED
    BY <1>1, <2>1, <2>2 DEF Access!TypeOK, Access!Places
<1> QED
  BY <1>1, <1>2, <1>4, <1>5 DEF Access!AccessInv

(* Whatever happens beside it, access changes only by its own actions.     *)
LEMMA AccessStep ==
    ASSUME Access!AccessInv, [InNext]_inVars
    PROVE  Access!AccessInv' /\ everSeen \subseteq everSeen'
<1>1. CASE UNCHANGED accessVars
  BY <1>1 DEF accessVars, Access!AccessInv, Access!TypeOK, Access!AccessIsFresh, Access!Anybody,
              Access!Places
<1>2. CASE Refreshing
  <2>1. Access!Begin \/ Access!Fetch \/ Access!Store
    BY <1>2 DEF Refreshing, Access!Refresh
  <2>2. everSeen' = everSeen
    BY <2>1 DEF Access!Begin, Access!Fetch, Access!Store
  <2> QED
    BY <2>1, <2>2, BeginStep, FetchStep, StoreStep
<1>3. CASE Moving
  BY <1>3, MoveStep DEF Moving
<1> QED
  BY <1>1, <1>2, <1>3 DEF InNext, Loading, Hear, Running, inVars

(* The invariant of who is authorised, beside everything else that the bot *)
(* does.                                                                   *)
THEOREM AccessInvariance == InSpec => []AccessInv
<1>1. InInit => AccessInv
  BY AccessBegins DEF InInit, AccessInv
<1>2. AccessInv /\ [InNext]_inVars => AccessInv'
  BY AccessStep DEF AccessInv
<1> QED
  BY <1>1, <1>2, PTL DEF InSpec

(* A user is authorised only if he was in an access channel during the     *)
(* last refresh, and is if he was in one all the time.                     *)
THEOREM AccessStaysFresh == InSpec => []AccessIsFresh
<1>1. AccessInv => AccessIsFresh
  BY DEF AccessInv, AccessIsFresh, Access!AccessInv
<1> QED
  BY <1>1, AccessInvariance, PTL
-----------------------------------------------------------------------------
(* A command carries the message it came from.                             *)
LEMMA ExtractedFrom ==
    ASSUME NEW m, NEW c \in Extracted(m) \cup Helped(m)
    PROVE  c.msg = m
BY DEF Extracted, Helped

LEMMA StrangersStep ==
    ASSUME AccessInv, NoStrangers, [InNext]_inVars
    PROVE  NoStrangers'
<1>1. authorized \subseteq everSeen /\ everSeen \subseteq everSeen'
  <2>1. everSeen \subseteq everSeen'
    BY AccessStep DEF AccessInv
  <2> QED
    BY <2>1 DEF AccessInv, Access!AccessInv, Access!AccessIsFresh
<1>2. CASE UNCHANGED <<channel, executed>>
  BY <1>1, <1>2 DEF NoStrangers
<1>3. ASSUME NEW m \in Messages, Process(m) \/ Misread(m), MayTalk(m) PROVE NoStrangers'
  <2>1. channel' \subseteq channel \cup Extracted(m) \cup Helped(m) /\ executed' = executed
    BY <1>3 DEF Process, Misread
  <2>2. \A c \in Extracted(m) \cup Helped(m) : c.msg.backend = Guarded => c.msg.author \in everSeen
    BY <1>1, <1>3, ExtractedFrom DEF MayTalk, Access!IsAuthorized
  <2> QED
    BY <1>1, <2>1, <2>2 DEF NoStrangers
<1>4. ASSUME NEW c \in channel, Execute(c) PROVE NoStrangers'
  <2>1. channel' \subseteq channel /\ executed' \subseteq executed \cup {c}
    BY <1>4 DEF Execute
  <2> QED
    BY <1>1, <2>1 DEF NoStrangers
<1>5. CASE Loading
  BY <1>2, <1>5 DEF Loading, LoadPlugin, PluginsLoaded, LoadModel, ModelsLoaded,
                    LoadDecorated, DecoratedLoaded, running
<1>6. CASE Refreshing \/ Moving
  BY <1>2, <1>6 DEF Refreshing, Moving, vars, running
<1>7. ASSUME NEW m \in Messages, Hear(m) PROVE NoStrangers'
  <2>1. ((Process(m) \/ Misread(m)) /\ MayTalk(m)) \/ UNCHANGED vars
    BY <1>7 DEF Hear
  <2> QED
    BY <1>2, <1>3, <2>1 DEF vars, running
<1>8. CASE Running
  BY <1>4, <1>8 DEF Running
<1>9. CASE UNCHANGED inVars
  BY <1>2, <1>9 DEF inVars, vars, running
<1> QED
  BY <1>5, <1>6, <1>7, <1>8, <1>9 DEF InNext

(* A command of somebody who was never in an access channel is neither     *)
(* waited for nor run, however moves, refreshes and messages overlap.      *)
THEOREM StrangersAreKeptOut == InSpec => []NoStrangers
<1>1. InInit => NoStrangers
  BY DEF InInit, Init, NoStrangers
<1>2. AccessInv /\ NoStrangers /\ [InNext]_inVars => NoStrangers'
  BY StrangersStep
<1> QED
  BY <1>1, <1>2, AccessInvariance, PTL DEF InSpec
-----------------------------------------------------------------------------
(* Beside the refresh and with the checks of a message, commands are       *)
(* loaded, extracted and run as in Dispatch.                               *)
THEOREM InboundDispatches == InSpec => Spec
<1>1. InInit => Init
  BY DEF InInit
<1>2. [InNext]_inVars => [Next]_vars
  BY DEF InNext, Loading, Refreshing, Moving, Hear, Running, Next, inVars
<1> QED
  BY <1>1, <1>2, PTL DEF InSpec, Spec

(* So load_commands and dispatch keep to their invariant, whoever is       *)
(* authorised meanwhile.                                                   *)
THEOREM InboundDispatchInvariance == InSpec => []DispatchInv
BY InboundDispatches, DispatchInvariance, PTL

(* load_commands ends as the configuration says.                           *)
THEOREM InboundLoadsAsConfigured == InSpec => []LoadsAsConfigured
BY InboundDispatches, LoadingIsRight, PTL

(* A command that was asked for by its own name runs where it declares to. *)
THEOREM InboundRunsWhereDeclared == InSpec => []OnlyWhereDeclared
BY InboundDispatches, RunsWhereDeclared, PTL
-----------------------------------------------------------------------------
(* A message that is heard and not read, by what made the bot hear it: a   *)
(* lookup that succeeds is remembered by those that follow.                *)
LEMMA MisreadWhen ==
    ASSUME NEW m \in Messages, Hear(m), misread' # misread
    PROVE  /\ misread' = misread \cup {m}
           /\ \/ m.dm
              \/ /\ "id" \in m.leads /\ "name" \in m.mentions
                 /\ m.backend \in NameGiven
<1>1. m.leads \subseteq m.mentions
  BY InboundAssumption
<1>2. PICK failed \in 0..4 :
        LET heard == ToBot(m, IdAt(1, failed), NameAt(m, 2, failed)) /\ MayTalk(m) IN
        \/ ~heard /\ passedBy' = passedBy \cup {m} /\ UNCHANGED vars
        \/ /\ heard
           /\ UNCHANGED passedBy
           /\ IF Stripped(m, IdAt(4, failed), NameAt(m, 3, failed))
                THEN Process(m) ELSE Misread(m)
  BY DEF Hear
<1>3. ~(UNCHANGED vars) /\ ~Process(m)
  BY DEF vars, running, Process
<1>4. /\ ToBot(m, IdAt(1, failed), NameAt(m, 2, failed))
      /\ ~Stripped(m, IdAt(4, failed), NameAt(m, 3, failed))
      /\ Misread(m)
  BY <1>2, <1>3
<1>5. /\ failed < 1 => failed < 2 /\ failed < 3 /\ failed < 4
      /\ failed < 2 => failed < 3 /\ failed < 4
  OBVIOUS
<1>6. CASE m.dm
  BY <1>4, <1>6 DEF Misread
<1>7. CASE "id" \in m.mentions /\ failed < 1
  BY <1>4, <1>5, <1>7 DEF Stripped, IdAt, NameAt
<1>8. CASE "name" \in m.mentions /\ failed < 2
  BY <1>4, <1>5, <1>8 DEF Stripped, IdAt, NameAt
<1>9. CASE "name" \in m.mentions /\ m.backend \in NameGiven
  <2>1. "id" \in m.leads
    BY <1>4, <1>9 DEF Stripped, NameAt
  <2> QED
    BY <1>4, <1>9, <2>1 DEF Misread
<1> QED
  BY <1>4, <1>6, <1>7, <1>8, <1>9 DEF ToBot, IdAt, NameAt

(* A message that is heard for how it mentions the bot is read, although   *)
(* the bot asks again who it is, and asking fails: the mention it begins   *)
(* with is taken off, but for an id under a name that is configured.       *)
THEOREM HeardAreRead == InSpec => []HeardIsRead
<1>1. InInit => HeardIsRead
  BY DEF InInit, Init, HeardIsRead
<1>2. HeardIsRead /\ [InNext]_inVars => HeardIsRead'
  <2> SUFFICES ASSUME HeardIsRead, [InNext]_inVars, misread' # misread PROVE HeardIsRead'
    BY DEF HeardIsRead
  <2>1. ASSUME NEW m \in Messages, Hear(m) PROVE HeardIsRead'
    BY <2>1, MisreadWhen DEF HeardIsRead
  <2>2. ~Loading
    BY DEF Loading, LoadPlugin, PluginsLoaded, LoadModel, ModelsLoaded,
           LoadDecorated, DecoratedLoaded, running
  <2>3. ~Refreshing /\ ~Moving /\ ~(UNCHANGED inVars)
    BY DEF Refreshing, Moving, inVars, vars, running
  <2>4. ~Running
    BY DEF Running, Execute
  <2> QED
    BY <2>1, <2>2, <2>3, <2>4 DEF InNext
<1> QED
  BY <1>1, <1>2, PTL DEF InSpec

(* See WordsAreParsed: _parse_command_args puts every word of every text   *)
(* to its one use, with any mentions on any backend.                       *)
THEOREM InboundParses == InSpec => []WordsAreParsed
<1>1. EveryTextParses
  <2> SUFFICES ASSUME NEW s \in Texts, NEW ms \in Mentionings, NEW symphony \in BOOLEAN
               PROVE  Parse(s, ms, symphony) = ParsesTo(s, ms, symphony)
    BY DEF EveryTextParses
  <2>1. s \in Seq(Words) /\ ms \in Seq(Accounts)
    BY WordAssumption
  <2> QED
    BY <2>1, ParseIsRight
<1>2. WordsAreParsed
  BY <1>1 DEF WordsAreParsed
<1> QED
  BY <1>2, PTL

(* See AddIsUnderstood: schedule add finds the cron, the date and the      *)
(* inner command of whatever it is given.                                  *)
THEOREM InboundUnderstandsAdd == InSpec => []AddIsUnderstood
<1>1. EveryAddParses
  <2> SUFFICES ASSUME NEW s \in Plans PROVE Add(s) = AddsTo(s)
    BY DEF EveryAddParses
  <2>1. s \in Seq(Words)
    BY WordAssumption
  <2> QED
    BY <2>1, AddIsRight
<1>2. AddIsUnderstood
  BY <1>1 DEF AddIsUnderstood
<1> QED
  BY <1>2, PTL
===============================================================================
