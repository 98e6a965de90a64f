------------------------------- MODULE Arguments --------------------------------
(***************************************************************************)
(* What becomes of the words of a command: _parse_command_args of          *)
(* csp_bot/bot.py takes channels and mentions out of them, and preexecute  *)
(* of csp_bot/commands/schedule.py the cron and the date of schedule add.  *)
(* Both loops skip what an earlier word has used up.  Each is a function   *)
(* of the turn, with a reference definition that has no memory.            *)
(*                                                                         *)
(* Definitions marked "Faulty" are broken versions of the definition that  *)
(* follows them.                                                           *)
(***************************************************************************)
EXTENDS Integers, Sequences, FiniteSets

CONSTANTS
    Words,          \* whatever stands between blanks
    Accounts,       \* users that may be mentioned
    Texts,          \* what may be said after a command
    Plans,          \* what may be said after schedule add
    Mentionings,    \* the mentions that a message may have, in their order
    ChannelWords,   \* /channel, /room, !channel, !room
    CronWord,       \* /schedule
    DelayWord,      \* /delay
    Slashed,        \* words that start with / or !
    Ats,            \* words that start with @
    UserIn(_),      \* the users whose id is in a word
    IsCron(_),      \* croniter takes the word, with blanks for its dashes
    IsDate(_),      \* dateparser finds a date in the word
    NoWord          \* no channel, no cron, no date, no inner command

ASSUME WordAssumption ==
    /\ Texts \subseteq Seq(Words) /\ Plans \subseteq Seq(Words)
    /\ Mentionings \subseteq Seq(Accounts)
    /\ ChannelWords \cup {CronWord, DelayWord} \subseteq Slashed
    /\ CronWord # DelayWord
    /\ {CronWord, DelayWord} \cap ChannelWords = {}
    /\ Slashed \cap Ats = {}
    /\ \A w \in {CronWord, DelayWord} : ~IsCron(w) /\ ~IsDate(w)

(* The values of t, whose domain is a set of positions, in their order: up *)
(* to each position, and all of them.                                      *)
OneByOne(t, n) ==
    LET upTo[k \in 0..n] ==
            IF k = 0 THEN <<>>
            ELSE IF k \in DOMAIN t THEN Append(upTo[k - 1], t[k])
            ELSE upTo[k - 1]
    IN  upTo

InOrder(t, n) == OneByOne(t, n)[n]

Picked(s, P) == InOrder([i \in P |-> s[i]], Len(s))

(* The last word of s at a position in P.                                  *)
WordAt(s, P) == IF P = {} THEN NoWord ELSE s[CHOOSE i \in P : \A j \in P : j <= i]
-----------------------------------------------------------------------------
(* Faulty: all words that follow a mention are taken for its name.         *)
AllAfter(s, i) == (i + 1)..Len(s)

(* The words of a name that follow the mention at i: up to the next word   *)
(* that starts with @, / or !.                                             *)
NameAfter(s, i) ==
    {j \in (i + 1)..Len(s) : \A k \in (i + 1)..j : s[k] \notin Slashed \cup Ats}

(* Of the mentioned users the first whose id is in the word.               *)
ById(w, mentions) == SelectSeq(mentions, LAMBDA u : u \in UserIn(w))

(* One turn of the loop, with the mentions that are left on Symphony.      *)
ParseWord(s, mentions, symphony, acc, i) ==
    CASE i \in acc.skip -> acc
      [] i \notin acc.skip /\ s[i] \in ChannelWords ->
           IF i = Len(s) THEN acc
           ELSE [acc EXCEPT !.channel = s[i + 1], !.skip = @ \cup {i + 1}]
      [] i \notin acc.skip /\ symphony /\ s[i] \in Ats /\ acc.left # <<>> ->
           [acc EXCEPT !.targets = Append(@, Head(acc.left)),
                       !.left = Tail(@),
                       !.skip = @ \cup NameAfter(s, i)]
      [] OTHER ->
           IF ById(s[i], mentions) # <<>>
             THEN [acc EXCEPT !.targets = Append(@, Head(ById(s[i], mentions)))]
             ELSE [acc EXCEPT !.args = Append(@, s[i])]

(* _parse_command_args: its loop, turn by turn, and what it returns.       *)
ParseTurns(s, mentions, symphony) ==
    LET at[i \in 0..Len(s)] ==
            IF i = 0 THEN [args |-> <<>>, targets |-> <<>>, channel |-> NoWord,
                           left |-> mentions, skip |-> {}]
                     ELSE ParseWord(s, mentions, symphony, at[i - 1], i)
    IN  at

Parse(s, mentions, symphony) ==
    LET end == ParseTurns(s, mentions, symphony)[Len(s)]
    IN  [args |-> end.args, targets |-> end.targets, channel |-> end.channel]

(* A word names a channel if an odd number of directives stands before it. *)
NamesChannel(s, i) ==
    \E n \in 1..(i - 1) :
        /\ n % 2 = 1
        /\ \A k \in (i - n)..(i - 1) : s[k] \in ChannelWords
        /\ i - n = 1 \/ s[i - n - 1] \notin ChannelWords

Directs(s, i) == s[i] \in ChannelWords /\ ~NamesChannel(s, i)

(* On Symphony the nth word with an @ is the nth mention.                  *)
Nth(s, i) == Cardinality({j \in 1..i : s[j] \in Ats /\ ~NamesChannel(s, j)})

Matched(s, mentions, i) ==
    s[i] \in Ats /\ ~NamesChannel(s, i) /\ Nth(s, i) <= Len(mentions)

(* What stands between a matched mention and the next @, / or ! is taken   *)
(* for the rest of its name.                                               *)
InName(s, mentions, i) ==
    \E j \in 1..(i - 1) :
        Matched(s, mentions, j) /\ \A k \in (j + 1)..i : s[k] \notin Slashed \cup Ats

Used(s, mentions, symphony, i) ==
    \/ NamesChannel(s, i)
    \/ s[i] \in ChannelWords
    \/ symphony /\ (Matched(s, mentions, i) \/ InName(s, mentions, i))

(* Every word of a command is put to one use: directives and the channels  *)
(* they name, mentions and the names that follow them, and whatever else   *)
(* there is, in its order, as arguments; of several channels the last      *)
(* counts.                                                                 *)
ParsesTo(s, mentions, symphony) ==
    LET free  == {i \in DOMAIN s : ~Used(s, mentions, symphony, i)}
        byId  == {i \in free : ById(s[i], mentions) # <<>>}
        hits  == {i \in DOMAIN s : symphony /\ Matched(s, mentions, i)}
        names == {i \in DOMAIN s : Directs(s, i) /\ i < Len(s)}
        who   == [i \in byId \cup hits |-> IF i \in hits THEN mentions[Nth(s, i)]
                                          ELSE Head(ById(s[i], mentions))]
    IN  [args    |-> Picked(s, free \ byId),
         targets |-> InOrder(who, Len(s)),
         channel |-> WordAt(s, {i + 1 : i \in names})]
-----------------------------------------------------------------------------
(* Faulty: what follows is taken out whether it parses or not.             *)
TakesBoth(i, parses) == {i, i + 1}

(* The positions that go with /schedule or /delay at i.                    *)
Takes(i, parses) == IF parses THEN {i, i + 1} ELSE {i}

(* One turn of the loop of schedule add.                                   *)
AddWord(s, acc, i) ==
    LET more   == i < Len(s)
        isCron == more /\ IsCron(s[i + 1])
        isDate == more /\ IsDate(s[i + 1])
    IN  CASE i \notin acc.gone /\ s[i] = CronWord ->
               [acc EXCEPT !.gone = @ \cup Takes(i, isCron),
                           !.cron = IF isCron THEN s[i + 1] ELSE @]
          [] i \notin acc.gone /\ s[i] = DelayWord ->
               [acc EXCEPT !.gone = @ \cup Takes(i, isDate),
                           !.date = IF isDate THEN s[i + 1] ELSE @]
          [] OTHER -> acc

(* schedule add without its first word: the inner command with its         *)
(* arguments; without one the command stays /schedule.                     *)
Inner(s, gone, cron, date) ==
    LET rest == Picked(s, DOMAIN s \ gone) IN
    [command |-> IF rest = <<>> THEN NoWord ELSE Head(rest),
     args    |-> IF rest = <<>> THEN <<>> ELSE Tail(rest),
     cron    |-> cron,
     date    |-> date]

(* The loop, turn by turn.                                                 *)
AddTurns(s) ==
    LET at[i \in 0..Len(s)] ==
            IF i = 0 THEN [gone |-> {}, cron |-> NoWord, date |-> NoWord]
                     ELSE AddWord(s, at[i - 1], i)
    IN  at

Add(s) ==
    LET end == AddTurns(s)[Len(s)] IN Inner(s, end.gone, end.cron, end.date)

(* What follows the last such word and parses.                             *)
After(s, word, good(_)) == {i \in 2..Len(s) : s[i - 1] = word /\ good(s[i])}

(* The cron and the date are the last ones that parse; they and the words  *)
(* that announce them go, and the first word that remains is the inner     *)
(* command, a cron or date that does not parse included.                   *)
AddsTo(s) ==
    LET crons == After(s, CronWord, IsCron)
        dates == After(s, DelayWord, IsDate)
        words == {i \in DOMAIN s : s[i] \in {CronWord, DelayWord}}
    IN  Inner(s, words \cup crons \cup dates, WordAt(s, crons), WordAt(s, dates))
-----------------------------------------------------------------------------
(* Both loops against their definitions, for whatever may be said.         *)
EveryTextParses ==
    \A s \in Texts, ms \in Mentionings, symphony \in BOOLEAN :
        Parse(s, ms, symphony) = ParsesTo(s, ms, symphony)

EveryAddParses == \A s \in Plans : Add(s) = AddsTo(s)
=============================================================================
