-------------------------------- MODULE MCInbound -------------------------------
(* One user, two access channels, some models and plugins, and all words   *)
(* of up to four for TLC.                                                  *)
EXTENDS Inbound, SequencesExt

CONSTANTS help, schedule, echo, slack, telegram, mixedSlack, irc,
          room, cron, delay, slashEcho, atBob, atSue, five, hello, bob, sue, bot

LowerCase(s) == IF s = mixedSlack THEN slack ELSE s

Of(a, d) == [api |-> a, declared |-> d]
Called(n, r) == [name |-> n, runner |-> r]

Offered ==
    LET helps == Called(help, Of("base", {}))
        plans == Called(schedule, Of("base", {}))
        e(r)  == Called(echo, r)
    IN  {<<helps, plans, e(Of("base", {slack}))>>,
         <<plans, e(Of("base", {mixedSlack}))>>,
         <<helps, e(Of("base", {telegram}))>>,
         <<e(Of("base", {slack})), e(Of("base", {telegram})), e(Of("base", {}))>>,
         <<helps, e(Of("base", {irc}))>>,
         <<plans, e(Of("broken", {}))>>}

TwoPlugins ==
    {Called(echo, Of("entry", {})), Called(echo, Of("entry", {irc}))}

Places == <<"first", "second">>

(* "five" is a cron and a date, and the id of bob is in atBob and hello.   *)
AllWords == {room, cron, delay, slashEcho, atBob, atSue, five, hello}
IsFive(w) == w = five
UsersIn(w) == CASE w \in {atBob, hello} -> {bob} [] w = atSue -> {sue} [] OTHER -> {}

NameIn(w) == CASE w = slashEcho -> echo [] w = NoName -> NoName [] OTHER -> NoName

Said(c, sub, words, b) ==
    [command |-> c, sub |-> sub, inner |-> NameIn(InnerOf(words, <<>>, b)), backend |-> b]

By(user, dm, mentions, leads) ==
    [author |-> user, dm |-> dm, mentions |-> mentions, leads |-> leads]

Asked ==
    {Said(echo, "list", <<>>, slack) @@ By(bob, FALSE, {"id"}, {"id"}),
     Said(schedule, "add", <<delay, five, slashEcho>>, slack)
         @@ By(bob, TRUE, {"name"}, {"name"}),
     Said(schedule, "other", <<>>, telegram)
         @@ By(bot, TRUE, {"id", "name"}, {"id", "name"})}

UpToTwo == {<<>>, <<bob>>, <<sue, bob>>}
UpToFour == SeqOf(AllWords, 4)
UpToFive == SeqOf(AllWords \ {atBob, atSue}, 5)
=============================================================================
