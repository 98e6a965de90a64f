----------------------------- MODULE ArgumentProofs -----------------------------
(***************************************************************************)
(* The two loops of Arguments against their reference definitions, for     *)
(* texts of any length over any words.  Neither is proved by an induction  *)
(* theorem: each goes through the turns up to a least one that fails       *)
(* (TurnByTurn), which WFMin of WellFoundedInduction provides.             *)
(***************************************************************************)
EXTENDS Arguments, WellFoundedInduction, FiniteSetTheorems, SequenceTheorems, TLAPS

(* A set of naturals that has an element has a least one.                  *)
LEMMA LeastNumber ==
    ASSUME NEW T \in SUBSET Nat, T # {}
    PROVE  \E x \in T : \A y \in T : x <= y
<1>1. IsWellFoundedOn(OpToRel(<, Nat), Nat)
  BY NatLessThanWellFounded
<1>2. PICK x \in T : \A y \in T : ~(<<y, x>> \in OpToRel(<, Nat))
  BY <1>1, WFMin
<1>3. \A y \in T : ~(y < x)
  BY <1>2 DEF OpToRel
<1> QED
  BY <1>3

(* A fact of 0 that each number hands on to the next one, for the numbers  *)
(* up to n: T are those for which it holds.                                *)
LEMMA TurnByTurn ==
    ASSUME NEW n \in Nat, NEW T, 0 \in T,
           \A i \in 1..n : i - 1 \in T => i \in T
    PROVE  \A i \in 0..n : i \in T
<1> DEFINE D == {i \in 0..n : i \notin T}
<1>1. ASSUME D # {} PROVE FALSE
  <2>1. D \in SUBSET Nat
    OBVIOUS
  <2>2. PICK x \in D : \A y \in D : x <= y
    BY <1>1, <2>1, LeastNumber
  <2>3. x \in 1..n /\ x - 1 \in 0..n /\ ~(x <= x - 1)
    BY <2>2
  <2>4. x - 1 \in D
    BY <2>2, <2>3
  <2> QED
    BY <2>2, <2>3, <2>4
<1> QED
  BY <1>1

(* A position behind all others has the last word.                         *)
LEMMA LastWord ==
    ASSUME NEW s, NEW P, NEW m, P \subseteq Int, m \in Int, \A j \in P : j <= m
    PROVE  WordAt(s, P \cup {m}) = s[m]
<1> DEFINE Q == P \cup {m}
           x == CHOOSE i \in Q : \A j \in Q : j <= i
<1>1. m \in Q /\ \A j \in Q : j <= m
  OBVIOUS
<1>2. x \in Q /\ \A j \in Q : j <= x
  BY <1>1
<1>3. WordAt(s, Q) = s[x]
  BY <1>1 DEF WordAt
<1>4. Q \subseteq Int
  OBVIOUS
<1> HIDE DEF x, Q
<1>5. x = m
  BY <1>1, <1>2, <1>4
<1> QED
  BY <1>3, <1>5 DEF Q

-----------------------------------------------------------------------------
(* The loop of schedule add before its first word, and turn by turn.       *)
AddStart == [gone |-> {}, cron |-> NoWord, date |-> NoWord]

LEMMA AddTurnsAre ==
    ASSUME NEW s, Len(s) \in Nat
    PROVE  /\ AddTurns(s)[0] = AddStart
           /\ \A i \in 1..Len(s) : AddTurns(s)[i] = AddWord(s, AddTurns(s)[i - 1], i)
<1> DEFINE Runs(g, n) == g = [i \in 0..n |-> IF i = 0 THEN AddStart ELSE AddWord(s, g[i - 1], i)]
           T == {n \in Nat : \E g : Runs(g, n)}
<1>1. 0 \in T
  <2>1. Runs([i \in 0..0 |-> AddStart], 0)
    OBVIOUS
  <2> QED
    BY <2>1
<1>2. ASSUME NEW n \in 1..Len(s), n - 1 \in T PROVE n \in T
  <2>1. PICK g : Runs(g, n - 1)
    BY <1>2
  <2> DEFINE h == [i \in 0..n |-> IF i = n THEN AddWord(s, g[n - 1], n) ELSE g[i]]
  <2>2. \A i \in 0..n : h[i] = IF i = 0 THEN AddStart ELSE AddWord(s, h[i - 1], i)
    <3>1. \A i \in 0..(n - 1) : g[i] = IF i = 0 THEN AddStart ELSE AddWord(s, g[i - 1], i)
      BY <2>1
    <3>2. \A i \in 0..(n - 1) : h[i] = g[i]
      OBVIOUS
    <3>3. h[n] = AddWord(s, g[n - 1], n) /\ n # 0 /\ n - 1 \in 0..(n - 1)
      BY <1>2
    <3> HIDE DEF h
    <3>4. ASSUME NEW i \in 1..(n - 1) PROVE i - 1 \in 0..(n - 1) /\ i \in 0..(n - 1)
      OBVIOUS
    <3>5. \A i \in 0..n : i = n \/ i = 0 \/ i \in 1..(n - 1)
      OBVIOUS
    <3>6. 0 \in 0..(n - 1)
      OBVIOUS
    <3> QED
      BY <3>1, <3>2, <3>3, <3>4, <3>5, <3>6
  <2>3. h = [i \in 0..n |-> h[i]]
    OBVIOUS
  <2> HIDE DEF h
  <2>4. Runs(h, n)
    BY <2>2, <2>3
  <2> QED
    BY <2>4
<1> HIDE DEF T
<1>3. Len(s) \in T
  <2>1. \A i \in 0..Len(s) : i \in T
    BY <1>1, <1>2, TurnByTurn
  <2> QED
    BY <2>1
<1>4. \E g : Runs(g, Len(s))
  BY <1>3 DEF T
<1>5. Runs(AddTurns(s), Len(s))
  <2>1. AddTurns(s) = CHOOSE g : Runs(g, Len(s))
    BY DEF AddTurns, AddStart
  <2> HIDE DEF Runs
  <2> QED
    BY <1>4, <2>1
<1> QED
  <2>1. \A i \in 0..Len(s) : AddTurns(s)[i] =
           IF i = 0 THEN AddStart ELSE AddWord(s, AddTurns(s)[i - 1], i)
    BY <1>5
  <2> QED
    BY <2>1

(* What the loop has found among the first n words.                        *)
AddedUpTo(s, n) ==
    LET words == {j \in 1..n : s[j] \in {CronWord, DelayWord}}
        crons == {j \in After(s, CronWord, IsCron) : j - 1 <= n}
        dates == {j \in After(s, DelayWord, IsDate) : j - 1 <= n}
    IN  [gone |-> words \cup crons \cup dates,
         cron |-> WordAt(s, crons),
         date |-> WordAt(s, dates)]

(* A turn of schedule add adds what the next word stands for.              *)
LEMMA AddStep ==
    ASSUME NEW s, Len(s) \in Nat, NEW i \in 1..Len(s)
    PROVE  AddWord(s, AddedUpTo(s, i - 1), i) = AddedUpTo(s, i)
<1> DEFINE crons(n) == {j \in After(s, CronWord, IsCron) : j - 1 <= n}
           dates(n) == {j \in After(s, DelayWord, IsDate) : j - 1 <= n}
           words(n) == {j \in 1..n : s[j] \in {CronWord, DelayWord}}
           acc == AddedUpTo(s, i - 1)
           more == i < Len(s)
           isCron == more /\ IsCron(s[i + 1])
           isDate == more /\ IsDate(s[i + 1])
<1>1. /\ acc.gone = words(i - 1) \cup crons(i - 1) \cup dates(i - 1)
      /\ acc.cron = WordAt(s, crons(i - 1))
      /\ acc.date = WordAt(s, dates(i - 1))
      /\ acc = [gone |-> acc.gone, cron |-> acc.cron, date |-> acc.date]
  BY DEF AddedUpTo
<1>2. words(i) = IF s[i] \in {CronWord, DelayWord} THEN words(i - 1) \cup {i} ELSE words(i - 1)
  OBVIOUS
<1>3. crons(i) = IF s[i] = CronWord /\ isCron THEN crons(i - 1) \cup {i + 1} ELSE crons(i - 1)
  BY DEF After
<1>4. dates(i) = IF s[i] = DelayWord /\ isDate THEN dates(i - 1) \cup {i + 1} ELSE dates(i - 1)
  BY DEF After
<1>5. /\ crons(i - 1) \subseteq Int /\ \A j \in crons(i - 1) : j <= i + 1
      /\ dates(i - 1) \subseteq Int /\ \A j \in dates(i - 1) : j <= i + 1
  BY DEF After
<1>6. s[i] \in {CronWord, DelayWord} => i \notin acc.gone
  BY <1>1, WordAssumption DEF After
<1>7. CronWord # DelayWord
  BY WordAssumption
<1>8. AddedUpTo(s, i) = [gone |-> words(i) \cup crons(i) \cup dates(i),
                         cron |-> WordAt(s, crons(i)), date |-> WordAt(s, dates(i))]
  BY DEF AddedUpTo
<1> HIDE DEF words, crons, dates, acc
<1>9. isCron => WordAt(s, crons(i - 1) \cup {i + 1}) = s[i + 1]
  <2>1. i + 1 \in Int
    OBVIOUS
  <2> QED
    BY <1>5, <2>1, LastWord
<1>10. isDate => WordAt(s, dates(i - 1) \cup {i + 1}) = s[i + 1]
  <2>1. i + 1 \in Int
    OBVIOUS
  <2> QED
    BY <1>5, <2>1, LastWord
<1>11. ASSUME s[i] = CronWord PROVE AddWord(s, acc, i) = AddedUpTo(s, i)
  <2>1. i \notin acc.gone /\ s[i] # DelayWord
    BY <1>6, <1>7, <1>11
  <2>2. AddWord(s, acc, i) = [acc EXCEPT !.gone = @ \cup Takes(i, isCron),
                                         !.cron = IF isCron THEN s[i + 1] ELSE @]
    BY <1>11, <2>1 DEF AddWord
  <2> HIDE DEF isCron, isDate
  <2>3. AddWord(s, acc, i) = [gone |-> acc.gone \cup Takes(i, isCron),
                              cron |-> IF isCron THEN s[i + 1] ELSE acc.cron,
                              date |-> acc.date]
    BY <1>1, <2>2
  <2>4. words(i) = words(i - 1) \cup {i} /\ dates(i) = dates(i - 1)
    BY <1>2, <1>4, <1>11, <2>1
  <2>5. acc.gone \cup Takes(i, isCron) = words(i) \cup crons(i) \cup dates(i)
    BY <1>1, <1>3, <1>11, <2>4 DEF Takes
  <2>6. (IF isCron THEN s[i + 1] ELSE acc.cron) = WordAt(s, crons(i))
    BY <1>1, <1>3, <1>9, <1>11
  <2> QED
    BY <1>1, <1>8, <2>3, <2>4, <2>5, <2>6
<1>12. ASSUME s[i] = DelayWord PROVE AddWord(s, acc, i) = AddedUpTo(s, i)
  <2>1. i \notin acc.gone /\ s[i] # CronWord
    BY <1>6, <1>7, <1>12
  <2>2. AddWord(s, acc, i) = [acc EXCEPT !.gone = @ \cup Takes(i, isDate),
                                         !.date = IF isDate THEN s[i + 1] ELSE @]
    BY <1>12, <2>1 DEF AddWord
  <2> HIDE DEF isCron, isDate
  <2>3. AddWord(s, acc, i) = [gone |-> acc.gone \cup Takes(i, isDate),
                              cron |-> acc.cron,
                              date |-> IF isDate THEN s[i + 1] ELSE acc.date]
    BY <1>1, <2>2
  <2>4. words(i) = words(i - 1) \cup {i} /\ crons(i) = crons(i - 1)
    BY <1>2, <1>3, <1>12, <2>1
  <2>5. acc.gone \cup Takes(i, isDate) = words(i) \cup crons(i) \cup dates(i)
    BY <1>1, <1>4, <1>12, <2>4 DEF Takes
  <2>6. (IF isDate THEN s[i + 1] ELSE acc.date) = WordAt(s, dates(i))
    BY <1>1, <1>4, <1>10, <1>12
  <2> QED
    BY <1>1, <1>8, <2>3, <2>4, <2>5, <2>6
<1>13. ASSUME s[i] \notin {CronWord, DelayWord} PROVE AddWord(s, acc, i) = AddedUpTo(s, i)
  <2>1. AddWord(s, acc, i) = acc
    BY <1>13 DEF AddWord
  <2> HIDE DEF isCron, isDate
  <2>2. words(i) = words(i - 1) /\ crons(i) = crons(i - 1) /\ dates(i) = dates(i - 1)
    BY <1>2, <1>3, <1>4, <1>13
  <2> QED
    BY <1>1, <1>8, <2>1, <2>2
<1> QED
  BY <1>11, <1>12, <1>13 DEF acc

(* For every text: what the loop of schedule add collects turn by turn is  *)
(* what the positions of its words say: the last cron and the last date    *)
(* that parse, and the first word that is left as the inner command.       *)
THEOREM AddIsRight ==
    ASSUME NEW s, Len(s) \in Nat, DOMAIN s = 1..Len(s)
    PROVE  Add(s) = AddsTo(s)
<1> DEFINE T == {i \in 0..Len(s) : AddTurns(s)[i] = AddedUpTo(s, i)}
<1>1. 0 \in T
  <2>1. {j \in After(s, CronWord, IsCron) : j - 1 <= 0} = {}
    BY DEF After
  <2>2. {j \in After(s, DelayWord, IsDate) : j - 1 <= 0} = {}
    BY DEF After
  <2>3. {j \in 1..0 : s[j] \in {CronWord, DelayWord}} = {}
    OBVIOUS
  <2>4. WordAt(s, {}) = NoWord
    BY DEF WordAt
  <2>5. AddedUpTo(s, 0) = AddStart
    BY <2>1, <2>2, <2>3, <2>4 DEF AddedUpTo, AddStart
  <2> QED
    BY <2>5, AddTurnsAre
<1>2. \A i \in 1..Len(s) : i - 1 \in T => i \in T
  BY AddTurnsAre, AddStep
<1> HIDE DEF T
<1>3. Len(s) \in T
  <2>1. \A i \in 0..Len(s) : i \in T
    BY <1>1, <1>2, TurnByTurn
  <2> QED
    BY <2>1
<1>4. AddTurns(s)[Len(s)] = AddedUpTo(s, Len(s))
  BY <1>3 DEF T
<1> DEFINE crons == After(s, CronWord, IsCron)
           dates == After(s, DelayWord, IsDate)
           words == {i \in DOMAIN s : s[i] \in {CronWord, DelayWord}}
<1>5. /\ {j \in crons : j - 1 <= Len(s)} = crons
      /\ {j \in dates : j - 1 <= Len(s)} = dates
      /\ {j \in 1..Len(s) : s[j] \in {CronWord, DelayWord}} = words
  BY DEF After
<1>6. AddedUpTo(s, Len(s)) = [gone |-> words \cup crons \cup dates,
                              cron |-> WordAt(s, crons), date |-> WordAt(s, dates)]
  BY <1>5 DEF AddedUpTo
<1>7. AddsTo(s) = Inner(s, words \cup crons \cup dates, WordAt(s, crons), WordAt(s, dates))
  BY DEF AddsTo
<1>8. Add(s) = Inner(s, AddTurns(s)[Len(s)].gone, AddTurns(s)[Len(s)].cron,
                        AddTurns(s)[Len(s)].date)
  BY DEF Add
<1> HIDE DEF words, crons, dates
<1>9. /\ AddTurns(s)[Len(s)].gone = words \cup crons \cup dates
      /\ AddTurns(s)[Len(s)].cron = WordAt(s, crons)
      /\ AddTurns(s)[Len(s)].date = WordAt(s, dates)
  BY <1>4, <1>6
<1> QED
  BY <1>7, <1>8, <1>9

-----------------------------------------------------------------------------
(* OneByOne is what its recursion says; so are the turns of the loop.      *)
LEMMA OneByOneIs ==
    ASSUME NEW t, NEW m \in Nat
    PROVE  /\ OneByOne(t, m)[0] = <<>>
           /\ \A i \in 1..m : OneByOne(t, m)[i] =
                 IF i \in DOMAIN t THEN Append(OneByOne(t, m)[i - 1], t[i]) ELSE OneByOne(t, m)[i - 1]
<1> DEFINE Turn(q, i) == IF i \in DOMAIN t THEN Append(q, t[i]) ELSE q
           Runs(g, n) == g = [i \in 0..n |-> IF i = 0 THEN <<>> ELSE Turn(g[i - 1], i)]
           T == {n \in Nat : \E g : Runs(g, n)}
<1>1. 0 \in T
  <2>1. Runs([i \in 0..0 |-> <<>>], 0)
    OBVIOUS
  <2> QED
    BY <2>1
<1>2. ASSUME NEW n \in 1..m, n - 1 \in T PROVE n \in T
  <2>1. PICK g : Runs(g, n - 1)
    BY <1>2
  <2> DEFINE h == [i \in 0..n |-> IF i = n THEN Turn(g[n - 1], n) ELSE g[i]]
  <2>2. \A i \in 0..n : h[i] = IF i = 0 THEN <<>> ELSE Turn(h[i - 1], i)
    <3>1. \A i \in 0..(n - 1) : g[i] = IF i = 0 THEN <<>> ELSE Turn(g[i - 1], i)
      BY <2>1
    <3>2. \A i \in 0..(n - 1) : h[i] = g[i]
      OBVIOUS
    <3>3. h[n] = Turn(g[n - 1], n) /\ n # 0 /\ n - 1 \in 0..(n - 1)
      BY <1>2
    <3> HIDE DEF h
    <3>4. ASSUME NEW i \in 1..(n - 1) PROVE i - 1 \in 0..(n - 1) /\ i \in 0..(n - 1)
      OBVIOUS
    <3>5. \A i \in 0..n : i = n \/ i = 0 \/ i \in 1..(n - 1)
      OBVIOUS
    <3>6. 0 \in 0..(n - 1)
      OBVIOUS
    <3> QED
      BY <3>1, <3>2, <3>3, <3>4, <3>5, <3>6
  <2>3. h = [i \in 0..n |-> h[i]]
    OBVIOUS
  <2> HIDE DEF h
  <2>4. Runs(h, n)
    BY <2>2, <2>3
  <2> QED
    BY <2>4
<1> HIDE DEF T
<1>3. m \in T
  <2>1. \A i \in 0..m : i \in T
    BY <1>1, <1>2, TurnByTurn
  <2> QED
    BY <2>1
<1>4. \E g : Runs(g, m)
  BY <1>3 DEF T
<1>5. Runs(OneByOne(t, m), m)
  <2>1. OneByOne(t, m) = CHOOSE g : Runs(g, m)
    BY DEF OneByOne
  <2> HIDE DEF Runs
  <2> QED
    BY <1>4, <2>1
<1> QED
  <2>1. \A i \in 0..m : OneByOne(t, m)[i] =
           IF i = 0 THEN <<>> ELSE Turn(OneByOne(t, m)[i - 1], i)
    BY <1>5
  <2> QED
    BY <2>1

(* The loop of _parse_command_args before its first word, and turn by turn.*)
ParseStart(mentions) ==
    [args |-> <<>>, targets |-> <<>>, channel |-> NoWord, left |-> mentions, skip |-> {}]

LEMMA ParseTurnsAre ==
    ASSUME NEW s, Len(s) \in Nat, NEW mentions, NEW symphony
    PROVE  LET at == ParseTurns(s, mentions, symphony) IN
           /\ at[0] = ParseStart(mentions)
           /\ \A i \in 1..Len(s) : at[i] = ParseWord(s, mentions, symphony, at[i - 1], i)
<1> DEFINE All == ParseTurns(s, mentions, symphony)
           Start == ParseStart(mentions)
           Turn(acc, i) == ParseWord(s, mentions, symphony, acc, i)
           Runs(g, n) == g = [i \in 0..n |-> IF i = 0 THEN Start ELSE Turn(g[i - 1], i)]
           T == {n \in Nat : \E g : Runs(g, n)}
<1>1. 0 \in T
  <2>1. Runs([i \in 0..0 |-> Start], 0)
    OBVIOUS
  <2> QED
    BY <2>1
<1>2. ASSUME NEW n \in 1..Len(s), n - 1 \in T PROVE n \in T
  <2>1. PICK g : Runs(g, n - 1)
    BY <1>2
  <2> DEFINE h == [i \in 0..n |-> IF i = n THEN Turn(g[n - 1], n) ELSE g[i]]
  <2>2. \A i \in 0..n : h[i] = IF i = 0 THEN Start ELSE Turn(h[i - 1], i)
    <3>1. \A i \in 0..(n - 1) : g[i] = IF i = 0 THEN Start ELSE Turn(g[i - 1], i)
      BY <2>1
    <3>2. \A i \in 0..(n - 1) : h[i] = g[i]
      OBVIOUS
    <3>3. h[n] = Turn(g[n - 1], n) /\ n # 0 /\ n - 1 \in 0..(n - 1)
      BY <1>2
    <3> HIDE DEF h
    <3>4. ASSUME NEW i \in 1..(n - 1) PROVE i - 1 \in 0..(n - 1) /\ i \in 0..(n - 1)
      OBVIOUS
    <3>5. \A i \in 0..n : i = n \/ i = 0 \/ i \in 1..(n - 1)
      OBVIOUS
    <3>6. 0 \in 0..(n - 1)
      OBVIOUS
    <3> QED
      BY <3>1, <3>2, <3>3, <3>4, <3>5, <3>6
  <2>3. h = [i \in 0..n |-> h[i]]
    OBVIOUS
  <2> HIDE DEF h
  <2>4. Runs(h, n)
    BY <2>2, <2>3
  <2> QED
    BY <2>4
<1> HIDE DEF T
<1>3. Len(s) \in T
  <2>1. \A i \in 0..Len(s) : i \in T
    BY <1>1, <1>2, TurnByTurn
  <2> QED
    BY <2>1
<1>4. \E g : Runs(g, Len(s))
  BY <1>3 DEF T
<1>5. Runs(All, Len(s))
  <2>1. All = CHOOSE g : Runs(g, Len(s))
    BY DEF ParseTurns, ParseStart
  <2> HIDE DEF Runs
  <2> QED
    BY <1>4, <2>1
<1> QED
  <2>1. \A i \in 0..Len(s) : All[i] =
           IF i = 0 THEN Start ELSE Turn(All[i - 1], i)
    BY <1>5
  <2> QED
    BY <2>1

-----------------------------------------------------------------------------
(* Channels are named by every other word of a row of directives.          *)
LEMMA ChannelNames ==
    ASSUME NEW s, NEW i \in Nat \ {0}
    PROVE  /\ ~NamesChannel(s, 1)
           /\ NamesChannel(s, i + 1) <=> s[i] \in ChannelWords /\ ~NamesChannel(s, i)
<1> DEFINE Row(n) == \A k \in (i - n)..(i - 1) : s[k] \in ChannelWords
           Row1(n) == \A k \in (i + 1 - n)..i : s[k] \in ChannelWords
           Ends(n) == i - n = 1 \/ s[i - n - 1] \notin ChannelWords
<1>1. ~NamesChannel(s, 1)
  BY DEF NamesChannel
<1>2. NamesChannel(s, i) <=> \E n \in 1..(i - 1) : n % 2 = 1 /\ Row(n) /\ Ends(n)
  BY DEF NamesChannel
<1>3. NamesChannel(s, i + 1) <=>
         \E n \in 1..i : n % 2 = 1 /\ Row1(n) /\ (i + 1 - n = 1 \/ s[i - n] \notin ChannelWords)
  <2>1. /\ i + 1 - 1 = i
        /\ \A n \in 1..i : i + 1 - n - 1 = i - n
    OBVIOUS
  <2> QED
    BY <2>1 DEF NamesChannel
<1>4. ASSUME NamesChannel(s, i + 1) PROVE s[i] \in ChannelWords /\ ~NamesChannel(s, i)
  <2>1. PICK n \in 1..i : /\ n % 2 = 1 /\ Row1(n)
                          /\ i + 1 - n = 1 \/ s[i - n] \notin ChannelWords
    BY <1>3, <1>4
  <2>2. s[i] \in ChannelWords
    BY <2>1
  <2>3. ASSUME NEW m \in 1..(i - 1), m % 2 = 1, Row(m), Ends(m) PROVE FALSE
    <3>1. CASE m + 1 = n
      BY <2>1, <2>3, <3>1
    <3>2. CASE m + 1 < n
      <4>1. i - m - 1 \in (i + 1 - n)..i /\ i - m # 1
        BY <2>3, <3>2
      <4> QED
        BY <2>1, <2>3, <4>1
    <3>3. CASE n < m + 1
      <4>1. i - n \in (i - m)..(i - 1) /\ i + 1 - n # 1
        BY <2>3, <3>3
      <4> QED
        BY <2>1, <2>3, <4>1
    <3> QED
      BY <3>1, <3>2, <3>3
  <2> QED
    BY <1>2, <2>2, <2>3
<1>5. ASSUME s[i] \in ChannelWords, ~NamesChannel(s, i) PROVE NamesChannel(s, i + 1)
  <2> DEFINE D == {n \in 1..i : i - n = 0 \/ s[i - n] \notin ChannelWords}
  <2>1. i \in D
    OBVIOUS
  <2>2. D \in SUBSET Nat
    OBVIOUS
  <2>3. PICK n \in D : \A x \in D : n <= x
    BY <2>1, <2>2, LeastNumber
  <2>4. ASSUME NEW k \in (i + 1 - n)..i PROVE s[k] \in ChannelWords
    <3>1. CASE k = i
      BY <1>5, <3>1
    <3>2. CASE k # i
      <4>1. i - k \in 1..i /\ i - k < n /\ i - (i - k) = k /\ k # 0
        BY <2>3, <2>4, <3>2
      <4>2. i - k \notin D
        BY <2>3, <4>1
      <4> QED
        BY <4>1, <4>2
    <3> QED
      BY <3>1, <3>2
  <2>5. n % 2 = 1
    <3> SUFFICES ASSUME n % 2 = 0 PROVE FALSE
      BY <2>3
    <3>1. n - 1 \in 1..(i - 1) /\ (n - 1) % 2 = 1
      BY <2>3
    <3>2. Row(n - 1)
      BY <2>3, <2>4, <3>1
    <3>3. Ends(n - 1)
      BY <2>3, <3>1
    <3> QED
      BY <1>2, <1>5, <3>1, <3>2, <3>3
  <2> QED
    BY <1>3, <2>3, <2>4, <2>5
<1> QED
  BY <1>1, <1>4, <1>5

(* How many mentions have been matched, if there are enough.               *)
LEMMA CountedMentions ==
    ASSUME NEW s, NEW i \in Nat \ {0}
    PROVE  /\ Nth(s, 0) = 0
           /\ Nth(s, i - 1) \in Nat /\ Nth(s, i) \in Nat
           /\ Nth(s, i) = IF s[i] \in Ats /\ ~NamesChannel(s, i)
                            THEN Nth(s, i - 1) + 1 ELSE Nth(s, i - 1)
<1> DEFINE P(n) == {j \in 1..n : s[j] \in Ats /\ ~NamesChannel(s, j)}
<1>1. P(0) = {}
  OBVIOUS
<1>2. P(i) = IF s[i] \in Ats /\ ~NamesChannel(s, i) THEN P(i - 1) \cup {i} ELSE P(i - 1)
  OBVIOUS
<1>3. i \notin P(i - 1)
  OBVIOUS
<1>4. IsFiniteSet(P(i - 1))
  <2>1. 1 \in Int /\ i - 1 \in Int
    OBVIOUS
  <2>2. IsFiniteSet(1..(i - 1))
    BY <2>1, FS_Interval, Zenon
  <2>3. P(i - 1) \subseteq 1..(i - 1)
    OBVIOUS
  <2> HIDE DEF P
  <2> QED
    BY <2>2, <2>3, FS_Subset
<1>5. Nth(s, 0) = Cardinality(P(0)) /\ Nth(s, i - 1) = Cardinality(P(i - 1))
      /\ Nth(s, i) = Cardinality(P(i))
  BY DEF Nth
<1> HIDE DEF P
<1>6. Cardinality(P(i - 1)) \in Nat /\ Cardinality({}) = 0
  BY <1>4, FS_CardinalityType, FS_EmptySet
<1>7. Cardinality(P(i - 1) \cup {i}) =
         IF i \in P(i - 1) THEN Cardinality(P(i - 1)) ELSE Cardinality(P(i - 1)) + 1
  BY <1>4, FS_AddElement
<1>8. Nth(s, 0) = 0 /\ Nth(s, i - 1) \in Nat
  BY <1>1, <1>5, <1>6
<1>9. CASE s[i] \in Ats /\ ~NamesChannel(s, i)
  <2>1. Nth(s, i) = Nth(s, i - 1) + 1
    BY <1>2, <1>3, <1>5, <1>7, <1>9
  <2> QED
    BY <1>8, <1>9, <2>1
<1>10. CASE ~(s[i] \in Ats /\ ~NamesChannel(s, i))
  <2>1. P(i) = P(i - 1)
    BY <1>2, <1>10
  <2>2. Nth(s, i) = Nth(s, i - 1)
    BY <1>5, <2>1
  <2> QED
    BY <1>8, <1>10, <2>2
<1> QED
  BY <1>9, <1>10

-----------------------------------------------------------------------------
(* What the words of s are, as ParsesTo says it.                           *)
Hit(s, mentions, symphony, i) == symphony /\ Matched(s, mentions, i)

ArgumentsOf(s, mentions, symphony) ==
    [i \in {i \in DOMAIN s : ~Used(s, mentions, symphony, i) /\ ById(s[i], mentions) = <<>>}
       |-> s[i]]

TargetsOf(s, mentions, symphony) ==
    [i \in {i \in DOMAIN s :
              \/ ~Used(s, mentions, symphony, i) /\ ById(s[i], mentions) # <<>>
              \/ Hit(s, mentions, symphony, i)}
       |-> IF Hit(s, mentions, symphony, i) THEN mentions[Nth(s, i)]
           ELSE Head(ById(s[i], mentions))]

(* The channels that were named, and the words that are skipped, by the    *)
(* first n words.                                                          *)
NamedBy(s, n) == {j \in 2..Len(s) : j - 1 <= n /\ Directs(s, j - 1)}

SkippedBy(s, mentions, symphony, n) ==
    NamedBy(s, n) \cup
    {j \in 1..Len(s) : \E k \in 1..n : Hit(s, mentions, symphony, k) /\ j \in NameAfter(s, k)}

(* The mentions that are left on Symphony after n words.                   *)
LeftBy(s, mentions, symphony, left, n) ==
    /\ left \in Seq(Accounts)
    /\ symphony =>
          /\ Len(left) = IF Nth(s, n) <= Len(mentions) THEN Len(mentions) - Nth(s, n) ELSE 0
          /\ \A k \in 1..Len(left) : left[k] = mentions[Nth(s, n) + k]

(* What the loop has after n words.                                        *)
Parsed(s, mentions, symphony, acc, n) ==
    /\ acc = [args |-> OneByOne(ArgumentsOf(s, mentions, symphony), Len(s))[n],
              targets |-> OneByOne(TargetsOf(s, mentions, symphony), Len(s))[n],
              channel |-> WordAt(s, NamedBy(s, n)),
              left |-> acc.left,
              skip |-> SkippedBy(s, mentions, symphony, n)]
    /\ LeftBy(s, mentions, symphony, acc.left, n)

(* What a word adds to the channels that were named.                       *)
LEMMA NamesByTurn ==
    ASSUME NEW s \in Seq(Words), NEW i \in 1..Len(s)
    PROVE  /\ NamedBy(s, i) = IF Directs(s, i) /\ i < Len(s)
                                THEN NamedBy(s, i - 1) \cup {i + 1} ELSE NamedBy(s, i - 1)
           /\ WordAt(s, NamedBy(s, i)) = IF Directs(s, i) /\ i < Len(s)
                                           THEN s[i + 1] ELSE WordAt(s, NamedBy(s, i - 1))
           /\ i \in NamedBy(s, i - 1) <=> NamesChannel(s, i)
<1>1. Len(s) \in Nat
  OBVIOUS
<1>2. NamedBy(s, i) = IF Directs(s, i) /\ i < Len(s)
                        THEN NamedBy(s, i - 1) \cup {i + 1} ELSE NamedBy(s, i - 1)
  BY <1>1 DEF NamedBy
<1>3. /\ NamedBy(s, i - 1) \subseteq Int /\ i + 1 \in Int
      /\ \A j \in NamedBy(s, i - 1) : j <= i + 1
  BY <1>1 DEF NamedBy
<1>4. WordAt(s, NamedBy(s, i - 1) \cup {i + 1}) = s[i + 1]
  BY <1>3, LastWord
<1>5. i \in NamedBy(s, i - 1) <=> NamesChannel(s, i)
  <2>1. CASE i = 1
    BY <1>1, <2>1, ChannelNames DEF NamedBy
  <2>2. CASE i # 1
    <3>1. i - 1 \in Nat \ {0} /\ i - 1 + 1 = i /\ i \in 2..Len(s)
      BY <2>2
    <3>2. NamesChannel(s, i) <=> s[i - 1] \in ChannelWords /\ ~NamesChannel(s, i - 1)
      BY <3>1, ChannelNames
    <3> QED
      BY <3>1, <3>2 DEF NamedBy, Directs
  <2> QED
    BY <2>1, <2>2
<1> QED
  BY <1>2, <1>4, <1>5

(* What a word adds to the words that are skipped, and when it is one.     *)
LEMMA SkippedByTurn ==
    ASSUME NEW s \in Seq(Words), NEW mentions, NEW symphony \in BOOLEAN, NEW i \in 1..Len(s)
    PROVE  /\ SkippedBy(s, mentions, symphony, i) =
                SkippedBy(s, mentions, symphony, i - 1)
                \cup (IF Directs(s, i) /\ i < Len(s) THEN {i + 1} ELSE {})
                \cup (IF Hit(s, mentions, symphony, i) THEN NameAfter(s, i) ELSE {})
           /\ i \in SkippedBy(s, mentions, symphony, i - 1) <=>
                NamesChannel(s, i) \/ (symphony /\ InName(s, mentions, i))
<1> DEFINE H(k) == Hit(s, mentions, symphony, k)
           N(n) == {j \in 1..Len(s) : \E k \in 1..n : H(k) /\ j \in NameAfter(s, k)}
<1>1. Len(s) \in Nat
  OBVIOUS
<1>2. NameAfter(s, i) \subseteq 1..Len(s)
  BY <1>1 DEF NameAfter
<1>3. N(i) = N(i - 1) \cup (IF H(i) THEN NameAfter(s, i) ELSE {})
  <2>1. \A k : k \in 1..i <=> k \in 1..(i - 1) \/ k = i
    OBVIOUS
  <2> HIDE DEF H
  <2> QED
    BY <1>2, <2>1
<1>4. i \in N(i - 1) <=> symphony /\ InName(s, mentions, i)
  BY <1>1 DEF InName, Hit, NameAfter
<1>5. \A n : SkippedBy(s, mentions, symphony, n) = NamedBy(s, n) \cup N(n)
  BY DEF SkippedBy
<1> HIDE DEF N
<1>6. NamedBy(s, i) = NamedBy(s, i - 1) \cup (IF Directs(s, i) /\ i < Len(s) THEN {i + 1} ELSE {})
  BY NamesByTurn
<1>7. i \in NamedBy(s, i - 1) <=> NamesChannel(s, i)
  BY NamesByTurn
<1> QED
  BY <1>3, <1>4, <1>5, <1>6, <1>7

(* What a turn does to the arguments and to the targets.                   *)
LEMMA SortedByTurn ==
    ASSUME NEW s \in Seq(Words), NEW mentions, NEW symphony \in BOOLEAN, NEW i \in 1..Len(s)
    PROVE  LET a == OneByOne(ArgumentsOf(s, mentions, symphony), Len(s))
               b == OneByOne(TargetsOf(s, mentions, symphony), Len(s))
               used == Used(s, mentions, symphony, i)
               hit  == Hit(s, mentions, symphony, i)
               user == ById(s[i], mentions)
           IN  /\ ~used /\ user = <<>> => a[i] = Append(a[i - 1], s[i])
               /\ used \/ user # <<>> => a[i] = a[i - 1]
               /\ hit => b[i] = Append(b[i - 1], mentions[Nth(s, i)])
               /\ ~hit /\ ~used /\ user # <<>> => b[i] = Append(b[i - 1], Head(user))
               /\ ~hit /\ (used \/ user = <<>>) => b[i] = b[i - 1]
<1> DEFINE ar == ArgumentsOf(s, mentions, symphony)
           ta == TargetsOf(s, mentions, symphony)
           a == OneByOne(ar, Len(s))
           b == OneByOne(ta, Len(s))
           used == Used(s, mentions, symphony, i)
           hit  == Hit(s, mentions, symphony, i)
           user == ById(s[i], mentions)
<1>1. Len(s) \in Nat /\ i \in DOMAIN s
  OBVIOUS
<1>2. /\ i \in DOMAIN ar <=> ~used /\ user = <<>>
      /\ i \in DOMAIN ar => ar[i] = s[i]
  BY <1>1 DEF ArgumentsOf
<1>3. /\ i \in DOMAIN ta <=> hit \/ (~used /\ user # <<>>)
      /\ i \in DOMAIN ta => ta[i] = IF hit THEN mentions[Nth(s, i)] ELSE Head(user)
  BY <1>1 DEF TargetsOf
<1> HIDE DEF ar, ta
<1>4. a[i] = IF i \in DOMAIN ar THEN Append(a[i - 1], ar[i]) ELSE a[i - 1]
  BY <1>1, OneByOneIs
<1>5. b[i] = IF i \in DOMAIN ta THEN Append(b[i - 1], ta[i]) ELSE b[i - 1]
  BY <1>1, OneByOneIs
<1> HIDE DEF a, b, used, hit, user
<1>6. /\ ~used /\ user = <<>> => a[i] = Append(a[i - 1], s[i])
      /\ used \/ user # <<>> => a[i] = a[i - 1]
      /\ hit => b[i] = Append(b[i - 1], mentions[Nth(s, i)])
      /\ ~hit /\ ~used /\ user # <<>> => b[i] = Append(b[i - 1], Head(user))
      /\ ~hit /\ (used \/ user = <<>>) => b[i] = b[i - 1]
  BY <1>2, <1>3, <1>4, <1>5
<1> QED
  BY <1>6 DEF a, b, ar, ta, used, hit, user

(* A word with an @ that names no channel is matched if a mention is left, *)
(* and takes the first one.                                                *)
LEMMA LeftByTurn ==
    ASSUME NEW s \in Seq(Words), NEW mentions \in Seq(Accounts), NEW symphony \in BOOLEAN,
           NEW i \in 1..Len(s), NEW left, LeftBy(s, mentions, symphony, left, i - 1)
    PROVE  LET counted == s[i] \in Ats /\ ~NamesChannel(s, i) IN
           /\ Matched(s, mentions, i) => counted
           /\ symphony /\ counted /\ left # <<>> =>
                /\ Matched(s, mentions, i)
                /\ Head(left) = mentions[Nth(s, i)]
                /\ LeftBy(s, mentions, symphony, Tail(left), i)
           /\ symphony /\ left = <<>> => ~Matched(s, mentions, i)
           /\ ~(symphony /\ counted /\ left # <<>>) => LeftBy(s, mentions, symphony, left, i)
<1> DEFINE counted == s[i] \in Ats /\ ~NamesChannel(s, i)
           p == Nth(s, i - 1)
           q == Nth(s, i)
           m == Len(mentions)
           l == Len(left)
<1>1. /\ p \in Nat /\ q \in Nat /\ m \in Nat
      /\ counted => q = p + 1
      /\ ~counted => q = p
  <2>1. i \in Nat \ {0}
    OBVIOUS
  <2> QED
    BY <2>1, CountedMentions
<1>2. Matched(s, mentions, i) <=> counted /\ q <= m
  BY DEF Matched
<1>3. left \in Seq(Accounts) /\ l \in Nat /\ (left = <<>> <=> l = 0)
  <2>1. left \in Seq(Accounts)
    BY DEF LeftBy
  <2> QED
    BY <2>1, EmptySeq
<1>4. ASSUME symphony
      PROVE  l = (IF p <= m THEN m - p ELSE 0) /\ \A k \in 1..l : left[k] = mentions[p + k]
  BY <1>4 DEF LeftBy
<1>5. \A r : LeftBy(s, mentions, symphony, r, i) <=>
            /\ r \in Seq(Accounts)
            /\ symphony => /\ Len(r) = IF q <= m THEN m - q ELSE 0
                           /\ \A k \in 1..Len(r) : r[k] = mentions[q + k]
  BY DEF LeftBy
<1> HIDE DEF counted, p, q, m
<1>6. ASSUME symphony, counted, left # <<>>
      PROVE  /\ Matched(s, mentions, i)
             /\ Head(left) = mentions[q]
             /\ LeftBy(s, mentions, symphony, Tail(left), i)
  <2>1. l = m - p /\ l > 0 /\ q = p + 1
    BY <1>1, <1>3, <1>4, <1>6
  <2>2. /\ Head(left) = left[1] /\ Tail(left) \in Seq(Accounts)
        /\ Len(Tail(left)) = l - 1
        /\ \A k \in 1..Len(Tail(left)) : Tail(left)[k] = left[k + 1]
    BY <1>3, <1>6, HeadTailProperties
  <2>3. Matched(s, mentions, i)
    BY <1>1, <1>2, <1>3, <1>6, <2>1
  <2>4. Head(left) = mentions[q]
    BY <1>1, <1>3, <1>4, <1>6, <2>1, <2>2
  <2>5. Len(Tail(left)) = IF q <= m THEN m - q ELSE 0
    BY <1>1, <1>3, <2>1, <2>2
  <2>6. ASSUME NEW k \in 1..Len(Tail(left)) PROVE Tail(left)[k] = mentions[q + k]
    <3>1. k + 1 \in 1..l /\ p + (k + 1) = q + k
      BY <1>1, <1>3, <2>1, <2>2
    <3> QED
      BY <1>4, <1>6, <2>2, <3>1
  <2> QED
    BY <1>5, <2>2, <2>3, <2>4, <2>5, <2>6
<1>7. ASSUME symphony, left = <<>> PROVE ~Matched(s, mentions, i)
  BY <1>1, <1>2, <1>3, <1>4, <1>7
<1>8. ASSUME ~(symphony /\ counted /\ left # <<>>)
      PROVE  LeftBy(s, mentions, symphony, left, i)
  <2>1. CASE ~symphony
    BY <1>3, <1>5, <2>1
  <2>2. CASE symphony /\ ~counted
    BY <1>1, <1>3, <1>4, <1>5, <2>2
  <2>3. CASE symphony /\ counted /\ left = <<>>
    <3>1. Len(left) = IF q <= m THEN m - q ELSE 0
      BY <1>1, <1>3, <1>4, <2>3
    <3>2. \A k \in 1..Len(left) : left[k] = mentions[q + k]
      BY <1>3, <2>3
    <3> QED
      BY <1>3, <1>5, <3>1, <3>2
  <2> QED
    BY <1>8, <2>1, <2>2, <2>3
<1> QED
  BY <1>2, <1>6, <1>7, <1>8 DEF counted, q

(* A turn of the loop does with its word what the word is used for: it was *)
(* skipped, names a channel, is a mention, or is left for an id or an      *)
(* argument.                                                               *)
LEMMA ParseStep ==
    ASSUME NEW s \in Seq(Words), NEW mentions \in Seq(Accounts), NEW symphony \in BOOLEAN,
           NEW i \in 1..Len(s), NEW acc, Parsed(s, mentions, symphony, acc, i - 1)
    PROVE  Parsed(s, mentions, symphony, ParseWord(s, mentions, symphony, acc, i), i)
<1> DEFINE a == OneByOne(ArgumentsOf(s, mentions, symphony), Len(s))
           b == OneByOne(TargetsOf(s, mentions, symphony), Len(s))
           used == Used(s, mentions, symphony, i)
           hit  == Hit(s, mentions, symphony, i)
           user == ById(s[i], mentions)
           named == NamesChannel(s, i)
           directs == Directs(s, i)
           inName == symphony /\ InName(s, mentions, i)
           chan(n) == WordAt(s, NamedBy(s, n))
           skipped(n) == SkippedBy(s, mentions, symphony, n)
           matched == Matched(s, mentions, i)
           left == acc.left
           next == ParseWord(s, mentions, symphony, acc, i)
<1>1. /\ acc = [args |-> a[i - 1], targets |-> b[i - 1], channel |-> chan(i - 1),
                left |-> left, skip |-> skipped(i - 1)]
      /\ LeftBy(s, mentions, symphony, left, i - 1)
  BY DEF Parsed
<1>2. /\ used <=> named \/ s[i] \in ChannelWords \/ hit \/ inName
      /\ hit <=> symphony /\ matched
      /\ directs <=> s[i] \in ChannelWords /\ ~named
  BY DEF Used, Hit, Directs
<1>3. /\ ~used /\ user = <<>> => a[i] = Append(a[i - 1], s[i])
      /\ used \/ user # <<>> => a[i] = a[i - 1]
      /\ hit => b[i] = Append(b[i - 1], mentions[Nth(s, i)])
      /\ ~hit /\ ~used /\ user # <<>> => b[i] = Append(b[i - 1], Head(user))
      /\ ~hit /\ (used \/ user = <<>>) => b[i] = b[i - 1]
  BY SortedByTurn
<1>4. chan(i) = IF directs /\ i < Len(s) THEN s[i + 1] ELSE chan(i - 1)
  BY NamesByTurn
<1>5. /\ skipped(i) = skipped(i - 1) \cup (IF directs /\ i < Len(s) THEN {i + 1} ELSE {})
                                     \cup (IF hit THEN NameAfter(s, i) ELSE {})
      /\ i \in skipped(i - 1) <=> named \/ inName
  BY SkippedByTurn
<1>6. /\ matched => s[i] \in Ats /\ ~named
      /\ symphony /\ s[i] \in Ats /\ ~named /\ left # <<>> =>
           /\ matched
           /\ Head(left) = mentions[Nth(s, i)]
           /\ LeftBy(s, mentions, symphony, Tail(left), i)
      /\ symphony /\ left = <<>> => ~matched
      /\ ~(symphony /\ s[i] \in Ats /\ ~named /\ left # <<>>) =>
           LeftBy(s, mentions, symphony, left, i)
  BY <1>1, LeftByTurn
<1>7. /\ s[i] \in ChannelWords => s[i] \notin Ats
      /\ inName => s[i] \notin Slashed \cup Ats
      /\ inName => s[i] \notin ChannelWords
  <2>1. ChannelWords \subseteq Slashed /\ Slashed \cap Ats = {}
    BY WordAssumption
  <2>2. inName => s[i] \notin Slashed \cup Ats
    <3> SUFFICES ASSUME inName PROVE s[i] \notin Slashed \cup Ats
      OBVIOUS
    <3>1. PICK j \in 1..(i - 1) : \A k \in (j + 1)..i : s[k] \notin Slashed \cup Ats
      BY DEF InName
    <3>2. i \in (j + 1)..i
      BY <3>1
    <3> QED
      BY <3>1, <3>2
  <2> HIDE DEF inName
  <2> QED
    BY <2>1, <2>2
<1>8. ASSUME NEW r, r = [args |-> a[i], targets |-> b[i], channel |-> chan(i),
                         left |-> r.left, skip |-> skipped(i)],
             LeftBy(s, mentions, symphony, r.left, i)
      PROVE  Parsed(s, mentions, symphony, r, i)
  BY <1>8 DEF Parsed
<1>9. ASSUME i \in acc.skip PROVE next = acc
  BY <1>9 DEF ParseWord
<1>10. ASSUME i \notin acc.skip, s[i] \in ChannelWords
       PROVE  next = IF i = Len(s) THEN acc
                     ELSE [acc EXCEPT !.channel = s[i + 1], !.skip = @ \cup {i + 1}]
  BY <1>7, <1>10 DEF ParseWord
<1>11. ASSUME i \notin acc.skip, s[i] \notin ChannelWords, symphony, s[i] \in Ats, left # <<>>
       PROVE  next = [acc EXCEPT !.targets = Append(@, Head(left)),
                                 !.left = Tail(@),
                                 !.skip = @ \cup NameAfter(s, i)]
  BY <1>11 DEF ParseWord
<1>12. ASSUME i \notin acc.skip, s[i] \notin ChannelWords, ~(symphony /\ s[i] \in Ats /\ left # <<>>)
       PROVE  next = IF user # <<>> THEN [acc EXCEPT !.targets = Append(@, Head(user))]
                     ELSE [acc EXCEPT !.args = Append(@, s[i])]
  BY <1>12 DEF ParseWord
<1> DEFINE ai == a[i - 1]  aj == a[i]
           bi == b[i - 1]  bj == b[i]
           ci == chan(i - 1)  cj == chan(i)
           si == skipped(i - 1)  sj == skipped(i)
           nth == mentions[Nth(s, i)]
           Lf(r) == LeftBy(s, mentions, symphony, r, i)
<1> HIDE DEF a, b, used, hit, user, named, directs, inName, chan, skipped, matched, left, next, Lf, nth
<1>13. /\ acc = [args |-> ai, targets |-> bi, channel |-> ci, left |-> left, skip |-> si]
       /\ acc.skip = si /\ acc.args = ai /\ acc.targets = bi /\ acc.channel = ci /\ acc.left = left
  BY <1>1
<1>14. i < Len(s) \/ i = Len(s)
  OBVIOUS
<1> DEFINE Is(x, y, z, l, k) == [args |-> x, targets |-> y, channel |-> z, left |-> l, skip |-> k]
<1>15. ASSUME NEW l, Lf(l), next = Is(aj, bj, cj, l, sj)
       PROVE  Parsed(s, mentions, symphony, next, i)
  <2>1. next.left = l
    BY <1>15
  <2>2. LeftBy(s, mentions, symphony, next.left, i)
    BY <1>15, <2>1 DEF Lf
  <2> QED
    BY <1>8, <1>15, <2>1, <2>2
<1> HIDE DEF ai, aj, bi, bj, ci, cj, si, sj
<1> SUFFICES Parsed(s, mentions, symphony, next, i)
  BY DEF next
<1>16. CASE i \in acc.skip
  <2>1. named \/ inName
    BY <1>5, <1>13, <1>16 DEF si
  <2>2. used /\ ~hit /\ ~directs /\ ~(s[i] \in Ats /\ ~named)
    BY <1>2, <1>6, <1>7, <2>1
  <2>3. aj = ai /\ bj = bi /\ cj = ci /\ sj = si
    BY <1>3, <1>4, <1>5, <2>2 DEF ai, aj, bi, bj, ci, cj, si, sj
  <2>4. Lf(left)
    BY <1>6, <2>2 DEF Lf
  <2>5. next = Is(aj, bj, cj, left, sj)
    BY <1>9, <1>13, <1>16, <2>3
  <2> QED
    BY <1>15, <2>4, <2>5
<1>17. CASE i \notin acc.skip /\ s[i] \in ChannelWords
  <2>1. ~named /\ ~inName
    BY <1>5, <1>13, <1>17 DEF si
  <2>2. used /\ ~hit /\ directs /\ s[i] \notin Ats
    BY <1>2, <1>6, <1>7, <1>17, <2>1
  <2>3. aj = ai /\ bj = bi
    BY <1>3, <2>2 DEF ai, aj, bi, bj
  <2>4. Lf(left)
    BY <1>6, <2>2 DEF Lf
  <2>5. CASE i = Len(s)
    <3>1. cj = ci /\ sj = si
      BY <1>4, <1>5, <2>2, <2>5 DEF ci, cj, si, sj
    <3>2. next = Is(aj, bj, cj, left, sj)
      BY <1>10, <1>13, <1>17, <2>3, <2>5, <3>1
    <3> QED
      BY <1>15, <2>4, <3>2
  <2>6. CASE i # Len(s)
    <3>1. cj = s[i + 1] /\ sj = si \cup {i + 1}
      BY <1>4, <1>5, <1>14, <2>2, <2>6 DEF ci, cj, si, sj
    <3>2. next = [acc EXCEPT !.channel = s[i + 1], !.skip = @ \cup {i + 1}]
      BY <1>10, <1>17, <2>6
    <3>3. next = Is(ai, bi, s[i + 1], left, si \cup {i + 1})
      BY <1>13, <3>2
    <3>4. next = Is(aj, bj, cj, left, sj)
      BY <2>3, <3>1, <3>3
    <3> QED
      BY <1>15, <2>4, <3>4
  <2> QED
    BY <2>5, <2>6
<1>18. CASE i \notin acc.skip /\ s[i] \notin ChannelWords /\ symphony /\ s[i] \in Ats /\ left # <<>>
  <2>1. ~named /\ ~inName
    BY <1>5, <1>13, <1>18 DEF si
  <2>2. matched /\ Head(left) = nth /\ Lf(Tail(left))
    BY <1>6, <1>18, <2>1 DEF Lf, nth
  <2>3. used /\ hit /\ ~directs
    BY <1>2, <1>18, <2>2
  <2>4. aj = ai /\ bj = Append(bi, Head(left)) /\ cj = ci /\ sj = si \cup NameAfter(s, i)
    <3>1. aj = ai /\ bj = Append(bi, nth)
      BY <1>3, <2>3 DEF ai, aj, bi, bj, nth
    <3>2. cj = ci /\ sj = si \cup NameAfter(s, i)
      BY <1>4, <1>5, <2>3 DEF ci, cj, si, sj
    <3> QED
      BY <2>2, <3>1, <3>2
  <2>5. next = [acc EXCEPT !.targets = Append(@, Head(left)), !.left = Tail(@),
                           !.skip = @ \cup NameAfter(s, i)]
    BY <1>11, <1>18
  <2>6. next = Is(ai, Append(bi, Head(left)), ci, Tail(left), si \cup NameAfter(s, i))
    BY <1>13, <2>5
  <2>7. next = Is(aj, bj, cj, Tail(left), sj)
    BY <2>4, <2>6
  <2> QED
    BY <1>15, <2>2, <2>7
<1>19. CASE i \notin acc.skip /\ s[i] \notin ChannelWords /\ ~(symphony /\ s[i] \in Ats /\ left # <<>>)
  <2>1. ~named /\ ~inName
    BY <1>5, <1>13, <1>19 DEF si
  <2>2. ~used /\ ~hit /\ ~directs
    BY <1>2, <1>6, <1>19, <2>1
  <2>3. Lf(left)
    BY <1>6, <1>19 DEF Lf
  <2>4. cj = ci /\ sj = si
    BY <1>4, <1>5, <2>2 DEF ci, cj, si, sj
  <2>5. CASE user # <<>>
    <3>1. aj = ai /\ bj = Append(bi, Head(user))
      BY <1>3, <2>2, <2>5 DEF ai, aj, bi, bj
    <3>2. next = [acc EXCEPT !.targets = Append(@, Head(user))]
      BY <1>12, <1>19, <2>5
    <3>3. next = Is(ai, Append(bi, Head(user)), ci, left, si)
      BY <1>13, <3>2
    <3>4. next = Is(aj, bj, cj, left, sj)
      BY <2>4, <3>1, <3>3
    <3> QED
      BY <1>15, <2>3, <3>4
  <2>6. CASE user = <<>>
    <3>1. aj = Append(ai, s[i]) /\ bj = bi
      BY <1>3, <2>2, <2>6 DEF ai, aj, bi, bj
    <3>2. next = [acc EXCEPT !.args = Append(@, s[i])]
      BY <1>12, <1>19, <2>6
    <3>3. next = Is(Append(ai, s[i]), bi, ci, left, si)
      BY <1>13, <3>2
    <3>4. next = Is(aj, bj, cj, left, sj)
      BY <2>4, <3>1, <3>3
    <3> QED
      BY <1>15, <2>3, <3>4
  <2> QED
    BY <2>5, <2>6
<1>20. \/ i \in acc.skip
       \/ i \notin acc.skip /\ s[i] \in ChannelWords
       \/ i \notin acc.skip /\ s[i] \notin ChannelWords /\ symphony /\ s[i] \in Ats /\ left # <<>>
       \/ i \notin acc.skip /\ s[i] \notin ChannelWords /\ ~(symphony /\ s[i] \in Ats /\ left # <<>>)
  OBVIOUS
<1> QED
  BY <1>16, <1>17, <1>18, <1>19, <1>20

(* For every text, on every backend and with whatever mentions the message *)
(* has: the loop of _parse_command_args puts each word to the one use that *)
(* the definition without a memory gives it.                               *)
THEOREM ParseIsRight ==
    ASSUME NEW s \in Seq(Words), NEW mentions \in Seq(Accounts), NEW symphony \in BOOLEAN
    PROVE  Parse(s, mentions, symphony) = ParsesTo(s, mentions, symphony)
<1> DEFINE a == OneByOne(ArgumentsOf(s, mentions, symphony), Len(s))
           b == OneByOne(TargetsOf(s, mentions, symphony), Len(s))
           at == ParseTurns(s, mentions, symphony)
           end == at[Len(s)]
           T == {i \in 0..Len(s) : Parsed(s, mentions, symphony, at[i], i)}
<1>1. Len(s) \in Nat /\ DOMAIN s = 1..Len(s) /\ Len(mentions) \in Nat
  OBVIOUS
<1>2. /\ at[0] = ParseStart(mentions)
      /\ \A i \in 1..Len(s) : at[i] = ParseWord(s, mentions, symphony, at[i - 1], i)
  BY <1>1, ParseTurnsAre
<1>3. Parsed(s, mentions, symphony, ParseStart(mentions), 0)
  <2>1. a[0] = <<>> /\ b[0] = <<>>
    BY <1>1, OneByOneIs
  <2>2. NamedBy(s, 0) = {}
    BY <1>1 DEF NamedBy
  <2>3. SkippedBy(s, mentions, symphony, 0) = {}
    BY <2>2 DEF SkippedBy
  <2>4. WordAt(s, {}) = NoWord
    BY DEF WordAt
  <2>5. Nth(s, 0) = 0
    <3>1. 1 \in Nat \ {0}
      OBVIOUS
    <3> QED
      BY <3>1, CountedMentions
  <2>6. LeftBy(s, mentions, symphony, mentions, 0)
    BY <1>1, <2>5 DEF LeftBy
  <2>7. /\ ParseStart(mentions).left = mentions
        /\ ParseStart(mentions) = [args |-> <<>>, targets |-> <<>>, channel |-> NoWord,
                                   left |-> mentions, skip |-> {}]
    BY DEF ParseStart
  <2> HIDE DEF a, b
  <2>8. ParseStart(mentions) =
            [args |-> a[0], targets |-> b[0], channel |-> WordAt(s, NamedBy(s, 0)),
             left |-> ParseStart(mentions).left, skip |-> SkippedBy(s, mentions, symphony, 0)]
    BY <2>1, <2>2, <2>3, <2>4, <2>7
  <2> QED
    BY <2>6, <2>7, <2>8 DEF Parsed, a, b
<1>4. \A i \in 1..Len(s) : i - 1 \in T => i \in T
  BY <1>1, <1>2, ParseStep
<1>5. 0 \in T
  BY <1>1, <1>2, <1>3
<1> HIDE DEF T
<1>6. Len(s) \in T
  <2>1. \A i \in 0..Len(s) : i \in T
    BY <1>1, <1>4, <1>5, TurnByTurn
  <2> QED
    BY <1>1, <2>1
<1>7. /\ end.args = InOrder(ArgumentsOf(s, mentions, symphony), Len(s))
      /\ end.targets = InOrder(TargetsOf(s, mentions, symphony), Len(s))
      /\ end.channel = WordAt(s, NamedBy(s, Len(s)))
  <2>1. Parsed(s, mentions, symphony, end, Len(s))
    BY <1>6 DEF T
  <2> HIDE DEF end
  <2>2. end = [args |-> a[Len(s)], targets |-> b[Len(s)], channel |-> WordAt(s, NamedBy(s, Len(s))),
               left |-> end.left, skip |-> SkippedBy(s, mentions, symphony, Len(s))]
    BY <2>1 DEF Parsed
  <2> HIDE DEF a, b
  <2>3. /\ end.args = a[Len(s)] /\ end.targets = b[Len(s)]
        /\ end.channel = WordAt(s, NamedBy(s, Len(s)))
    BY <2>2
  <2> QED
    BY <2>3 DEF InOrder, a, b
<1> DEFINE free  == {i \in DOMAIN s : ~Used(s, mentions, symphony, i)}
           byId  == {i \in free : ById(s[i], mentions) # <<>>}
           hits  == {i \in DOMAIN s : symphony /\ Matched(s, mentions, i)}
           names == {i \in DOMAIN s : Directs(s, i) /\ i < Len(s)}
           who   == [i \in byId \cup hits |-> IF i \in hits THEN mentions[Nth(s, i)]
                                             ELSE Head(ById(s[i], mentions))]
<1>8. ParsesTo(s, mentions, symphony) =
          [args |-> Picked(s, free \ byId), targets |-> InOrder(who, Len(s)),
           channel |-> WordAt(s, {i + 1 : i \in names})]
  BY DEF ParsesTo
<1>9. Picked(s, free \ byId) = InOrder(ArgumentsOf(s, mentions, symphony), Len(s))
  <2>1. free \ byId = {i \in DOMAIN s : ~Used(s, mentions, symphony, i)
                                         /\ ById(s[i], mentions) = <<>>}
    OBVIOUS
  <2> QED
    BY <2>1 DEF Picked, ArgumentsOf
<1>10. who = TargetsOf(s, mentions, symphony)
  <2>1. byId \cup hits = {i \in DOMAIN s :
              \/ ~Used(s, mentions, symphony, i) /\ ById(s[i], mentions) # <<>>
              \/ Hit(s, mentions, symphony, i)}
    BY DEF Hit
  <2>2. \A i \in byId \cup hits : i \in hits <=> Hit(s, mentions, symphony, i)
    BY DEF Hit
  <2> HIDE DEF hits, byId, free
  <2> QED
    BY <2>1, <2>2 DEF TargetsOf
<1>11. {i + 1 : i \in names} = NamedBy(s, Len(s))
  <2>1. ASSUME NEW j \in NamedBy(s, Len(s)) PROVE j - 1 \in names /\ j = (j - 1) + 1
    BY <1>1 DEF NamedBy
  <2>2. ASSUME NEW i \in names PROVE i + 1 \in NamedBy(s, Len(s))
    BY <1>1 DEF NamedBy
  <2> HIDE DEF names
  <2> QED
    BY <2>1, <2>2
<1>12. Parse(s, mentions, symphony) =
           [args |-> end.args, targets |-> end.targets, channel |-> end.channel]
  BY DEF Parse
<1> HIDE DEF end, free, byId, hits, names, who
<1> QED
  BY <1>7, <1>8, <1>9, <1>10, <1>11, <1>12
==============================================================================
