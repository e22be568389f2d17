-------------------------- MODULE ClassicSlotProofs --------------------------
(***************************************************************************)
(* Theorems about the classic slot: its free spins, for every number of    *)
(* threads and size of the awards, and what its paylines pay, wherever the *)
(* reels stop.                                                             *)
(***************************************************************************)
EXTENDS FreeSpinAccount, SlotSpin, WellFoundedInduction, TLAPS

-----------------------------------------------------------------------------
(* The free spins *)

LEMMA TypeStep ==
  ASSUME TypeOK, NEW t \in Threads, spin(t)
  PROVE  TypeOK'
<1> USE FreeSpinsAssumption DEF TypeOK, Steps, Goto, Keep
<1>1. CASE Spin(t) \/ IsFreeSpin(t) \/ Load(t) \/ Bump(t)
  BY <1>1 DEF Spin, IsFreeSpin, Load, Bump
<1>2. ASSUME NEW n \in 3..5, Scatter(t, n) PROVE TypeOK'
  <2>1. Award[n] \in Nat
    OBVIOUS
  <2>2. lines[t] - 1 \in 0..MaxLines
    BY <1>2 DEF Scatter
  <2>3. QED
    BY <1>2, <2>1, <2>2 DEF Scatter
<1>3. CASE StartGame(t) \/ ReadMax(t) \/ WriteMax(t)
  BY <1>3 DEF StartGame, ReadMax, WriteMax
<1>4. CASE LinesDone(t) \/ IsGameOver(t) \/ ZeroCurrent(t) \/ ZeroMax(t)
  BY <1>4 DEF LinesDone, IsGameOver, ZeroCurrent, ZeroMax
<1>5. QED
  BY <1>1, <1>2, <1>3, <1>4 DEF spin

-----------------------------------------------------------------------------
(* The thread will still compare the counters, or has read that the game is *)
(* over.                                                                    *)
WillEndGame(t) ==
  \/ pc[t] \notin {"idle", "over"}
  \/ pc[t] = "over" /\ reg[t] >= max

(* While a game that is over stands in the counters, some thread is still   *)
(* to find it: whoever writes a counter compares the counters afterwards.   *)
RestInv == max = 0 \/ current < max \/ \E t \in Threads : WillEndGame(t)

LEMMA RestStep ==
  ASSUME TypeOK, RestInv, NEW t \in Threads, spin(t)
  PROVE  RestInv'
<1> USE DEF TypeOK, Steps, Goto, Keep
<1>1. CASE max' = max /\ current' = current
           /\ (WillEndGame(t) => WillEndGame(t)')
  <2>1. \A u \in Threads \ {t} : pc'[u] = pc[u] /\ reg'[u] = reg[u]
    <3>1. \A n \in 3..5 : Scatter(t, n) =>
            \A u \in Threads \ {t} : pc'[u] = pc[u] /\ reg'[u] = reg[u]
      BY DEF Scatter
    <3>2. QED
      BY <3>1
      DEF spin, Spin, IsFreeSpin, Load, Bump, StartGame, ReadMax, WriteMax,
          LinesDone, IsGameOver, ZeroCurrent, ZeroMax
  <2>2. QED
    BY <1>1, <2>1 DEF RestInv, WillEndGame
<1>2. CASE max' = 0 \/ current' < max' \/ WillEndGame(t)'
  BY <1>2 DEF RestInv
<1>3. CASE Spin(t) \/ IsFreeSpin(t) \/ Load(t) \/ Bump(t)
  BY <1>2, <1>3 DEF Spin, IsFreeSpin, Load, Bump, WillEndGame
<1>4. ASSUME NEW n \in 3..5, Scatter(t, n) PROVE RestInv'
  BY <1>2, <1>4 DEF Scatter, WillEndGame
<1>5. CASE StartGame(t) \/ ReadMax(t) \/ WriteMax(t)
  BY <1>2, <1>5 DEF StartGame, ReadMax, WriteMax, WillEndGame
<1>6. CASE LinesDone(t)
  BY <1>2, <1>6 DEF LinesDone, WillEndGame
<1>7. CASE IsGameOver(t)
  <2>1. max' = max /\ current' = current
    BY <1>7 DEF IsGameOver
  <2>2. CASE reg[t] >= max
    BY <1>2, <1>7, <2>2 DEF IsGameOver, WillEndGame
  <2>3. CASE ~(reg[t] >= max)
    BY <1>1, <1>7, <2>1, <2>3 DEF IsGameOver, WillEndGame
  <2>4. QED
    BY <2>2, <2>3
<1>8. CASE ZeroCurrent(t) \/ ZeroMax(t)
  BY <1>2, <1>8 DEF ZeroCurrent, ZeroMax, WillEndGame
<1>9. QED
  BY <1>3, <1>4, <1>5, <1>6, <1>7, <1>8 DEF spin

LEMMA SpinsInit == Init => TypeOK /\ RestInv
BY FreeSpinsAssumption DEF Init, TypeOK, Steps, RestInv

THEOREM SpinsInvariant == AccountSpec => [](TypeOK /\ RestInv)
<1>1. TypeOK /\ RestInv /\ [AccountNext]_<<vars, owed, overlapped>>
        => TypeOK' /\ RestInv'
  <2>1. CASE UNCHANGED vars
    BY <2>1 DEF vars, TypeOK, RestInv, WillEndGame
  <2>2. QED
    BY <2>1, TypeStep, RestStep DEF AccountNext
<1>2. QED
  BY <1>1, SpinsInit, PTL DEF AccountSpec, AccountInit

(* The counters keep their types. *)
THEOREM SpinsTypeCorrect == AccountSpec => []TypeOK
BY SpinsInvariant, PTL

(* Whatever threads have been in spin() together, the slot does not rest in *)
(* a game that is over.                                                     *)
THEOREM RestsSoundly == AccountSpec => []RestIsSound
<1>1. RestInv => RestIsSound
  BY DEF RestInv, WillEndGame, RestIsSound, AtRest
<1>2. QED
  BY <1>1, SpinsInvariant, PTL

-----------------------------------------------------------------------------
(* A game in progress with its books in order: the spin that won it, or the *)
(* latest one, has been taken off what was owed.                            *)
Game(total) == 1 <= current /\ current <= total /\ owed = total - current + 1

NoGame == current = 0 /\ max = 0 /\ owed = 0

(* The books at rest. *)
Settled ==
  \/ current = 0 /\ max = 0 /\ owed \in {0, 1}
  \/ Game(max) /\ current < max

(* The books in the course of a spin that is alone. *)
Books(t) ==
  /\ pc[t] = "compare" =>
       /\ reg[t] = current /\ owed = max - current
       /\ (current = 0 /\ max = 0) \/ (1 <= current /\ current < max)
  /\ pc[t] = "load" => 1 <= current /\ current < max /\ owed = max - current
  /\ pc[t] = "bump" =>
       1 <= current /\ current < max /\ owed = max - current /\ reg[t] = current + 1
  /\ pc[t] = "lines" => NoGame \/ Game(max)
  /\ pc[t] = "first" => current = 0 /\ max = 0 /\ owed = reg[t] /\ reg[t] > 0
  /\ pc[t] = "read" =>
       reg[t] > 0 /\ 1 <= current /\ current <= max + reg[t]
       /\ owed = max + reg[t] - current + 1
  /\ pc[t] = "write" => Game(reg[t])
  /\ pc[t] = "over" => reg[t] = current /\ (NoGame \/ Game(max))
  /\ pc[t] = "zero_current" => owed \in {0, 1}
  /\ pc[t] = "zero_max" => current = 0 /\ owed \in {0, 1}

AccountInv ==
  /\ owed \in Int
  /\ overlapped \in BOOLEAN
  /\ ~overlapped =>
       /\ \A t, u \in Threads : ~Begins(t) /\ ~Begins(u) => t = u
       /\ AtRest => Settled
       /\ \A t \in Threads : ~Begins(t) => Books(t)

(* One step of a spin that is alone, the others being at rest. *)
Step(t) ==
  /\ spin(t)
  /\ owed' = IF Begins(t) THEN max - current
             ELSE owed + (IF Wins(t) THEN reg'[t] ELSE 0)

Before(t) ==
  IF Begins(t) THEN Settled \/ (current = 0 /\ max = 0) ELSE Books(t)

After(t) == IF pc'[t] = "idle" THEN Settled' ELSE Books(t)'

LEMMA BooksBegin ==
  ASSUME TypeOK, owed \in Int, NEW t \in Threads, Before(t), Step(t),
         Spin(t) \/ IsFreeSpin(t) \/ Load(t) \/ Bump(t)
  PROVE  After(t)
<1> USE FreeSpinsAssumption
    DEF TypeOK, Steps, Goto, Keep, Before, After, Books, Step, Begins, Wins
<1>1. CASE Spin(t)
  <2>1. pc[t] = "idle" /\ pc'[t] = "compare" /\ reg'[t] = current
    BY <1>1 DEF Spin
  <2>2. current' = current /\ max' = max /\ owed' = max - current
    BY <1>1, <2>1 DEF Spin
  <2>3. (current = 0 /\ max = 0) \/ (1 <= current /\ current < max)
    BY <2>1 DEF Settled, Game
  <2>4. Books(t)'
    BY <2>1, <2>2, <2>3
  <2>5. QED
    BY <2>1, <2>4
<1>2. CASE IsFreeSpin(t)
  BY <1>2 DEF IsFreeSpin, NoGame
<1>3. CASE Load(t)
  BY <1>3 DEF Load
<1>4. CASE Bump(t)
  BY <1>4 DEF Bump, Game
<1>5. QED
  BY <1>1, <1>2, <1>3, <1>4

LEMMA BooksScatter ==
  ASSUME TypeOK, owed \in Int, NEW t \in Threads, Before(t), Step(t),
         NEW n \in 3..5, Scatter(t, n)
  PROVE  After(t)
<1> USE DEF TypeOK, Steps, Goto, Keep, Before, After, Books, Step, Begins, Wins
<1>1. Award[n] \in Nat /\ Award[n] > 0
  BY FreeSpinsAssumption
<1>2. QED
  BY <1>1 DEF Scatter, NoGame, Game

LEMMA BooksAward ==
  ASSUME TypeOK, owed \in Int, NEW t \in Threads, Before(t), Step(t),
         StartGame(t) \/ ReadMax(t) \/ WriteMax(t)
  PROVE  After(t)
<1> USE FreeSpinsAssumption
    DEF TypeOK, Steps, Goto, Keep, Before, After, Books, Step, Begins, Wins
<1>1. CASE StartGame(t)
  BY <1>1 DEF StartGame
<1>2. CASE ReadMax(t)
  BY <1>2 DEF ReadMax, Game
<1>3. CASE WriteMax(t)
  BY <1>3 DEF WriteMax, Game
<1>4. QED
  BY <1>1, <1>2, <1>3

LEMMA BooksEnd ==
  ASSUME TypeOK, owed \in Int, NEW t \in Threads, Before(t), Step(t),
         LinesDone(t) \/ IsGameOver(t) \/ ZeroCurrent(t) \/ ZeroMax(t)
  PROVE  After(t)
<1> USE FreeSpinsAssumption
    DEF TypeOK, Steps, Goto, Keep, Before, After, Books, Step, Begins, Wins
<1>1. CASE LinesDone(t)
  BY <1>1 DEF LinesDone, NoGame, Game
<1>2. CASE IsGameOver(t)
  BY <1>2 DEF IsGameOver, NoGame, Game, Settled
<1>3. CASE ZeroCurrent(t)
  BY <1>3 DEF ZeroCurrent
<1>4. CASE ZeroMax(t)
  BY <1>4 DEF ZeroMax, Settled
<1>5. QED
  BY <1>1, <1>2, <1>3, <1>4

(* A step of a thread leaves the others where they are. *)
LEMMA OneThreadMoves ==
  ASSUME TypeOK, NEW t \in Threads, spin(t)
  PROVE  /\ \A u \in Threads \ {t} : pc'[u] = pc[u] /\ reg'[u] = reg[u]
         /\ pc'[t] \in Steps
         /\ reg'[t] \in Nat
<1> USE DEF TypeOK, Goto, Keep
<1>1. ASSUME NEW n \in 3..5, Scatter(t, n)
      PROVE  \A u \in Threads \ {t} : pc'[u] = pc[u] /\ reg'[u] = reg[u]
  BY <1>1 DEF Scatter
<1>2. \A u \in Threads \ {t} : pc'[u] = pc[u] /\ reg'[u] = reg[u]
  BY <1>1
  DEF spin, Spin, IsFreeSpin, Load, Bump, StartGame, ReadMax, WriteMax,
      LinesDone, IsGameOver, ZeroCurrent, ZeroMax
<1>3. TypeOK'
  BY TypeStep
<1>4. QED
  BY <1>2, <1>3

LEMMA AccountStep ==
  ASSUME TypeOK, AccountInv, AccountNext
  PROVE  AccountInv'
<1> PICK t \in Threads :
      /\ spin(t)
      /\ overlapped' = Overlaps(t)
      /\ owed' = IF Overlaps(t) THEN 0
                 ELSE IF Begins(t) THEN max - current
                 ELSE owed + (IF Wins(t) THEN reg'[t] ELSE 0)
  BY DEF AccountNext
<1>1. owed' \in Int /\ overlapped' \in BOOLEAN
  <2>1. reg'[t] \in Nat
    BY OneThreadMoves
  <2>2. Overlaps(t) \in BOOLEAN
    BY DEF Overlaps, AtRest, Begins, AccountInv
  <2>3. QED
    BY <2>1, <2>2 DEF TypeOK, AccountInv
<1>2. CASE Overlaps(t)
  BY <1>1, <1>2 DEF AccountInv
<1>3. CASE ~Overlaps(t)
  <2>1. \A u \in Threads \ {t} : pc[u] = "idle"
    BY <1>3 DEF Overlaps, AccountInv, AtRest, Begins
  <2>2. Before(t)
    <3>1. CASE Begins(t)
      <4>1. AtRest
        BY <2>1, <3>1 DEF AtRest, Begins
      <4>2. QED
        BY <1>3, <3>1, <4>1 DEF Overlaps, AccountInv, Before
    <3>2. CASE ~Begins(t)
      <4>1. ~AtRest
        BY <3>2 DEF AtRest, Begins
      <4>2. QED
        BY <1>3, <3>2, <4>1 DEF Overlaps, AccountInv, Before
    <3>3. QED
      BY <3>1, <3>2
  <2>3. Step(t)
    BY <1>3 DEF Step
  <2>4. After(t)
    <3>1. owed \in Int
      BY DEF AccountInv
    <3>2. QED
      BY <2>2, <2>3, <3>1, BooksBegin, BooksScatter, BooksAward, BooksEnd
      DEF spin
  <2>5. \A u \in Threads \ {t} : pc'[u] = "idle"
    BY <2>1, OneThreadMoves
  <2>6. \A u \in Threads : pc'[u] # "idle" => u = t
    BY <2>5
  <2>7. AtRest' => Settled'
    BY <2>4 DEF After, AtRest
  <2>8. \A u \in Threads : ~Begins(u)' => Books(u)'
    BY <2>4, <2>6 DEF After, Begins
  <2>9. QED
    BY <1>1, <2>6, <2>7, <2>8 DEF AccountInv, Begins
<1>4. QED
  BY <1>2, <1>3

LEMMA AccountInitial == AccountInit => AccountInv
<1> SUFFICES ASSUME AccountInit PROVE AccountInv
  OBVIOUS
<1>1. \A t \in Threads : Begins(t)
  BY DEF AccountInit, Init, Begins
<1>2. Settled /\ owed \in Int
  BY DEF AccountInit, Init, Settled
<1>3. overlapped \in BOOLEAN
  BY DEF AccountInit
<1>4. QED
  BY <1>1, <1>2, <1>3 DEF AccountInv

(* Spins that come one after the other leave exactly what was owed, for any *)
(* number of lines and whatever they award.                                 *)
THEOREM AccountsAreHonest == AccountSpec => []HonestAccount
<1>1. TypeOK /\ AccountInv => HonestAccount
  BY DEF TypeOK, AccountInv, Settled, Game, HonestAccount
<1>2. TypeOK /\ AccountInv /\ [AccountNext]_<<vars, owed, overlapped>>
        => AccountInv'
  <2>1. CASE UNCHANGED <<vars, owed, overlapped>>
    BY <2>1
    DEF vars, AccountInv, Begins, AtRest, Settled, Game, Books, NoGame
  <2>2. QED
    BY <2>1, AccountStep
<1>3. QED
  BY <1>1, <1>2, AccountInitial, SpinsTypeCorrect, PTL DEF AccountSpec

-----------------------------------------------------------------------------
(* The symbols on a payline *)

Symbols ==
  {"Bar", "Bar2", "Bar3", "Scatter", "Cherry", "Seven", "Seven3", "Watermelon",
   "Mangosteen", "Bell", "Wild"}

(* What can be on a payline: the first, third and fifth reels have no Wild. *)
PossibleLine ==
  {line \in [Reel -> Symbols] : \A i \in {1, 3, 5} : line[i] # "Wild"}

(* The reels, as far as they can be seen. *)
LEMMA ReelSymbols ==
  \A r \in Reel : \A i \in 1..17 :
    reels[r][i] \in Symbols /\ (r \in {1, 3, 5} => reels[r][i] # "Wild")
<1>1. \A i \in 1..17 : reels[1][i] \in Symbols \ {"Wild"}
  BY DEF reels, Symbols
<1>2. \A i \in 1..17 : reels[2][i] \in Symbols
  BY DEF reels, Symbols
<1>3. \A i \in 1..17 : reels[3][i] \in Symbols \ {"Wild"}
  BY DEF reels, Symbols
<1>4. \A i \in 1..17 : reels[4][i] \in Symbols
  BY DEF reels, Symbols
<1>5. \A i \in 1..17 : reels[5][i] \in Symbols \ {"Wild"}
  BY DEF reels, Symbols
<1>6. QED
  BY <1>1, <1>2, <1>3, <1>4, <1>5 DEF Reel

(* A payline has one cell of every reel. *)
LEMMA PaylineCells ==
  \A n \in 1..25 : \A r \in Reel :
    paylines[n][r] \in (3 * (r - 1))..(3 * (r - 1) + 2)
BY DEF paylines, Reel

(* What is on the paylines when the reels have stopped. *)
LEMMA DrawnLines ==
  ASSUME NEW stops \in [Reel -> 0..14], NEW n \in 1..25
  PROVE  LineOn(set_out_reels(stops), n) \in PossibleLine
<1> DEFINE board == set_out_reels(stops)
<1>1. ASSUME NEW r \in Reel
      PROVE  \E i \in 1..17 : board[paylines[n][r]] = reels[r][i]
  <2> DEFINE c == paylines[n][r]
  <2>1. c \in (3 * (r - 1))..(3 * (r - 1) + 2) /\ r \in 1..5
    BY PaylineCells DEF Reel
  <2> HIDE DEF c
  <2>2. c \in Cell /\ c \div 3 = r - 1 /\ c % 3 \in 0..2
    BY <2>1 DEF Cell
  <2>3. board[c] = reels[c \div 3 + 1][stops[c \div 3 + 1] + (c % 3) + 1]
    BY <2>2 DEF set_out_reels
  <2>4. c \div 3 + 1 = r
    BY <2>1, <2>2
  <2>5. stops[r] \in 0..14
    OBVIOUS
  <2>6. stops[r] + (c % 3) + 1 \in 1..17
    BY <2>2, <2>5
  <2>7. QED
    BY <2>3, <2>4, <2>6 DEF c
<1> HIDE DEF board
<1>2. \A r \in Reel : board[paylines[n][r]] \in Symbols
  BY <1>1, ReelSymbols
<1>3. \A r \in {1, 3, 5} : r \in Reel /\ board[paylines[n][r]] # "Wild"
  BY <1>1, ReelSymbols DEF Reel
<1>4. QED
  BY <1>2, <1>3 DEF LineOn, PossibleLine, board

-----------------------------------------------------------------------------
(* The length of a run *)

(* Where a run ends. *)
LEMMA RunEnds ==
  ASSUME NEW good, NEW n \in 0..5,
         \A i \in 1..n : i \in good,
         n < 5 => n + 1 \notin good
  PROVE  Run(good) = n
<1> DEFINE T == {m \in 0..5 : \A i \in 1..m : i \in good}
<1>1. n \in T
  OBVIOUS
<1>2. ASSUME NEW m \in T
      PROVE  n >= m
  <2>1. SUFFICES ASSUME n < m PROVE FALSE
    OBVIOUS
  <2>2. n + 1 \in 1..m /\ n < 5
    BY <2>1
  <2>3. QED
    BY <2>2
<1>3. \A m \in T : m >= n => m = n
  BY <1>2
<1> HIDE DEF T
<1>4. Max(T) = n
  BY <1>1, <1>2, <1>3 DEF Max
<1>5. QED
  BY <1>4 DEF Run, T

LEMMA RunIs ==
  ASSUME NEW good
  PROVE  /\ Run(good) \in 0..5
         /\ \A i \in 1..Run(good) : i \in good
         /\ Run(good) < 5 => Run(good) + 1 \notin good
<1>1. \E n \in 0..5 : (\A i \in 1..n : i \in good) /\ (n < 5 => n + 1 \notin good)
  <2>1. CASE 1 \notin good
    BY <2>1
  <2>2. CASE 1 \in good /\ 2 \notin good
    <3>1. \A i \in 1..1 : i \in good
      BY <2>2
    <3>2. QED
      BY <2>2, <3>1
  <2>3. CASE {1, 2} \subseteq good /\ 3 \notin good
    <3>1. \A i \in 1..2 : i \in good
      BY <2>3
    <3>2. QED
      BY <2>3, <3>1
  <2>4. CASE {1, 2, 3} \subseteq good /\ 4 \notin good
    <3>1. \A i \in 1..3 : i \in good
      BY <2>4
    <3>2. QED
      BY <2>4, <3>1
  <2>5. CASE {1, 2, 3, 4} \subseteq good /\ 5 \notin good
    <3>1. \A i \in 1..4 : i \in good
      BY <2>5
    <3>2. QED
      BY <2>5, <3>1
  <2>6. CASE {1, 2, 3, 4, 5} \subseteq good
    <3>1. \A i \in 1..5 : i \in good
      BY <2>6
    <3>2. QED
      BY <3>1
  <2>7. QED
    BY <2>1, <2>2, <2>3, <2>4, <2>5, <2>6
<1>2. PICK n \in 0..5 : (\A i \in 1..n : i \in good) /\ (n < 5 => n + 1 \notin good)
  BY <1>1
<1>3. Run(good) = n
  BY <1>2, RunEnds
<1>4. QED
  BY <1>2, <1>3

-----------------------------------------------------------------------------
(* The paytable *)

(* For every symbol a longer sequence pays no less. *)
LEMMA LongerPaysNoLess ==
  ASSUME NEW s \in Symbols \cup {"Any"}, NEW n \in 0..5, NEW m \in 0..5, n <= m
  PROVE  /\ get_credit(s, n) \in Nat
         /\ get_credit(s, n) <= get_credit(s, m)
BY DEF get_credit, paytable, Symbols

(* Three of anything but Scatters pay as much as three bars, and so on. *)
LEMMA AnyPaysLeast ==
  ASSUME NEW s \in Symbols \ {"Scatter"}, NEW n \in 3..5
  PROVE  get_credit("Any", IF n = 5 THEN 4 ELSE n) <= get_credit(s, n)
BY DEF get_credit, paytable, Symbols

Bars == {"Bar3", "Bar2", "Bar"}

(* A run of bars that is longer than that of one of them pays more. *)
LEMMA LongerAnyPaysMore ==
  ASSUME NEW s \in Bars, NEW n \in 3..5
  PROVE  /\ \A m \in 0..(n - 1) : get_credit(s, m) <= get_credit("Any", n)
         /\ get_credit("Any", n) <= get_credit(s, n)
BY DEF get_credit, paytable, Bars

-----------------------------------------------------------------------------
(* What a payline pays *)

LEMMA MoreCellsLongerRun ==
  ASSUME NEW A, NEW B, A \subseteq B
  PROVE  Run(A) <= Run(B)
<1>1. /\ Run(A) \in 0..5 /\ Run(B) \in 0..5
      /\ \A i \in 1..Run(A) : i \in A
      /\ Run(B) < 5 => Run(B) + 1 \notin B
  BY RunIs
<1>2. SUFFICES ASSUME Run(B) < Run(A) PROVE FALSE
  BY <1>1
<1>3. Run(B) + 1 \in 1..Run(A) /\ Run(B) < 5
  BY <1>1, <1>2
<1>4. QED
  BY <1>1, <1>3

(* A run of bars begins with one, the first reel having no Wild. *)
LEMMA BarRun ==
  ASSUME NEW line \in PossibleLine
  PROVE  /\ AnyBars(line) \in 0..5
         /\ \A i \in 1..AnyBars(line) : line[i] \in Bars \cup {"Wild"}
         /\ AnyBars(line) >= 1 => line[1] \in Bars
<1> DEFINE k == AnyBars(line)
<1>1. k \in 0..5 /\ \A i \in 1..k : i \in {j \in Reel : line[j] \in {"Bar3", "Bar2", "Bar", "Wild"}}
  BY RunIs DEF AnyBars
<1> HIDE DEF k
<1>2. \A i \in 1..k : line[i] \in Bars \cup {"Wild"}
  BY <1>1 DEF Bars
<1>3. line[1] # "Wild"
  BY DEF PossibleLine
<1>4. k >= 1 => line[1] \in Bars
  BY <1>1, <1>2, <1>3
<1>5. QED
  BY <1>1, <1>2, <1>4 DEF k

(* The credits of the better of two readings. *)
LEMMA BestPays ==
  ASSUME NEW line \in PossibleLine, NEW s, NEW n \in 0..5
  PROVE  Credit(BestOf(line, Outcome(s, n))) =
           IF AnyBars(line) >= 3 /\ n < AnyBars(line)
           THEN get_credit("Any", AnyBars(line)) ELSE get_credit(s, n)
BY DEF Credit, BestOf, Outcome

(* Both readings of a line with a run of bars. *)
LEMMA BetterOfTwo ==
  ASSUME NEW line \in PossibleLine, NEW s \in Symbols \ {"Wild"}, NEW n \in 0..5,
         AnyBars(line) >= 3 => \/ s \in Bars
                               \/ s # "Scatter" /\ AnyBars(line) < 5 /\ AnyBars(line) <= n
  PROVE  LET paid == Credit(BestOf(line, Outcome(s, n)))
         IN  /\ paid \in Nat
             /\ get_credit(s, n) <= paid
             /\ AnyBars(line) >= 3 => get_credit("Any", AnyBars(line)) <= paid
<1> DEFINE k == AnyBars(line)
           paid == Credit(BestOf(line, Outcome(s, n)))
<1>1. k \in 0..5
  BY BarRun
<1>2. paid = IF k >= 3 /\ n < k THEN get_credit("Any", k) ELSE get_credit(s, n)
  BY BestPays
<1> HIDE DEF k, paid
<1>3. /\ get_credit(s, n) \in Nat /\ get_credit("Any", k) \in Nat
  BY <1>1, LongerPaysNoLess DEF Symbols
<1>4. CASE k < 3
  BY <1>1, <1>2, <1>3, <1>4 DEF k, paid
<1>5. CASE k >= 3 /\ s \in Bars /\ n < k
  <2>1. k \in 3..5 /\ n \in 0..(k - 1)
    BY <1>1, <1>5
  <2>2. get_credit(s, n) <= get_credit("Any", k)
    BY <1>5, <2>1, LongerAnyPaysMore
  <2>3. QED
    BY <1>2, <1>3, <1>5, <2>2 DEF k, paid
<1>6. CASE k >= 3 /\ s \in Bars /\ ~(n < k)
  <2>1. k \in 3..5 /\ k <= n
    BY <1>1, <1>6
  <2>2. get_credit("Any", k) <= get_credit(s, k)
    BY <1>6, <2>1, LongerAnyPaysMore
  <2>3. get_credit(s, k) <= get_credit(s, n) /\ get_credit(s, k) \in Nat
    BY <1>1, <2>1, LongerPaysNoLess
  <2>4. QED
    BY <1>2, <1>3, <1>6, <2>2, <2>3 DEF k, paid
<1>7. CASE k >= 3 /\ s \notin Bars
  <2>1. s # "Scatter" /\ k \in 3..4 /\ k <= n /\ ~(n < k)
    BY <1>1, <1>7 DEF k
  <2>2. get_credit("Any", k) <= get_credit(s, k)
    <3>1. k \in 3..5 /\ (IF k = 5 THEN 4 ELSE k) = k
      BY <2>1
    <3>2. QED
      BY <2>1, <3>1, AnyPaysLeast
  <2>3. get_credit(s, k) <= get_credit(s, n) /\ get_credit(s, k) \in Nat
    BY <1>1, <2>1, LongerPaysNoLess
  <2>4. QED
    BY <1>2, <1>3, <1>7, <2>1, <2>2, <2>3 DEF k, paid
<1>8. QED
  BY <1>1, <1>4, <1>5, <1>6, <1>7

(* A normal spin pays the better reading. *)
LEMMA NormalPays ==
  ASSUME NEW line \in PossibleLine
  PROVE  LET paid == Credit(CheckNormal(line))
         IN  /\ get_credit(line[1], Run(NormalCells(line))) <= paid
             /\ AnyBars(line) >= 3 => get_credit("Any", AnyBars(line)) <= paid
<1>1. line[1] \in Symbols \ {"Wild"}
  BY DEF PossibleLine, Reel
<1>2. Run(NormalCells(line)) \in 0..5
  BY RunIs
<1>3. AnyBars(line) >= 3 => line[1] \in Bars
  BY BarRun
<1>4. QED
  BY <1>1, <1>2, <1>3, BetterOfTwo DEF CheckNormal

(* Where the symbol of a line comes from in a free spin. *)
LEMMA PlainSymbol ==
  ASSUME NEW line \in PossibleLine, ~FiveWild(line)
  PROVE  \E p \in Reel :
           /\ LineSymbol(line) = line[p] /\ line[p] \notin Wilds
           /\ \A i \in 1..(p - 1) : line[i] \in Wilds
<1> DEFINE plain == {i \in Reel : line[i] \notin Wilds}
<1>1. plain # {}
  <2>1. SUFFICES ASSUME \A i \in Reel : line[i] \in {"Wild", "Bar2"}
                 PROVE  FALSE
    BY DEF Wilds, in_wild
  <2>2. \A i \in {1, 3, 5} : i \in Reel /\ line[i] # "Wild"
    BY DEF PossibleLine, Reel
  <2>3. QED
    BY <2>1, <2>2 DEF FiveWild, Wilds, in_wild, Reel
<1>2. \E p \in plain : \A q \in plain : p <= q
  <2>1. PICK r \in plain : TRUE
    BY <1>1
  <2>2. r \in 1..5 /\ plain \subseteq 1..5
    BY DEF Reel
  <2> HIDE DEF plain
  <2>3. CASE 1 \in plain
    BY <2>2, <2>3
  <2>4. CASE 1 \notin plain /\ 2 \in plain
    BY <2>2, <2>4
  <2>5. CASE 1 \notin plain /\ 2 \notin plain /\ 3 \in plain
    BY <2>2, <2>5
  <2>6. CASE 1 \notin plain /\ 2 \notin plain /\ 3 \notin plain /\ 4 \in plain
    BY <2>2, <2>6
  <2>7. CASE 1 \notin plain /\ 2 \notin plain /\ 3 \notin plain /\ 4 \notin plain
    BY <2>1, <2>2, <2>7
  <2>8. QED
    BY <2>3, <2>4, <2>5, <2>6, <2>7
<1>3. Min(plain) \in plain /\ \A q \in plain : Min(plain) <= q
  BY <1>2 DEF Min
<1>4. LineSymbol(line) = line[Min(plain)]
  BY <1>1 DEF LineSymbol
<1> DEFINE p == Min(plain)
<1>5. p \in Reel /\ p \in 1..5 /\ line[p] \notin Wilds /\ LineSymbol(line) = line[p]
  BY <1>3, <1>4 DEF Reel
<1>6. \A i \in 1..(p - 1) : line[i] \in Wilds
  <2>1. \A q \in Reel : line[q] \notin Wilds => p <= q
    BY <1>3
  <2> HIDE DEF p
  <2>2. \A i \in 1..(p - 1) : i \in Reel /\ ~(p <= i)
    BY <1>5 DEF Reel
  <2>3. QED
    BY <2>1, <2>2
<1> HIDE DEF p
<1>7. QED
  BY <1>5, <1>6

(* A run of bars on a line that is read as s: s is a bar, or its sequence   *)
(* begins with the bars that are wild and is longer.                        *)
LEMMA BarsOfFreeLine ==
  ASSUME NEW line \in PossibleLine, ~FiveWild(line)
  PROVE  LET s == LineSymbol(line)
             n == Run(FreeCells(line))
         IN  /\ s \in Symbols \ {"Wild"} /\ s \notin Wilds
             /\ AnyBars(line) >= 3 => \/ s \in Bars
                                      \/ s # "Scatter" /\ AnyBars(line) < 5 /\ AnyBars(line) <= n
                                      \/ s = "Scatter"
<1> DEFINE s == LineSymbol(line)
           n == Run(FreeCells(line))
           k == AnyBars(line)
<1>1. PICK p \in Reel :
        /\ s = line[p] /\ line[p] \notin Wilds
        /\ \A i \in 1..(p - 1) : line[i] \in Wilds
  BY PlainSymbol
<1>2. s \in Symbols \ {"Wild"} /\ s \notin Wilds
  BY <1>1 DEF PossibleLine, Wilds
<1>3. p \in 1..5 /\ k \in 0..5 /\ n \in 0..5
  BY BarRun, RunIs DEF Reel
<1>4. CASE p <= k
  <2>1. line[p] \in Bars \cup {"Wild"}
    BY <1>3, <1>4, BarRun
  <2>2. s \in Bars
    BY <1>1, <2>1 DEF Wilds
  <2>3. QED
    BY <1>2, <2>2
<1>5. CASE k < p
  <2>1. \A i \in 1..k : i \in 1..(p - 1) /\ i \in Reel
    BY <1>3, <1>5 DEF Reel
  <2>2. \A i \in 1..k : i \in FreeCells(line)
    BY <1>1, <2>1 DEF FreeCells
  <2>3. k <= n
    <3>1. n < 5 => n + 1 \notin FreeCells(line)
      BY RunIs
    <3>2. SUFFICES ASSUME n < k PROVE FALSE
      BY <1>3
    <3>3. n + 1 \in 1..k /\ n < 5
      BY <1>3, <3>2
    <3>4. QED
      BY <2>2, <3>1, <3>3
  <2>4. k < 5
    BY <1>3, <1>5
  <2>5. QED
    BY <1>2, <2>3, <2>4
<1>6. QED
  BY <1>3, <1>4, <1>5

(* Five wild symbols pay at least what any other reading does. *)
LEMMA FiveWildPays ==
  /\ Credit(Outcome(in_wild, 5)) = 200
  /\ \A k \in 0..5 : get_credit("Any", k) <= 200
  /\ \A n \in 0..5 : get_credit(NoSymbol, n) = 0
BY DEF Credit, Outcome, in_wild, get_credit, paytable, NoSymbol

(* A free spin pays the better reading, but for a line of Scatters. *)
LEMMA FreePays ==
  ASSUME NEW line \in PossibleLine, LineSymbol(line) # "Scatter"
  PROVE  LET paid == Credit(CheckFree(line))
         IN  /\ get_credit(LineSymbol(line), Run(FreeCells(line))) <= paid
             /\ AnyBars(line) >= 3 => get_credit("Any", AnyBars(line)) <= paid
<1>1. Run(FreeCells(line)) \in 0..5 /\ AnyBars(line) \in 0..5
  BY RunIs, BarRun
<1>2. CASE FiveWild(line)
  <2>1. LineSymbol(line) = NoSymbol
    <3>1. \A i \in Reel : line[i] \in Wilds
      BY <1>2 DEF FiveWild, Reel, Wilds
    <3>2. {i \in Reel : line[i] \notin Wilds} = {}
      BY <3>1
    <3>3. QED
      BY <3>2 DEF LineSymbol
  <2>2. Credit(CheckFree(line)) = 200
    BY <1>2, FiveWildPays DEF CheckFree
  <2>3. get_credit(NoSymbol, Run(FreeCells(line))) <= 200
    BY <1>1, FiveWildPays
  <2>4. QED
    BY <1>1, <2>1, <2>2, <2>3, FiveWildPays
<1>3. CASE ~FiveWild(line)
  <2>1. CheckFree(line) = BestOf(line, Outcome(LineSymbol(line), Run(FreeCells(line))))
    BY <1>3 DEF CheckFree
  <2>2. QED
    BY <1>1, <1>3, <2>1, BarsOfFreeLine, BetterOfTwo
<1>4. QED
  BY <1>2, <1>3

(* What a line pays is a number, in both kinds of spin. *)
LEMMA CreditsAreNumbers ==
  ASSUME NEW line \in PossibleLine, NEW free \in BOOLEAN
  PROVE  Credit(check_payline(line, free)) \in Nat
<1>1. ASSUME NEW s \in Symbols, NEW n \in 0..5
      PROVE  Credit(BestOf(line, Outcome(s, n))) \in Nat
  <2>1. get_credit(s, n) \in Nat /\ get_credit("Any", AnyBars(line)) \in Nat
    BY BarRun, LongerPaysNoLess
  <2>2. QED
    BY <2>1, BestPays
<1>2. Credit(CheckNormal(line)) \in Nat
  <2>1. line[1] \in Symbols /\ Run(NormalCells(line)) \in 0..5
    BY RunIs DEF PossibleLine, Reel
  <2>2. QED
    BY <1>1, <2>1 DEF CheckNormal
<1>3. Credit(CheckFree(line)) \in Nat
  <2>1. CASE FiveWild(line)
    BY <2>1, FiveWildPays DEF CheckFree
  <2>2. CASE ~FiveWild(line)
    <3>1. LineSymbol(line) \in Symbols /\ Run(FreeCells(line)) \in 0..5
      BY <2>2, RunIs, BarsOfFreeLine
    <3>2. QED
      BY <1>1, <2>2, <3>1 DEF CheckFree
  <2>3. QED
    BY <2>1, <2>2
<1>4. QED
  BY <1>2, <1>3 DEF check_payline

(* A line that begins with other than three or four wild symbols pays in a  *)
(* free spin what it pays in a normal one, or more.                         *)
LEMMA FreeIsNoWorse ==
  ASSUME NEW line \in PossibleLine,
         Run({i \in Reel : line[i] \in Wilds}) \notin {3, 4}
  PROVE  Credit(CheckNormal(line)) <= Credit(CheckFree(line))
<1> DEFINE normal == Credit(CheckNormal(line))
           paid == Credit(CheckFree(line))
           k == AnyBars(line)
           m == Run(NormalCells(line))
           n == Run(FreeCells(line))
           s == LineSymbol(line)
           t == line[1]
<1>1. normal \in Nat /\ paid \in Nat
  BY CreditsAreNumbers DEF check_payline
<1>2. k \in 0..5 /\ m \in 0..5 /\ n \in 0..5 /\ t \in Symbols
  BY BarRun, RunIs DEF PossibleLine, Reel
<1>3. normal = IF k >= 3 /\ m < k THEN get_credit("Any", k) ELSE get_credit(t, m)
  BY <1>2, BestPays DEF CheckNormal
<1>4. CASE FiveWild(line)
  <2>1. paid = 200
    BY <1>4, FiveWildPays DEF CheckFree
  <2>2. \A i \in Reel : i \in NormalCells(line)
    BY <1>4 DEF FiveWild, NormalCells, Wilds, Reel
  <2>3. m = 5
    <3>1. m < 5 => m + 1 \notin NormalCells(line)
      BY RunIs
    <3>2. m < 5 => m + 1 \in Reel
      BY <1>2 DEF Reel
    <3>3. QED
      BY <1>2, <2>2, <3>1, <3>2
  <2>4. t = "Bar2"
    BY <1>4 DEF FiveWild, in_wild
  <2>5. normal = 200
    <3>1. ~(m < k)
      BY <1>2, <2>3
    <3>2. get_credit("Bar2", 5) = 200
      BY DEF get_credit, paytable
    <3>3. QED
      BY <1>3, <2>3, <2>4, <3>1, <3>2
  <2>6. QED
    BY <2>1, <2>5
<1>5. CASE ~FiveWild(line)
  <2>1. PICK p \in Reel :
          /\ s = line[p] /\ line[p] \notin Wilds
          /\ \A i \in 1..(p - 1) : line[i] \in Wilds
    BY <1>5, PlainSymbol
  <2>2. p \in 1..3
    <3> DEFINE W == {i \in Reel : line[i] \in Wilds}
    <3>1. p \in 1..5
      BY DEF Reel
    <3>2. \A i \in 1..(p - 1) : i \in W
      BY <2>1, <3>1 DEF Reel
    <3>3. p \notin W
      BY <2>1
    <3> HIDE DEF W
    <3>4. p - 1 \in 0..5 /\ (p - 1) + 1 = p
      BY <3>1
    <3>5. Run(W) = p - 1
      BY <3>2, <3>3, <3>4, RunEnds
    <3>6. p - 1 \notin {3, 4}
      BY <3>5 DEF W
    <3>7. QED
      BY <3>1, <3>6
  <2>3. s # "Scatter" => get_credit(s, n) <= paid /\ (k >= 3 => get_credit("Any", k) <= paid)
    BY FreePays
  <2>4. CASE p = 1 /\ s = "Scatter"
    <3>1. k = 0
      BY <1>2, <2>1, <2>4, BarRun DEF Bars
    <3>2. get_credit("Scatter", m) = 0
      BY DEF get_credit, paytable
    <3>3. QED
      BY <1>1, <1>3, <2>1, <2>4, <3>1, <3>2
  <2>5. CASE p = 1 /\ s # "Scatter"
    <3>1. NormalCells(line) \subseteq FreeCells(line)
      BY <2>1, <2>5 DEF NormalCells, FreeCells, Wilds
    <3>2. m <= n
      BY <3>1, MoreCellsLongerRun
    <3>3. get_credit(t, m) <= get_credit(t, n) /\ get_credit(t, m) \in Nat /\ get_credit(t, n) \in Nat
      BY <1>2, <3>2, LongerPaysNoLess
    <3>4. get_credit(t, m) <= paid
      BY <1>1, <2>1, <2>3, <2>5, <3>3
    <3>5. QED
      BY <1>3, <2>3, <2>5, <3>4
  <2>6. CASE p \in {2, 3}
    <3>1. t = "Bar2"
      <4>1. 1 \in 1..(p - 1)
        BY <2>2, <2>6
      <4>2. line[1] \in Wilds /\ line[1] # "Wild"
        BY <2>1, <4>1 DEF PossibleLine
      <4>3. QED
        BY <4>2 DEF Wilds, in_wild
    <3>2. p \notin NormalCells(line)
      BY <2>1, <3>1 DEF NormalCells, Wilds, in_wild
    <3>3. m <= 2
      <4>1. SUFFICES ASSUME m >= 3 PROVE FALSE
        BY <1>2
      <4>2. p \in 1..m
        BY <1>2, <2>6, <4>1
      <4>3. QED
        BY <3>2, <4>2, RunIs
    <3>4. get_credit(t, m) = 0
      <4>1. m \in 0..2
        BY <1>2, <3>3
      <4>2. \A j \in 0..2 : get_credit("Bar2", j) = 0
        BY DEF get_credit, paytable
      <4>3. QED
        BY <3>1, <4>1, <4>2
    <3>5. CASE k < 3
      <4>1. ~(k >= 3)
        BY <1>2, <3>5
      <4>2. QED
        BY <1>1, <1>3, <3>4, <4>1
    <3>6. CASE k >= 3
      <4>1. p \in 1..k
        BY <1>2, <2>6, <3>6
      <4>2. s \in Bars \cup {"Wild"}
        BY <2>1, <4>1, BarRun
      <4>3. s # "Scatter"
        BY <4>2 DEF Bars
      <4>4. normal = get_credit("Any", k)
        BY <1>2, <1>3, <3>3, <3>6
      <4>5. QED
        BY <2>3, <3>6, <4>3, <4>4
    <3>7. QED
      BY <1>2, <3>5, <3>6
  <2>7. QED
    BY <2>2, <2>4, <2>5, <2>6
<1>6. QED
  BY <1>4, <1>5

-----------------------------------------------------------------------------
(* The sum over the paylines *)

(* Partial sums exist, however many numbers there are. *)
Sums(gain, m) == {f \in [0..m -> Int] : f[0] = 0 /\ \A n \in 1..m : f[n] = f[n - 1] + gain[n]}

LEMMA SumsExist ==
  ASSUME NEW m \in Nat, NEW gain \in [1..m -> Int]
  PROVE  Sums(gain, m) # {}
<1> DEFINE Missing == {j \in 0..m : Sums(gain, j) = {}}
           R == OpToRel(<, Nat)
<1>1. SUFFICES ASSUME Missing # {} PROVE FALSE
  OBVIOUS
<1>2. PICK j \in Missing : \A i \in Missing : <<i, j>> \notin R
  <2>1. IsWellFoundedOn(R, Nat)
    BY NatLessThanWellFounded
  <2>2. Missing \subseteq Nat
    OBVIOUS
  <2> HIDE DEF Missing, R
  <2>3. QED
    BY <1>1, <2>1, <2>2, WFMin
<1>3. \A i \in Missing : ~(i < j)
  <2>1. j \in Nat /\ \A i \in Missing : i \in Nat
    OBVIOUS
  <2>2. \A i \in Nat : i < j => <<i, j>> \in R
    BY <2>1 DEF OpToRel
  <2> HIDE DEF Missing, R
  <2>3. QED
    BY <1>2, <2>1, <2>2
<1>4. j # 0
  <2>1. [n \in 0..0 |-> 0] \in Sums(gain, 0)
    BY DEF Sums
  <2>2. QED
    BY <2>1
<1>5. j \in 1..m /\ j - 1 \in 0..m /\ j - 1 \notin Missing
  BY <1>3, <1>4
<1>6. PICK f \in [0..(j - 1) -> Int] : f[0] = 0 /\ \A n \in 1..(j - 1) : f[n] = f[n - 1] + gain[n]
  BY <1>5 DEF Sums
<1> DEFINE g == [n \in 0..j |-> IF n = j THEN f[j - 1] + gain[j] ELSE f[n]]
<1>7. g \in Sums(gain, j)
  <2>1. g \in [0..j -> Int] /\ g[0] = 0
    BY <1>5, <1>6
  <2>2. \A n \in 1..j : g[n] = g[n - 1] + gain[n]
    <3>1. \A n \in 1..(j - 1) : g[n] = g[n - 1] + gain[n]
      BY <1>5, <1>6
    <3>2. g[j] = g[j - 1] + gain[j]
      BY <1>5, <1>6
    <3> HIDE DEF g
    <3>3. \A n \in 1..j : n = j \/ n \in 1..(j - 1)
      BY <1>5
    <3>4. QED
      BY <3>1, <3>2, <3>3
  <2> HIDE DEF g
  <2>3. QED
    BY <2>1, <2>2 DEF Sums
<1>8. QED
  BY <1>7

(* Total adds up. *)
LEMMA TotalAddsUp ==
  ASSUME NEW gain \in [1..25 -> Int]
  PROVE  Total(gain) =
           gain[1] + gain[2] + gain[3] + gain[4] + gain[5] + gain[6] + gain[7] + gain[8]
           + gain[9] + gain[10] + gain[11] + gain[12] + gain[13] + gain[14] + gain[15]
           + gain[16] + gain[17] + gain[18] + gain[19] + gain[20] + gain[21] + gain[22]
           + gain[23] + gain[24] + gain[25]
<1> DEFINE Sum(f) == [n \in 0..25 |-> IF n = 0 THEN 0 ELSE f[n - 1] + gain[n]]
           sum == CHOOSE f : f = Sum(f)
<1>1. \E f : f = Sum(f)
  <2>1. PICK f \in [0..25 -> Int] : f[0] = 0 /\ \A n \in 1..25 : f[n] = f[n - 1] + gain[n]
    <3>1. Sums(gain, 25) # {}
      BY SumsExist
    <3>2. QED
      BY <3>1 DEF Sums
  <2>2. f = Sum(f)
    BY <2>1
  <2>3. QED
    BY <2>2
<1>2. sum = Sum(sum)
  <2> HIDE DEF Sum
  <2>1. QED
    BY <1>1
<1>3. Len(paylines) = 25
  BY DEF paylines
<1>4. Total(gain) = sum[25]
  BY <1>3 DEF Total
<1> HIDE DEF sum
<1>5. sum[0] = 0 /\ \A n \in 1..25 : sum[n] = sum[n - 1] + gain[n]
  BY <1>2
<1>6. QED
  BY <1>4, <1>5

-----------------------------------------------------------------------------
(* The board of the reply *)

(* The payline that is the same one upside down. *)
Mirror(n) == IF n = 1 THEN 1 ELSE IF n % 2 = 0 THEN n + 1 ELSE n - 1

LEMMA MirrorOf ==
  /\ Mirror(1) = 1
  /\ Mirror(2) = 3 /\ Mirror(4) = 5 /\ Mirror(6) = 7 /\ Mirror(8) = 9
  /\ Mirror(10) = 11 /\ Mirror(12) = 13 /\ Mirror(14) = 15 /\ Mirror(16) = 17
  /\ Mirror(18) = 19 /\ Mirror(20) = 21 /\ Mirror(22) = 23 /\ Mirror(24) = 25
  /\ Mirror(3) = 2 /\ Mirror(5) = 4 /\ Mirror(7) = 6 /\ Mirror(9) = 8
  /\ Mirror(11) = 10 /\ Mirror(13) = 12 /\ Mirror(15) = 14 /\ Mirror(17) = 16
  /\ Mirror(19) = 18 /\ Mirror(21) = 20 /\ Mirror(23) = 22 /\ Mirror(25) = 24
BY DEF Mirror

LEMMA PaylinesAreSymmetric ==
  \A n \in 1..25 : \A r \in Reel :
    paylines[Mirror(n)][r] = 6 * (r - 1) + 2 - paylines[n][r]
<1> DEFINE Paired(m, n) == \A r \in 1..5 : paylines[m][r] + paylines[n][r] = 6 * (r - 1) + 2
<1>1. /\ Paired(1, 1)
      /\ Paired(2, 3) /\ Paired(4, 5) /\ Paired(6, 7) /\ Paired(8, 9)
  BY DEF paylines
<1>2. /\ Paired(10, 11) /\ Paired(12, 13) /\ Paired(14, 15) /\ Paired(16, 17)
  BY DEF paylines
<1>3. /\ Paired(18, 19) /\ Paired(20, 21) /\ Paired(22, 23) /\ Paired(24, 25)
  BY DEF paylines
<1>4. \A m, n \in 1..25 : Paired(m, n) => Paired(n, m)
  BY PaylineCells DEF Reel
<1> HIDE DEF Paired
<1>5. \A n \in 1..25 : Paired(Mirror(n), n)
  BY <1>1, <1>2, <1>3, <1>4, MirrorOf
<1>6. ASSUME NEW n \in 1..25, NEW r \in 1..5
      PROVE  paylines[Mirror(n)][r] = 6 * (r - 1) + 2 - paylines[n][r]
  <2>1. paylines[Mirror(n)][r] + paylines[n][r] = 6 * (r - 1) + 2
    BY <1>5 DEF Paired
  <2>2. Mirror(n) \in 1..25
    BY DEF Mirror
  <2>3. paylines[Mirror(n)][r] \in Int /\ paylines[n][r] \in Int
    BY <2>2, PaylineCells DEF Reel
  <2>4. QED
    BY <2>1, <2>3
<1>7. QED
  BY <1>6 DEF Reel

LEMMA MirroredLine ==
  ASSUME NEW board, NEW n \in 1..25
  PROVE  LineOn(Shown(board), n) = LineOn(board, Mirror(n)) /\ Mirror(n) \in 1..25
<1>1. Mirror(n) \in 1..25
  BY DEF Mirror
<1>2. ASSUME NEW r \in Reel
      PROVE  Shown(board)[paylines[n][r]] = board[paylines[Mirror(n)][r]]
  <2> DEFINE c == paylines[n][r]
  <2>1. c \in (3 * (r - 1))..(3 * (r - 1) + 2) /\ r \in 1..5
    BY PaylineCells DEF Reel
  <2>2. paylines[Mirror(n)][r] = 6 * (r - 1) + 2 - c
    BY PaylinesAreSymmetric
  <2> HIDE DEF c
  <2>3. c \in Cell /\ 3 * (c \div 3) + 2 - (c % 3) = 6 * (r - 1) + 2 - c
    BY <2>1 DEF Cell
  <2>4. Shown(board)[c] = board[3 * (c \div 3) + 2 - (c % 3)]
    BY <2>3 DEF Shown
  <2>5. QED
    BY <2>2, <2>3, <2>4 DEF c
<1>3. QED
  BY <1>1, <1>2 DEF LineOn

(* A sum over the paylines upside down is the same sum. *)
LEMMA MirroredTotal ==
  ASSUME NEW gain \in [1..25 -> Int], NEW other \in [1..25 -> Int],
         \A n \in 1..25 : other[n] = gain[Mirror(n)]
  PROVE  Total(other) = Total(gain)
<1>1. /\ other[1] = gain[1]
      /\ other[2] = gain[3] /\ other[3] = gain[2] /\ other[4] = gain[5] /\ other[5] = gain[4]
      /\ other[6] = gain[7] /\ other[7] = gain[6] /\ other[8] = gain[9] /\ other[9] = gain[8]
      /\ other[10] = gain[11] /\ other[11] = gain[10] /\ other[12] = gain[13]
      /\ other[13] = gain[12] /\ other[14] = gain[15] /\ other[15] = gain[14]
      /\ other[16] = gain[17] /\ other[17] = gain[16] /\ other[18] = gain[19]
      /\ other[19] = gain[18] /\ other[20] = gain[21] /\ other[21] = gain[20]
      /\ other[22] = gain[23] /\ other[23] = gain[22] /\ other[24] = gain[25]
      /\ other[25] = gain[24]
  BY MirrorOf
<1>2. /\ gain[1] \in Int /\ gain[2] \in Int /\ gain[3] \in Int /\ gain[4] \in Int
      /\ gain[5] \in Int /\ gain[6] \in Int /\ gain[7] \in Int /\ gain[8] \in Int
      /\ gain[9] \in Int /\ gain[10] \in Int /\ gain[11] \in Int /\ gain[12] \in Int
      /\ gain[13] \in Int /\ gain[14] \in Int /\ gain[15] \in Int /\ gain[16] \in Int
      /\ gain[17] \in Int /\ gain[18] \in Int /\ gain[19] \in Int /\ gain[20] \in Int
      /\ gain[21] \in Int /\ gain[22] \in Int /\ gain[23] \in Int /\ gain[24] \in Int
      /\ gain[25] \in Int
  OBVIOUS
<1>3. Total(other) =
        gain[1] + gain[3] + gain[2] + gain[5] + gain[4] + gain[7] + gain[6] + gain[9]
        + gain[8] + gain[11] + gain[10] + gain[13] + gain[12] + gain[15] + gain[14]
        + gain[17] + gain[16] + gain[19] + gain[18] + gain[21] + gain[20] + gain[23]
        + gain[22] + gain[25] + gain[24]
  BY <1>1, TotalAddsUp
<1>4. Total(gain) =
        gain[1] + gain[2] + gain[3] + gain[4] + gain[5] + gain[6] + gain[7] + gain[8]
        + gain[9] + gain[10] + gain[11] + gain[12] + gain[13] + gain[14] + gain[15]
        + gain[16] + gain[17] + gain[18] + gain[19] + gain[20] + gain[21] + gain[22]
        + gain[23] + gain[24] + gain[25]
  BY TotalAddsUp
<1> DEFINE a == gain[1] + gain[2] + gain[3] + gain[4] + gain[5] + gain[6] + gain[7]
           b == a + gain[8] + gain[9] + gain[10] + gain[11] + gain[12] + gain[13]
           c == b + gain[14] + gain[15] + gain[16] + gain[17] + gain[18] + gain[19]
<1>5. a \in Int /\ a = gain[1] + gain[3] + gain[2] + gain[5] + gain[4] + gain[7] + gain[6]
  BY <1>2
<1> HIDE DEF a
<1>6. /\ b \in Int
      /\ b = a + gain[9] + gain[8] + gain[11] + gain[10] + gain[13] + gain[12]
  BY <1>2, <1>5
<1> HIDE DEF b
<1>7. /\ c \in Int
      /\ c = b + gain[15] + gain[14] + gain[17] + gain[16] + gain[19] + gain[18]
  BY <1>2, <1>6
<1> HIDE DEF c
<1>8. c + gain[20] + gain[21] + gain[22] + gain[23] + gain[24] + gain[25]
      = c + gain[21] + gain[20] + gain[23] + gain[22] + gain[25] + gain[24]
  BY <1>2, <1>7
<1>9. Total(gain) = c + gain[20] + gain[21] + gain[22] + gain[23] + gain[24] + gain[25]
  BY <1>4, Zenon DEF a, b, c
<1>10. Total(other) = c + gain[21] + gain[20] + gain[23] + gain[22] + gain[25] + gain[24]
  BY <1>3, <1>5, <1>6, <1>7, Zenon
<1>11. QED
  BY <1>8, <1>9, <1>10

(* What the check of a payline returns. *)
LEMMA SequencesAreShort ==
  ASSUME NEW line, NEW free \in BOOLEAN
  PROVE  check_payline(line, free).sequence \in 0..5
<1>1. \A good : Run(good) \in 0..5
  BY RunIs
<1>2. AnyBars(line) \in 0..5
  BY <1>1 DEF AnyBars
<1>3. ASSUME NEW s, NEW n \in 0..5
      PROVE  BestOf(line, Outcome(s, n)).sequence \in 0..5
  BY <1>2 DEF BestOf, Outcome
<1>4. CheckNormal(line).sequence \in 0..5
  BY <1>1, <1>3 DEF CheckNormal
<1>5. CheckFree(line).sequence \in 0..5
  <2>1. Outcome(in_wild, 5).sequence \in 0..5
    BY DEF Outcome
  <2>2. BestOf(line, Outcome(LineSymbol(line), Run(FreeCells(line)))).sequence \in 0..5
    BY <1>1, <1>3
  <2>3. QED
    BY <2>1, <2>2 DEF CheckFree
<1>6. QED
  BY <1>4, <1>5 DEF check_payline

LEMMA MirroredBoard ==
  ASSUME NEW stops \in [Reel -> 0..14], NEW free \in BOOLEAN
  PROVE  LET out == set_out_reels(stops)
         IN  /\ Credits(Results(Shown(out), free)) = Credits(Results(out, free))
             /\ Awards(Results(Shown(out), free)) = Awards(Results(out, free))
<1> DEFINE out == set_out_reels(stops)
           paid == Results(out, free)
           shown == Results(Shown(out), free)
<1>1. DOMAIN paylines = 1..25
  BY DEF paylines
<1>2. ASSUME NEW n \in 1..25
      PROVE  /\ paid[n] = check_payline(LineOn(out, n), free)
             /\ shown[n] = paid[Mirror(n)]
             /\ Mirror(n) \in 1..25
             /\ Credit(paid[n]) \in Int
             /\ FreeSpinsFor(paid[n]) \in Int
  <2>1. Mirror(n) \in 1..25 /\ LineOn(Shown(out), n) = LineOn(out, Mirror(n))
    BY MirroredLine
  <2>2. \A i \in 1..25 : paid[i] = check_payline(LineOn(out, i), free)
    BY <1>1 DEF Results
  <2>3. shown[n] = check_payline(LineOn(Shown(out), n), free)
    BY <1>1 DEF Results
  <2>4. Credit(paid[n]) \in Int
    BY <2>2, DrawnLines, CreditsAreNumbers
  <2>5. FreeSpinsFor(paid[n]) \in Int
    <3> HIDE DEF paid
    <3>1. paid[n].sequence \in 0..5
      BY <2>2, SequencesAreShort
    <3>2. QED
      BY <3>1 DEF FreeSpinsFor
  <2>6. QED
    BY <2>1, <2>2, <2>3, <2>4, <2>5
<1> HIDE DEF out, paid, shown
<1>3. Credits(shown) = Credits(paid)
  <2> DEFINE gain == [n \in 1..25 |-> Credit(paid[n])]
             other == [n \in 1..25 |-> Credit(shown[n])]
  <2>1. gain \in [1..25 -> Int] /\ other \in [1..25 -> Int]
    BY <1>2
  <2>2. \A n \in 1..25 : other[n] = gain[Mirror(n)]
    BY <1>2
  <2>3. Total(other) = Total(gain)
    <3> HIDE DEF gain, other
    <3> QED BY <2>1, <2>2, MirroredTotal
  <2>4. QED
    BY <1>1, <2>3 DEF Credits
<1>4. Awards(shown) = Awards(paid)
  <2> DEFINE gain == [n \in 1..25 |-> FreeSpinsFor(paid[n])]
             other == [n \in 1..25 |-> FreeSpinsFor(shown[n])]
  <2>1. gain \in [1..25 -> Int] /\ other \in [1..25 -> Int]
    BY <1>2
  <2>2. \A n \in 1..25 : other[n] = gain[Mirror(n)]
    BY <1>2
  <2>3. Total(other) = Total(gain)
    <3> HIDE DEF gain, other
    <3> QED BY <2>1, <2>2, MirroredTotal
  <2>4. QED
    BY <1>1, <2>3 DEF Awards
<1>5. QED
  BY <1>3, <1>4 DEF out, paid, shown

-----------------------------------------------------------------------------
(* The reels stay where they stopped, and the results are those of what     *)
(* they show.                                                               *)
BoardInv ==
  /\ stop_points \in [Reel -> 0..14] /\ is_freespin \in BOOLEAN
  /\ results # <<>> => results = Results(Out, is_freespin)

LEMMA BoardInvariant == SpinSpec => []BoardInv
<1>1. SpinInit => BoardInv
  BY SlotSpinAssumption DEF SpinInit, BoardInv
<1>2. BoardInv /\ [CheckPaylines]_spinVars => BoardInv'
  BY DEF BoardInv, CheckPaylines, spinVars, Out
<1>3. QED
  BY <1>1, <1>2, PTL DEF SpinSpec

(* All results are of lines that the reels can show. *)
LEMMA BoardLines ==
  ASSUME BoardInv
  PROVE  /\ DOMAIN results \subseteq 1..25
         /\ \A n \in DOMAIN results :
              /\ LineOn(Out, n) \in PossibleLine
              /\ results[n] = check_payline(LineOn(Out, n), is_freespin)
<1>1. CASE results = <<>>
  BY <1>1
<1>2. CASE results # <<>>
  <2>1. results = [n \in 1..25 |-> check_payline(LineOn(Out, n), is_freespin)]
    <3>1. DOMAIN paylines = 1..25
      BY DEF paylines
    <3>2. QED
      BY <1>2, <3>1 DEF BoardInv, Results
  <2>2. \A n \in 1..25 : LineOn(Out, n) \in PossibleLine
    BY DrawnLines DEF BoardInv, Out
  <2>3. QED
    BY <2>1, <2>2
<1>3. QED
  BY <1>1, <1>2

(* Wherever the reels stop, the board of the reply wins what has been paid. *)
THEOREM ShownBoardIsPaid == SpinSpec => []ShownWinIsPaid
<1>1. BoardInv => ShownWinIsPaid
  BY MirroredBoard DEF BoardInv, ShownWinIsPaid, win_credit, Out
<1>2. QED
  BY <1>1, BoardInvariant, PTL

(* Wherever the reels stop, every line pays the better of its readings. *)
THEOREM BetterReadingIsPaid == SpinSpec => []PaysTheBetter
<1>1. ASSUME BoardInv, NEW line \in Lines
      PROVE  LET paid == Credit(check_payline(line, is_freespin)) IN
             /\ ~is_freespin => paid >= get_credit(line[1], Run(NormalCells(line)))
             /\ is_freespin /\ LineSymbol(line) # "Scatter" =>
                  paid >= get_credit(LineSymbol(line), Run(FreeCells(line)))
             /\ ~(is_freespin /\ LineSymbol(line) = "Scatter") /\ AnyBars(line) >= 3 =>
                  paid >= get_credit("Any", AnyBars(line))
  <2>1. line \in PossibleLine /\ is_freespin \in BOOLEAN
    BY <1>1, BoardLines DEF Lines, BoardInv
  <2>2. CASE ~is_freespin
    BY <2>1, <2>2, NormalPays DEF check_payline
  <2>3. CASE is_freespin
    BY <2>1, <2>3, FreePays DEF check_payline
  <2>4. QED
    BY <2>2, <2>3
<1>2. BoardInv => PaysTheBetter
  BY <1>1 DEF PaysTheBetter
<1>3. QED
  BY <1>2, BoardInvariant, PTL

(* Wherever the reels stop, a line pays no less in a free spin, but for     *)
(* those that begin with just three or four wild symbols.                   *)
THEOREM FreeSpinsPayNoLess == SpinSpec => []FreePaysNoLess
<1>1. ASSUME BoardInv, NEW line \in Lines
      PROVE  \/ Credit(CheckFree(line)) >= Credit(CheckNormal(line))
             \/ Run({i \in Reel : line[i] \in Wilds}) \in {3, 4}
  <2>1. line \in PossibleLine
    BY <1>1, BoardLines DEF Lines
  <2>2. QED
    BY <2>1, FreeIsNoWorse
<1>2. BoardInv => FreePaysNoLess
  BY <1>1 DEF FreePaysNoLess
<1>3. QED
  BY <1>2, BoardInvariant, PTL

(* Wherever the reels stop, every result has a symbol. *)
THEOREM SymbolsAreFound == SpinSpec => []SymbolFound
<1>1. ASSUME NEW line \in PossibleLine, NEW free \in BOOLEAN
      PROVE  check_payline(line, free).symbol # NoSymbol
  <2>1. ASSUME NEW s \in Symbols, NEW n
        PROVE  BestOf(line, Outcome(s, n)).symbol # NoSymbol
    BY DEF BestOf, Outcome, Symbols, NoSymbol
  <2>2. CheckNormal(line).symbol # NoSymbol
    BY <2>1 DEF CheckNormal, PossibleLine, Reel
  <2>3. CheckFree(line).symbol # NoSymbol
    <3>1. CASE FiveWild(line)
      BY <3>1 DEF CheckFree, Outcome, in_wild, NoSymbol
    <3>2. CASE ~FiveWild(line)
      BY <2>1, <3>2, BarsOfFreeLine DEF CheckFree
    <3>3. QED
      BY <3>1, <3>2
  <2>4. QED
    BY <2>2, <2>3 DEF check_payline
<1>2. BoardInv => SymbolFound
  BY <1>1, BoardLines DEF BoardInv, SymbolFound
<1>3. QED
  BY <1>2, BoardInvariant, PTL

=============================================================================
