------------------------------- MODULE Payline -------------------------------
(***************************************************************************)
(* What one payline of the classic slot pays (slot.cpp): the paytable, and *)
(* payline_classic::check_payline in a normal and in a free spin.  A line  *)
(* is the sequence of the five symbols on it.  Reels and positions count   *)
(* from 1 here and from 0 in the code.                                     *)
(***************************************************************************)
EXTENDS Integers, Sequences, FiniteSetsExt

Reel == 1..5
NoSymbol == "none"

-----------------------------------------------------------------------------
(* paytable_classic::init: the credits of sequences of 3, 4 and 5, and of 2 *)
(* for the symbols that pay for a pair.  A Scatter is not in the table.     *)
paytable == [
  Wild   |-> [pair |-> 5, long |-> <<50, 500, 5000>>],
  Seven3 |-> [pair |-> 3, long |-> <<40, 200, 1000>>],
  Seven  |-> [pair |-> 2, long |-> <<30, 150, 500>>],
  Bell   |-> [pair |-> 2, long |-> <<25, 150, 300>>],
  Bar3   |-> [pair |-> 0, long |-> <<20, 75, 200>>],
  Bar2   |-> [pair |-> 0, long |-> <<20, 75, 200>>],
  Bar    |-> [pair |-> 0, long |-> <<15, 50, 100>>],
  Mangosteen |-> [pair |-> 0, long |-> <<15, 50, 100>>],
  Watermelon |-> [pair |-> 0, long |-> <<10, 25, 50>>],
  Cherry |-> [pair |-> 0, long |-> <<10, 25, 50>>],
  Any    |-> [pair |-> 0, long |-> <<10, 25, 100>>]]

get_credit(symbol, sequence) ==
  IF symbol \notin DOMAIN paytable \/ sequence < 2 THEN 0
  ELSE IF sequence = 2 THEN paytable[symbol].pair
  ELSE paytable[symbol].long[sequence - 2]

-----------------------------------------------------------------------------
(* The length of the longest prefix of the line whose cells are all good.   *)
Run(good) == Max({n \in 0..5 : \A i \in 1..n : i \in good})

Outcome(symbol, sequence) == [symbol |-> symbol, sequence |-> sequence]

(* "anybar": a run of three or more bars that is longer than the sequence   *)
(* found so far takes its place.                                            *)
AnyBars(line) == Run({i \in Reel : line[i] \in {"Bar3", "Bar2", "Bar", "Wild"}})

(* Wrong on purpose: bars win a tie. *)
BarsWinTies(line, found) ==
  IF AnyBars(line) >= 3 /\ found.sequence <= AnyBars(line)
  THEN Outcome("Any", AnyBars(line))
  ELSE found

BestOf(line, found) ==
  IF AnyBars(line) >= 3 /\ found.sequence < AnyBars(line)
  THEN Outcome("Any", AnyBars(line))
  ELSE found

(* A normal spin: the sequence of the first symbol.  Wild is asked for on   *)
(* the second and fourth reels, the only ones that have it.                 *)
NormalCells(line) ==
  {i \in Reel : line[i] = line[1] \/ (i \in {2, 4} /\ line[i] = "Wild")}

CheckNormal(line) == BestOf(line, Outcome(line[1], Run(NormalCells(line))))

(* A free spin: the symbol in_wild_symbol = 5 is wild too.                  *)
in_wild == "Bar2"
Wilds == {"Wild", in_wild}

(* Wrong on purpose: the patterns with Wild on the fourth reel are missing. *)
FiveWildButFourth(line) ==
  /\ \A i \in {1, 3, 4, 5} : line[i] = in_wild
  /\ line[2] \in Wilds

FiveWild(line) ==
  /\ \A i \in {1, 3, 5} : line[i] = in_wild
  /\ \A i \in {2, 4} : line[i] \in Wilds

(* The first symbol that is not wild; result.symbol stays -1 without one. *)
LineSymbol(line) ==
  LET plain == {i \in Reel : line[i] \notin Wilds}
  IN  IF plain = {} THEN NoSymbol ELSE line[Min(plain)]

(* Wrong on purpose: only the second wild symbol is wild. *)
CellsWithoutWild(line) ==
  {i \in Reel : i = 1 \/ line[i] \in {in_wild, LineSymbol(line)}}

(* The first cell is not looked at: it counts in any case. *)
FreeCells(line) ==
  {i \in Reel : i = 1 \/ line[i] \in Wilds \cup {LineSymbol(line)}}

CheckFree(line) ==
  IF FiveWild(line) THEN Outcome(in_wild, 5)
  ELSE BestOf(line, Outcome(LineSymbol(line), Run(FreeCells(line))))

check_payline(line, is_freespin_on) ==
  IF is_freespin_on THEN CheckFree(line) ELSE CheckNormal(line)

=============================================================================
