------------------------------ MODULE SlotSpin ------------------------------
(***************************************************************************)
(* What a spin of the classic slot pays (ddslot_classic::spin of slot.cpp, *)
(* apart from the counters of free spins, which FreeSpins models): the     *)
(* reels stop, all paylines are checked on the symbols that are out, and   *)
(* the reply shows these upside down.                                      *)
(***************************************************************************)
EXTENDS Payline

CONSTANT Stops  \* stop points that are drawn, 0..14 in the code

ASSUME SlotSpinAssumption == Stops \subseteq 0..14

VARIABLES
  stop_points,  \* where each reel stops
  is_freespin,
  results       \* the result of every payline, <<>> before the check

spinVars == <<stop_points, is_freespin, results>>

(* ddslot_classic::init: of the 32 symbols of every reel those a stop at    *)
(* 0..14 can show, the last one, which is above the first, and the first    *)
(* sixteen.                                                                 *)
reels == <<
  <<"Bar", "Scatter", "Cherry", "Seven", "Bar3", "Watermelon", "Bar2",
    "Mangosteen", "Cherry", "Bar3", "Bar", "Bell", "Watermelon", "Bar2",
    "Cherry", "Seven3", "Bell">>,
  <<"Watermelon", "Cherry", "Bell", "Seven3", "Bar3", "Mangosteen", "Cherry",
    "Seven", "Bar", "Watermelon", "Seven3", "Bar3", "Cherry", "Seven", "Wild",
    "Bar", "Bar2">>,
  <<"Seven3", "Seven", "Bar", "Bar2", "Scatter", "Mangosteen", "Cherry",
    "Bar", "Seven", "Bar3", "Watermelon", "Seven3", "Bell", "Bar", "Cherry",
    "Mangosteen", "Bar3">>,
  <<"Watermelon", "Seven", "Mangosteen", "Wild", "Scatter", "Bar",
    "Watermelon", "Mangosteen", "Bar3", "Seven3", "Bar2", "Watermelon",
    "Cherry", "Bar3", "Mangosteen", "Bar", "Seven">>,
  <<"Bell", "Watermelon", "Scatter", "Seven3", "Seven", "Mangosteen", "Bar3",
    "Bar", "Watermelon", "Bell", "Mangosteen", "Bar3", "Seven", "Bar",
    "Seven3", "Cherry", "Bar2">>>>

(* The cells of a board are numbered from 0, three for every reel:          *)
(*    0  3  6  9  12                                                        *)
(*    1  4  7 10  13                                                        *)
(*    2  5  8 11  14                                                        *)
Cell == 0..14

set_out_reels(stops) ==
  [c \in Cell |-> reels[c \div 3 + 1][stops[c \div 3 + 1] + (c % 3) + 1]]

(* payline_classic::init *)
paylines == <<
  <<1, 4, 7, 10, 13>>, <<0, 3, 6, 9, 12>>, <<2, 5, 8, 11, 14>>,
  <<0, 4, 8, 10, 12>>, <<2, 4, 6, 10, 14>>,
  <<0, 3, 7, 9, 12>>, <<2, 5, 7, 11, 14>>, <<1, 5, 8, 11, 13>>,
  <<1, 3, 6, 9, 13>>, <<0, 4, 7, 10, 12>>,
  <<2, 4, 7, 10, 14>>, <<0, 4, 6, 10, 12>>, <<2, 4, 8, 10, 14>>,
  <<1, 3, 7, 9, 13>>, <<1, 5, 7, 11, 13>>,
  <<1, 4, 6, 10, 13>>, <<1, 4, 8, 10, 13>>, <<0, 5, 6, 11, 12>>,
  <<2, 3, 8, 9, 14>>, <<1, 3, 8, 9, 13>>,
  <<1, 5, 6, 11, 13>>, <<0, 3, 8, 9, 12>>, <<2, 5, 6, 11, 14>>,
  <<0, 5, 8, 11, 12>>, <<2, 3, 6, 9, 14>>>>

LineOn(board, n) == [r \in Reel |-> board[paylines[n][r]]]

(* Every payline is checked on its own. *)
Results(board, free) ==
  [n \in DOMAIN paylines |-> check_payline(LineOn(board, n), free)]

Credit(r) == get_credit(r.symbol, r.sequence)

(* Free spins for a line of Scatters. *)
FreeSpinsFor(r) ==
  IF r.symbol # "Scatter" \/ r.sequence < 3 THEN 0
  ELSE <<10, 15, 20>>[r.sequence - 2]

(* The sum over the paylines, which the code takes line by line. *)
Total(gain) ==
  LET sum[n \in 0..Len(paylines)] == IF n = 0 THEN 0 ELSE sum[n - 1] + gain[n]
  IN  sum[Len(paylines)]

(* What the results of all paylines add up to, in credits and free spins. *)
Credits(rs) == Total([n \in DOMAIN paylines |-> Credit(rs[n])])
Awards(rs) == Total([n \in DOMAIN paylines |-> FreeSpinsFor(rs[n])])

-----------------------------------------------------------------------------
SpinInit ==
  /\ stop_points \in [Reel -> Stops]
  /\ is_freespin \in BOOLEAN
  /\ results = <<>>

CheckPaylines ==
  /\ results = <<>>
  /\ results' = Results(set_out_reels(stop_points), is_freespin)
  /\ UNCHANGED <<stop_points, is_freespin>>

SpinSpec == SpinInit /\ [][CheckPaylines]_spinVars

win_credit == Credits(results)

(* Wrong on purpose: the last reel is not turned. *)
Turned(board) ==
  [c \in Cell |-> IF c > 11 THEN board[c] ELSE board[3 * (c \div 3) + 2 - (c % 3)]]

(* out_symbols2: every reel upside down. *)
Shown(board) == [c \in Cell |-> board[3 * (c \div 3) + 2 - (c % 3)]]

-----------------------------------------------------------------------------
Out == set_out_reels(stop_points)
Lines == {LineOn(Out, n) : n \in DOMAIN results}

(* What the player sees is what he is paid for, although the paylines are   *)
(* checked on the symbols before they are turned: read by the same 25       *)
(* paylines, the board of the reply wins the same credits and free spins.   *)
(* The table of the paylines, line by line, is its own mirror image.        *)
ShownWinIsPaid ==
  results # <<>> =>
    LET shown == Results(Shown(Out), is_freespin)
    IN  Credits(shown) = win_credit /\ Awards(shown) = Awards(results)

(* The any-bar rule never costs the player credits: whichever of the two    *)
(* readings of a line it picks, the sequence of the line's symbol or the    *)
(* run of bars, pays at least as much as the other.  Excepted are free      *)
(* spins on a line read as Scatters, which win spins and no credits.        *)
PaysTheBetter ==
  \A line \in Lines :
    LET paid == Credit(check_payline(line, is_freespin)) IN
    /\ ~is_freespin => paid >= get_credit(line[1], Run(NormalCells(line)))
    /\ is_freespin /\ LineSymbol(line) # "Scatter" =>
         paid >= get_credit(LineSymbol(line), Run(FreeCells(line)))
    /\ ~(is_freespin /\ LineSymbol(line) = "Scatter") /\ AnyBars(line) >= 3 =>
         paid >= get_credit("Any", AnyBars(line))

(* The second wild symbol of the free spins is to the player's advantage: a *)
(* line never pays less than in a normal spin, unless it begins with just   *)
(* three or four wild symbols.  These are bars in a normal spin; in a free  *)
(* spin they go to the symbol that follows, which may be worth less.        *)
FreePaysNoLess ==
  is_freespin =>
    \A line \in Lines :
      \/ Credit(CheckFree(line)) >= Credit(CheckNormal(line))
      \/ Run({i \in Reel : line[i] \in Wilds}) \in {3, 4}

(* The -1 a payline_result is made with is never looked up in the paytable: *)
(* a line without any plain symbol is one of the four all-wild patterns,    *)
(* given where the reels have their Wild symbols.                           *)
SymbolFound == \A n \in DOMAIN results : results[n].symbol # NoSymbol

=============================================================================
