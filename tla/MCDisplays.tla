------------------------------ MODULE MCDisplays ------------------------------
(***************************************************************************)
(* Instances of Displays for TLC: a behaviour has displays of firmware, or *)
(* it has the controller that is driven by hand.                           *)
(***************************************************************************)
EXTENDS Displays, TLC

CONSTANTS t1, t2, h1, h2, black, white, sd

VARIABLE byHand

Area(column, row, pixels) == [column |-> column, row |-> row, pixels |-> pixels]

(* The second has room with its axes exchanged, and so have its columns    *)
(* with the rows of the third, which no display takes.                     *)
PanelFlushes == {
  Area(<<0, 2>>, <<0, 1>>, <<white, black, white, white, black, black>>),
  Area(<<0, 1>>, <<0, 1>>, <<white, black, white, white>>),
  Area(<<2, 3>>, <<1, 1>>, <<white, black>>)}

(* One thread stays inside the firmware. *)
MCInit == byHand \in BOOLEAN /\ active = {t2} /\ DisplayInit

MCNext ==
  /\ UNCHANGED byHand
  /\ \/ byHand /\ BenchNext
     \/ ~byHand /\ DisplayNext /\ t2 \in active'

mcVars == <<displayVars, byHand>>
MCSpec == MCInit /\ [][MCNext]_mcVars /\ DisplayFairness
=============================================================================
