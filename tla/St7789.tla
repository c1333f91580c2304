-------------------------------- MODULE St7789 --------------------------------
(***************************************************************************)
(* The ST7789 panel controller (core/display/src/st7789.rs) as a record    *)
(* and functions of it: reset, address window, orientation, and the pixel  *)
(* transfer that follows RAMWR.  Every command returns [ok, panel]: a      *)
(* refused one may still have changed the controller.  Which transactions  *)
(* of the SPI bus carry the commands is module Displays' matter.           *)
(*                                                                         *)
(* A colour is a value of Colours; the byte order on the wire is swapped   *)
(* and swapped back (framebuffer.rs:82) and is not modelled.  Commands the *)
(* controller ignores and the backlight are left out.                      *)
(***************************************************************************)
EXTENDS Integers, Sequences

CONSTANTS Width, Height, Colours, Black

ASSUME PanelAssumption == Width \in Nat \ {0} /\ Height \in Nat \ {0} /\ Black \in Colours

Cells == (0 .. Width - 1) \X (0 .. Height - 1)
TDeck == {"T-Deck"}                              \* MADCTL 0x55
Orientations == {TDeck} \cup SUBSET {"MV", "MX", "MY"}

Cleared == [c \in Cells |-> Black]

Panels ==
  [gram : [Cells -> Colours], resetHigh : BOOLEAN, seenLow : BOOLEAN, initialized : BOOLEAN,
   inverted : BOOLEAN, madctl : Orientations, column : Int \X Int, row : Int \X Int,
   ramWrite : BOOLEAN]

NewPanel ==
  [gram |-> Cleared, resetHigh |-> TRUE, seenLow |-> FALSE, initialized |-> FALSE,
   inverted |-> FALSE, madctl |-> {}, column |-> <<0, Width - 1>>, row |-> <<0, Height - 1>>,
   ramWrite |-> FALSE]

Done(p) == [ok |-> TRUE, panel |-> p]
Refused(p) == [ok |-> FALSE, panel |-> p]

SetReset(p, high) ==
  IF high THEN [p EXCEPT !.resetHigh = TRUE]
  ELSE [p EXCEPT !.resetHigh = FALSE, !.seenLow = TRUE, !.initialized = FALSE,
                 !.inverted = FALSE, !.madctl = {}, !.ramWrite = FALSE]

-----------------------------------------------------------------------------
(* Commands.  Each of them, in reset too, ends a transfer that was begun.  *)

Deselected(p) == [p EXCEPT !.ramWrite = FALSE]

Malformed(p) == Refused(Deselected(p))           \* an argument of the wrong length

IsWindow(w, limit) == w[1] <= w[2] /\ w[2] < limit

SetColumn(p, w) ==
  IF IsWindow(w, Width) THEN Done([Deselected(p) EXCEPT !.column = w]) ELSE Malformed(p)

SetRow(p, w) ==
  IF IsWindow(w, Height) THEN Done([Deselected(p) EXCEPT !.row = w]) ELSE Malformed(p)

SetMadctl(p, m) == Done([Deselected(p) EXCEPT !.madctl = m])
SetInversion(p, on) == Done([Deselected(p) EXCEPT !.inverted = on])

StartWrite(p) == Done([p EXCEPT !.ramWrite = TRUE])

(* initialize_t_deck may be asked for: the controller was reset, not in reset. *)
MayInitialize(p) == p.resetHigh /\ p.seenLow

-----------------------------------------------------------------------------
(* Pixels. *)

WindowWidth(p) == p.column[2] - p.column[1] + 1
WindowSize(p) == WindowWidth(p) * (p.row[2] - p.row[1] + 1)

(* The i-th pixel of a transfer, as the firmware counts them. *)
Addressed(p, i) ==
  <<p.column[1] + ((i - 1) % WindowWidth(p)), p.row[1] + ((i - 1) \div WindowWidth(p))>>

MappedTwice(p, c) ==  \* mutant: the exchange of x and y overwrites one with the other
  IF "MV" \in p.madctl THEN <<c[2], c[2]>> ELSE c

(* The cell of GRAM a pixel goes to.  The subtraction wraps, or stops a    *)
(* debug build, where this is negative: outside the panel either way.      *)
MapOrientation(p, c) ==
  LET swapped == IF "MV" \in p.madctl THEN <<c[2], c[1]>> ELSE c IN
  IF p.madctl = TDeck THEN <<Width - 1 - c[1], Height - 1 - c[2]>>
  ELSE <<IF "MX" \in p.madctl THEN Width - 1 - swapped[1] ELSE swapped[1],
         IF "MY" \in p.madctl THEN Height - 1 - swapped[2] ELSE swapped[2]>>

Target(p, i) == MapOrientation(p, Addressed(p, i))

TakesPixels(p, pixels) ==
  p.resetHigh /\ p.initialized /\ p.ramWrite /\ Len(pixels) = WindowSize(p)

(* The transfer stops at the first pixel outside GRAM: those before stay. *)
WritePixels(p, pixels) ==
  LET landed == {i \in DOMAIN pixels : \A j \in 1 .. i : Target(p, j) \in Cells}
      gram   == [c \in Cells |->
                   IF \E i \in landed : Target(p, i) = c
                   THEN pixels[CHOOSE i \in landed : Target(p, i) = c] ELSE p.gram[c]]
  IN  IF ~TakesPixels(p, pixels) THEN Refused(p)
      ELSE [ok |-> landed = DOMAIN pixels, panel |-> [p EXCEPT !.gram = gram]]
=============================================================================
