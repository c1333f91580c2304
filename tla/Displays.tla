------------------------------- MODULE Displays -------------------------------
(***************************************************************************)
(* The displays that firmware creates in its own LVGL (core/display/src/   *)
(* lvgl_v8.rs, lvgl_v9.rs, lib.rs): each is kept by the thread that made   *)
(* it, LVGL calls back with the pixels of an area, and must be told once   *)
(* for every callback that the area is done.  With st7789_fidelity the     *)
(* pixels go through a panel controller, command by command, over the SPI  *)
(* bus of the instance (shared_spi.rs), which refuses a transaction while  *)
(* another device owns it.                                                 *)
(*                                                                         *)
(* LVGL itself is external: it lists displays by address and uses an       *)
(* address again after the display was removed.  A created display has     *)
(* valid options and geometry: other requests return null at once.         *)
(* The firmware exports the removal of a v8 display (lvgl_v8.rs:500); the  *)
(* SDL texture of such a display is not modelled.                          *)
(***************************************************************************)
EXTENDS St7789, FiniteSets, Functions

CONSTANTS
  Threads,        \* threads that run firmware
  Handles,        \* addresses of LVGL displays
  None,
  OtherDevice,    \* the SD card or the radio, on a thread of its own
  Flushes,        \* what LVGL renders: [column, row, pixels]
  MaxCreates, MaxFlushes   \* bounds

ASSUME DisplayAssumption ==
  /\ None \notin Threads \cup Handles /\ OtherDevice \notin Threads \cup {None}
  /\ None \notin Panels
  /\ \A f \in Flushes :
       f.column \in Int \X Int /\ f.row \in Int \X Int /\ f.pixels \in Seq(Colours)
  /\ MaxCreates \in Nat /\ MaxFlushes \in Nat

VARIABLES
  active,      \* threads inside a call of a firmware library (ACTIVE_FIRMWARE_LIBRARY)
  displays,    \* displays[t]: DISPLAYS of thread t, by handle
  lvgl,        \* lvgl[h]: "free", "created", or "rendering": our callback is set
  busy,        \* busy[h]: callbacks that LVGL was not yet told are done
  owner,       \* owner of the SPI bus
  work,        \* work[t]: the creation or the flush that thread t is in
  due,         \* due[h]: the picture that LVGL was told is on the display
  bench,       \* a controller driven by hand
  creates, flushes

displayVars == <<active, displays, lvgl, busy, owner, work, due, bench, creates, flushes>>

NoWork == [op |-> "none"]
Idle(t) == work[t] = NoWork
Managed(t) == DOMAIN displays[t]

DisplayInit ==
  /\ active \in SUBSET Threads   \* some are inside the firmware when this begins
  /\ displays = [t \in Threads |-> << >>]
  /\ lvgl = [h \in Handles |-> "free"] /\ busy = [h \in Handles |-> 0]
  /\ owner = None /\ work = [t \in Threads |-> NoWork]
  /\ due = [h \in Handles |-> Cleared]
  /\ bench = [panel |-> NewPanel, wrote |-> None]
  /\ creates = 0 /\ flushes = 0

(* The host, or a task, calls the firmware and returns. *)
EnterFirmware(t) ==
  /\ Idle(t) /\ t \notin active /\ active' = active \cup {t}
  /\ UNCHANGED <<displays, lvgl, busy, owner, work, due, bench, creates, flushes>>

LeaveFirmware(t) ==
  /\ Idle(t) /\ t \in active /\ active' = active \ {t}
  /\ UNCHANGED <<displays, lvgl, busy, owner, work, due, bench, creates, flushes>>

-----------------------------------------------------------------------------
(* Transactions of the shared bus. *)

(* The other device owns the bus for a while. *)
OtherTransaction ==
  /\ \/ owner = None /\ owner' = OtherDevice
     \/ owner = OtherDevice /\ owner' = None
  /\ UNCHANGED <<active, displays, lvgl, busy, work, due, bench, creates, flushes>>

(* A script is the transactions still to come; "end" follows the last one,  *)
(* and a refused transaction, or a refused command, ends it early.          *)
Running(t, op) == work[t].op = op
Script(t) == work[t].script

SkipRefused(t) ==  \* mutant: the result of a transaction is dropped
  [work[t] EXCEPT !.script = Tail(@)]
Failed(t) == [work[t] EXCEPT !.ok = FALSE, !.script = << >>]

BeginTransaction(t) ==
  /\ ~Idle(t) /\ Script(t) # << >> /\ owner # t
  /\ IF owner = None THEN owner' = t /\ UNCHANGED work
     ELSE work' = [work EXCEPT ![t] = Failed(t)] /\ UNCHANGED owner
  /\ UNCHANGED <<active, displays, lvgl, busy, due, bench, creates, flushes>>

(* What the command does to the controller of the display. *)
Commanded(t) ==
  LET p == work[t].panel IN
  CASE Head(Script(t)) = "MADCTL" -> SetMadctl(p, TDeck)
    [] Head(Script(t)) = "INVON" -> SetInversion(p, TRUE)
    [] Head(Script(t)) = "CASET" -> SetColumn(p, work[t].area.column)
    [] Head(Script(t)) = "RASET" -> SetRow(p, work[t].area.row)
    [] Head(Script(t)) = "RAMWR" -> StartWrite(p)
    [] Head(Script(t)) = "PIXELS" -> WritePixels(p, work[t].area.pixels)

EndTransaction(t) ==
  /\ owner = t /\ owner' = None
  /\ LET result == Commanded(t)
         next   == IF result.ok THEN [work[t] EXCEPT !.script = Tail(@)] ELSE Failed(t)
     IN  work' = [work EXCEPT ![t] = [next EXCEPT !.panel = result.panel]]
  /\ UNCHANGED <<active, displays, lvgl, busy, due, bench, creates, flushes>>

-----------------------------------------------------------------------------
(* Creation and destruction. *)

Display(version, panel) ==
  [version |-> version, panel |-> panel, shown |-> Cleared]

Install(t, h, version, panel) ==
  displays' = [displays EXCEPT ![t] =
    [d \in Managed(t) \cup {h} |-> IF d = h THEN Display(version, panel) ELSE @[d]]]

Register(h) ==
  /\ lvgl' = [lvgl EXCEPT ![h] = "rendering"] /\ due' = [due EXCEPT ![h] = Cleared]

(* A controller that went through its reset and is about to be set up. *)
ResetPanel == SetReset(SetReset(NewPanel, FALSE), TRUE)

(* v9 lets LVGL create the display first, v8 has LVGL register it last.     *)
(* LVGL, or SDL for a v8 display, may refuse: nothing is left.              *)
CreateV8(t, fidelity) ==
  /\ Idle(t) /\ t \in active /\ creates < MaxCreates /\ creates' = creates + 1
  /\ \/ /\ fidelity
        /\ work' = [work EXCEPT ![t] =
             [op |-> "v8", script |-> <<"MADCTL", "INVON">>, ok |-> TRUE, panel |-> ResetPanel]]
        /\ UNCHANGED <<displays, lvgl, due>>
     \/ /\ ~fidelity /\ UNCHANGED work
        /\ \E h \in Handles : lvgl[h] = "free" /\ Install(t, h, 8, None) /\ Register(h)
     \/ UNCHANGED <<displays, lvgl, work, due>>
  /\ UNCHANGED <<active, busy, owner, bench, flushes>>

CreateV9(t, fidelity) ==
  /\ Idle(t) /\ t \in active /\ creates < MaxCreates /\ creates' = creates + 1
  /\ \/ /\ fidelity
        /\ \E h \in Handles :
             /\ lvgl[h] = "free" /\ lvgl' = [lvgl EXCEPT ![h] = "created"]
             /\ work' = [work EXCEPT ![t] =
                  [op |-> "v9", script |-> <<"MADCTL", "INVON">>, ok |-> TRUE,
                   panel |-> ResetPanel, handle |-> h]]
        /\ UNCHANGED <<displays, due>>
     \/ /\ ~fidelity /\ UNCHANGED work
        /\ \E h \in Handles : lvgl[h] = "free" /\ Install(t, h, 9, None) /\ Register(h)
     \/ UNCHANGED <<displays, lvgl, work, due>>
  /\ UNCHANGED <<active, busy, owner, bench, flushes>>

SetUp(t) == [work[t].panel EXCEPT !.initialized = TRUE]

(* The controller was set up, or not: v8 has nothing to undo. *)
FinishV8(t) ==
  /\ Running(t, "v8") /\ Script(t) = << >>
  /\ work' = [work EXCEPT ![t] = NoWork]
  /\ \/ work[t].ok /\ \E h \in Handles : lvgl[h] = "free" /\ Install(t, h, 8, SetUp(t)) /\ Register(h)
     \/ UNCHANGED <<displays, lvgl, due>>
  /\ UNCHANGED <<active, busy, owner, bench, creates, flushes>>

FinishKeepsHandle(t) ==  \* mutant: the display that LVGL created is not deleted
  /\ Running(t, "v9") /\ Script(t) = << >>
  /\ work' = [work EXCEPT ![t] = NoWork]
  /\ IF work[t].ok THEN Install(t, work[t].handle, 9, SetUp(t)) /\ Register(work[t].handle)
     ELSE UNCHANGED <<displays, lvgl, due>>
  /\ UNCHANGED <<active, busy, owner, bench, creates, flushes>>
FinishV9(t) ==
  /\ Running(t, "v9") /\ Script(t) = << >>
  /\ work' = [work EXCEPT ![t] = NoWork]
  /\ LET h == work[t].handle IN
     IF work[t].ok THEN Install(t, h, 9, SetUp(t)) /\ Register(h)
     ELSE lvgl' = [lvgl EXCEPT ![h] = "free"] /\ UNCHANGED <<displays, due>>
  /\ UNCHANGED <<active, busy, owner, bench, creates, flushes>>

(* The versions the bridge accepts, and the back end of each. *)
Versions == {8, 9}
CreateDisplay(t, version, fidelity) ==
  \/ version = 8 /\ CreateV8(t, fidelity)
  \/ version = 9 /\ CreateV9(t, fidelity)

OfVersion(t, version) == {h \in Managed(t) : displays[t][h].version = version}

Remove(t, h) ==
  /\ displays' = [displays EXCEPT ![t] = Restrict(@, Managed(t) \ {h})]
  /\ lvgl' = [lvgl EXCEPT ![h] = "free"] /\ busy' = [busy EXCEPT ![h] = 0]
  /\ UNCHANGED <<active, owner, work, due, bench, creates, flushes>>

DestroyV8(t, h) == h \in OfVersion(t, 8) /\ Remove(t, h)
DestroyV9(t, h) == h \in OfVersion(t, 9) /\ Remove(t, h)

(* meshemu_display_destroy of any address: only the thread that made the   *)
(* display finds it, and it is then removed from LVGL.                     *)
DestroyDisplay(t, h) == Idle(t) /\ (DestroyV8(t, h) \/ DestroyV9(t, h))

(* What a thread that captures gets. *)
Capture(t, h) == IF h \in Managed(t) THEN displays[t][h].shown ELSE None

-----------------------------------------------------------------------------
(* Flushes. *)

Fits(f) ==
  /\ 0 <= f.column[1] /\ 0 <= f.row[1]
  /\ IsWindow(f.column, Width) /\ IsWindow(f.row, Height)

(* LVGL packs the pixels of an area tightly (lvgl_v9.rs:141). *)
ASSUME FlushAssumption ==
  \A f \in Flushes : Fits(f) =>
    Len(f.pixels) = (f.column[2] - f.column[1] + 1) * (f.row[2] - f.row[1] + 1)

(* update_rgb565: row after row into the picture. *)
Updated(picture, f) ==
  LET width == f.column[2] - f.column[1] + 1
      Pixel(c) == f.pixels[(c[2] - f.row[1]) * width + (c[1] - f.column[1]) + 1]
  IN  [c \in Cells |->
         IF c[1] \in f.column[1] .. f.column[2] /\ c[2] \in f.row[1] .. f.row[2]
         THEN Pixel(c) ELSE picture[c]]

(* LVGL on thread t has rendered an area of display h, and waits until it  *)
(* is told that the area is done before it renders the next one.           *)
Flush(t, h, f) ==
  /\ Idle(t) /\ lvgl[h] = "rendering" /\ busy[h] = 0
  /\ flushes < MaxFlushes /\ flushes' = flushes + 1
  /\ busy' = [busy EXCEPT ![h] = 1]
  /\ IF h \notin Managed(t) THEN UNCHANGED <<work, displays, due>>
     ELSE LET d == displays[t][h] IN
          /\ work' = [work EXCEPT ![t] =
               [op |-> "flush", handle |-> h, area |-> f, ok |-> Fits(f), panel |-> d.panel,
                script |-> IF d.panel = None \/ ~Fits(f) THEN << >>
                           ELSE <<"CASET", "RASET", "RAMWR", "PIXELS">>]]
          /\ UNCHANGED <<displays, due>>
  /\ UNCHANGED <<active, lvgl, owner, bench, creates>>

(* The picture to capture is that of the controller if there is one. *)
Flushed(d, w) ==
  IF d.panel = None
  THEN [d EXCEPT !.shown = IF w.ok THEN Updated(d.shown, w.area) ELSE d.shown]
  ELSE [d EXCEPT !.panel = w.panel, !.shown = IF w.ok THEN w.panel.gram ELSE d.shown]

FinishQuietly(t) ==  \* mutant: LVGL is told only of areas that were taken
  /\ Running(t, "flush") /\ Script(t) = << >>
  /\ LET h == work[t].handle IN
     /\ displays' = [displays EXCEPT ![t][h] = Flushed(displays[t][h], work[t])]
     /\ busy' = IF work[t].ok THEN [busy EXCEPT ![h] = @ - 1] ELSE busy
     /\ due' = IF work[t].ok THEN [due EXCEPT ![h] = Updated(@, work[t].area)] ELSE due
  /\ work' = [work EXCEPT ![t] = NoWork]
  /\ UNCHANGED <<active, lvgl, owner, bench, creates, flushes>>
FinishFlush(t) ==
  /\ Running(t, "flush") /\ Script(t) = << >>
  /\ LET h == work[t].handle IN
     /\ displays' = [displays EXCEPT ![t][h] = Flushed(displays[t][h], work[t])]
     /\ busy' = [busy EXCEPT ![h] = @ - 1]
     /\ due' = IF work[t].ok THEN [due EXCEPT ![h] = Updated(@, work[t].area)] ELSE due
  /\ work' = [work EXCEPT ![t] = NoWork]
  /\ UNCHANGED <<active, lvgl, owner, bench, creates, flushes>>

-----------------------------------------------------------------------------
(* A controller that a test or a firmware adapter drives by hand, on a bus  *)
(* of its own.  It notes where the last whole transfer went.               *)

BenchStep(panel) ==
  /\ bench' = [bench EXCEPT !.panel = panel]
  /\ UNCHANGED <<active, displays, lvgl, busy, owner, work, due, creates, flushes>>

BenchReset == \E high \in BOOLEAN : BenchStep(SetReset(bench.panel, high))

BenchInitialize ==
  /\ MayInitialize(bench.panel)
  /\ BenchStep([SetInversion(SetMadctl(bench.panel, TDeck).panel, TRUE).panel
                  EXCEPT !.initialized = TRUE])

BenchCommand ==
  \/ \E m \in Orientations \cup {{}} : BenchStep(SetMadctl(bench.panel, m).panel)
  \/ \E f \in Flushes : 0 <= f.column[1] /\ 0 <= f.row[1] /\
       (BenchStep(SetColumn(bench.panel, f.column).panel) \/ BenchStep(SetRow(bench.panel, f.row).panel))
  \/ BenchStep(StartWrite(bench.panel).panel)
  \/ BenchStep(Malformed(bench.panel).panel)

BenchPixels ==
  \E f \in Flushes :
    LET result == WritePixels(bench.panel, f.pixels) IN
    /\ bench' = [panel |-> result.panel,
                 wrote |-> CASE result.ok -> [at |-> [i \in DOMAIN f.pixels |-> Target(bench.panel, i)],
                                              pixels |-> f.pixels]
                             [] ~result.ok /\ result.panel.gram = bench.panel.gram -> bench.wrote
                             [] OTHER -> None]
    /\ UNCHANGED <<active, displays, lvgl, busy, owner, work, due, creates, flushes>>

BenchNext == BenchReset \/ BenchInitialize \/ BenchCommand \/ BenchPixels

ThreadStep(t) ==
  BeginTransaction(t) \/ EndTransaction(t) \/ FinishV8(t) \/ FinishV9(t) \/ FinishFlush(t)

DisplayNext ==
  \/ OtherTransaction
  \/ \E t \in Threads :
       \/ EnterFirmware(t) \/ LeaveFirmware(t) \/ ThreadStep(t)
       \/ \E version \in Versions, fidelity \in BOOLEAN : CreateDisplay(t, version, fidelity)
       \/ \E h \in Handles : DestroyDisplay(t, h)
       \/ \E h \in Handles, f \in Flushes : Flush(t, h, f)

(* A thread that is inside a call of the bridge runs on until it returns: *)
(* no call waits for the bus.                                             *)
DisplayFairness == \A t \in Threads : WF_displayVars(ThreadStep(t))

DisplaySpec == DisplayInit /\ [][DisplayNext \/ BenchNext]_displayVars /\ DisplayFairness

-----------------------------------------------------------------------------
(* Properties. *)

Mirror(picture) == [c \in Cells |-> picture[<<Width - 1 - c[1], Height - 1 - c[2]>>]]

(* lvgl_v9.rs:5: "Capture therefore reads valid driver-owned memory".  A   *)
(* display that is not being flushed shows every area that went through    *)
(* all its transactions, in order, and no part of any other: neither what  *)
(* a refusal left selected in the controller nor a flush of another thread *)
(* displaces a pixel.  With the controller the picture is mirrored, as its *)
(* set-up mirrors both axes.                                               *)
CaptureIsWhole ==
  \A t \in Threads : \A h \in Managed(t) :
    ~(Running(t, "flush") /\ work[t].handle = h) =>
      Capture(t, h) = IF displays[t][h].panel = None THEN due[h] ELSE Mirror(due[h])

(* Whatever the bus refuses and whichever thread creates: LVGL renders to  *)
(* exactly the displays some thread keeps the state of, never to one whose *)
(* creation failed, and no two threads keep one display                    *)
(* (lvgl_v9.rs:258, lvgl_v8.rs:453).                                       *)
NothingHalfCreated ==
  /\ \A h \in Handles :
       /\ lvgl[h] = "rendering" <=> \E t \in Threads : h \in Managed(t)
       /\ lvgl[h] = "created" <=> \E t \in Threads : Running(t, "v9") /\ work[t].handle = h
  /\ \A t, u \in Threads : t # u => Managed(t) \cap Managed(u) = {}

(* lvgl_v9.rs:119: "LVGL requires completion exactly once even when an      *)
(* invalid area was rejected, otherwise its render pipeline remains         *)
(* permanently busy": a display whose own thread flushes it is told so, in  *)
(* spite of invalid areas and refused transactions, and told once.          *)
FlushIsAnswered ==
  \A h \in Handles :
    (\E t \in Threads : Running(t, "flush") /\ work[t].handle = h) ~> busy[h] = 0

(* A transfer that the controller took can be read back from GRAM, through *)
(* the orientation it was written with, until the next one: no orientation *)
(* and no window sends two pixels to one place, neither mirrored nor with  *)
(* exchanged axes (st7789.rs:142, st7789.rs:168).                          *)
ReadsBack ==
  bench.wrote # None =>
    \A i \in DOMAIN bench.wrote.pixels :
      bench.panel.gram[bench.wrote.at[i]] = bench.wrote.pixels[i]
=============================================================================
