---------------------------- MODULE DisplaysProofs ----------------------------
(***************************************************************************)
(* Proofs about St7789 and Displays for every size of panel, any colours,  *)
(* threads, handles, creations and flushes.  The argument: in a window the *)
(* number of a pixel and its place determine each other, and an            *)
(* orientation sends no two places to one; a thread holds the displays it  *)
(* keeps and the one it is creating, and nobody else touches those; and    *)
(* what is left of a program of transactions says how much of an area the  *)
(* controller has been told.                                               *)
(***************************************************************************)
EXTENDS Displays, SequenceTheorems, TLAPS

-----------------------------------------------------------------------------
(* Where the pixels of a transfer go. *)

Pictures == [Cells -> Colours]

(* A window as SetColumn and SetRow leave it. *)
HasWindow(p) == p.column[1] <= p.column[2] /\ p.row[1] <= p.row[2]

(* What the division of a pixel's number by the width of a line gives. *)
LEMMA Divided ==
  ASSUME NEW w \in Nat \ {0}, NEW k \in Nat
  PROVE  /\ k \div w \in Nat /\ k % w \in 0 .. w - 1
         /\ k = ((k \div w) * w) + (k % w)
  OBVIOUS

(* It is the only such pair. *)
LEMMA DividedOnce ==
  ASSUME NEW w \in Nat \ {0}, NEW q \in Int, NEW r \in 0 .. w - 1,
         NEW u \in Int, NEW v \in 0 .. w - 1, q * w + r = u * w + v
  PROVE  q = u /\ r = v
<1>1. ASSUME q < u PROVE FALSE
  <2>1. (q + 1) * w <= u * w
    BY <1>1
  <2>2. (q + 1) * w = q * w + w
    OBVIOUS
  <2> QED BY <2>1, <2>2
<1>2. ASSUME u < q PROVE FALSE
  <2>1. (u + 1) * w <= q * w
    BY <1>2
  <2>2. (u + 1) * w = u * w + w
    OBVIOUS
  <2> QED BY <2>1, <2>2
<1> QED BY <1>1, <1>2

(* The width of a window, and how the pixels are counted through it. *)
LEMMA WindowIsSized ==
  ASSUME NEW p \in Panels, HasWindow(p)
  PROVE  /\ WindowWidth(p) \in Nat \ {0}
         /\ p.column[1] \in Int /\ p.column[2] \in Int /\ p.row[1] \in Int /\ p.row[2] \in Int
         /\ WindowSize(p) \in Nat
<1>1. p.column \in Int \X Int /\ p.row \in Int \X Int
  BY DEF Panels
<1>2. p.column[1] \in Int /\ p.column[2] \in Int /\ p.row[1] \in Int /\ p.row[2] \in Int
  BY <1>1
<1>3. WindowWidth(p) \in Nat \ {0}
  BY <1>2 DEF WindowWidth, HasWindow
<1>4. p.row[2] - p.row[1] + 1 \in Nat
  BY <1>2 DEF HasWindow
<1> QED BY <1>2, <1>3, <1>4 DEF WindowSize

(* Two pixels of a transfer are addressed apart. *)
LEMMA AddressedOnce ==
  ASSUME NEW p \in Panels, HasWindow(p), NEW i \in Nat \ {0}, NEW j \in Nat \ {0},
         Addressed(p, i) = Addressed(p, j)
  PROVE  i = j
<1> DEFINE w == WindowWidth(p)
           m == i - 1
           n == j - 1
<1>1. w \in Nat \ {0} /\ p.column[1] \in Int /\ p.row[1] \in Int /\ m \in Nat /\ n \in Nat
  BY WindowIsSized
<1>2. /\ p.column[1] + (m % w) = p.column[1] + (n % w)
      /\ p.row[1] + (m \div w) = p.row[1] + (n \div w)
  BY DEF Addressed
<1> HIDE DEF w, m, n
<1>3. /\ m \div w \in Nat /\ m % w \in 0 .. w - 1 /\ m = ((m \div w) * w) + (m % w)
      /\ n \div w \in Nat /\ n % w \in 0 .. w - 1 /\ n = ((n \div w) * w) + (n % w)
  BY <1>1, Divided
<1>4. m \div w = n \div w /\ m % w = n % w
  BY <1>1, <1>2, <1>3
<1>5. m = n
  BY <1>3, <1>4
<1> QED BY <1>5 DEF m, n

(* Every pixel of a transfer is inside the window. *)
LEMMA AddressedInside ==
  ASSUME NEW p \in Panels, HasWindow(p), NEW i \in 1 .. WindowSize(p)
  PROVE  /\ Addressed(p, i) \in Int \X Int
         /\ Addressed(p, i)[1] \in p.column[1] .. p.column[2]
         /\ Addressed(p, i)[2] \in p.row[1] .. p.row[2]
<1> DEFINE w == WindowWidth(p)
           h == p.row[2] - p.row[1] + 1
           m == i - 1
<1>1. /\ w \in Nat \ {0} /\ w = p.column[2] - p.column[1] + 1 /\ h \in Nat
      /\ p.column[1] \in Int /\ p.column[2] \in Int /\ p.row[1] \in Int /\ p.row[2] \in Int
  BY WindowIsSized DEF WindowWidth, HasWindow
<1>2. m \in Nat /\ m < w * h
  BY WindowIsSized DEF WindowSize
<1>3. Addressed(p, i) = <<p.column[1] + (m % w), p.row[1] + (m \div w)>>
  BY DEF Addressed
<1>4. h = p.row[2] - p.row[1] + 1
  OBVIOUS
<1> HIDE DEF w, h, m
<1>5. m \div w \in Nat /\ m % w \in 0 .. w - 1 /\ m = ((m \div w) * w) + (m % w)
  BY <1>1, <1>2, Divided
<1>6. m \div w < h
  <2> DEFINE q == m \div w
  <2>1. ASSUME q >= h PROVE FALSE
    <3>1. q \in Nat /\ q * w <= m
      BY <1>1, <1>5
    <3> HIDE DEF q
    <3>2. q * w >= h * w
      BY <1>1, <2>1, <3>1
    <3> QED BY <1>1, <1>2, <3>1, <3>2
  <2> QED BY <1>1, <1>5, <2>1
<1>7. p.column[1] + (m % w) \in p.column[1] .. p.column[2]
  <2> DEFINE r == m % w
  <2>1. r \in Int /\ 0 <= r /\ r <= w - 1
    BY <1>1, <1>5
  <2> HIDE DEF r
  <2>2. p.column[1] + r \in p.column[1] .. p.column[2]
    BY <1>1, <2>1
  <2> QED BY <2>2 DEF r
<1>8. p.row[1] + (m \div w) \in p.row[1] .. p.row[2]
  <2> DEFINE q == m \div w
  <2>1. q \in Nat /\ q < h
    BY <1>5, <1>6
  <2> HIDE DEF q
  <2>2. p.row[1] + q \in p.row[1] .. p.row[2]
    BY <1>1, <1>4, <2>1
  <2> QED BY <2>2 DEF q
<1> QED BY <1>3, <1>7, <1>8

(* Every place of the window is addressed by some pixel: the one of its    *)
(* rank, line by line.                                                     *)
LEMMA AddressedAll ==
  ASSUME NEW p \in Panels, HasWindow(p),
         NEW x \in p.column[1] .. p.column[2], NEW y \in p.row[1] .. p.row[2]
  PROVE  LET i == (y - p.row[1]) * WindowWidth(p) + (x - p.column[1]) + 1
         IN  i \in 1 .. WindowSize(p) /\ Addressed(p, i) = <<x, y>>
<1> DEFINE w == WindowWidth(p)
           h == p.row[2] - p.row[1] + 1
           a == x - p.column[1]
           b == y - p.row[1]
           m == b * w + a
           i == (y - p.row[1]) * WindowWidth(p) + (x - p.column[1]) + 1
<1>1. /\ w \in Nat \ {0} /\ h \in Nat /\ a \in 0 .. w - 1 /\ b \in 0 .. h - 1
      /\ p.column[1] \in Int /\ p.row[1] \in Int /\ x \in Int /\ y \in Int
  BY WindowIsSized DEF WindowWidth, HasWindow
<1>2. x = p.column[1] + a /\ y = p.row[1] + b
  BY <1>1, WindowIsSized
<1>3. i = m + 1
  OBVIOUS
<1>4. WindowSize(p) = w * h /\ Addressed(p, m + 1) = <<p.column[1] + (((m + 1) - 1) % w), p.row[1] + (((m + 1) - 1) \div w)>>
  BY DEF WindowSize, Addressed
<1> HIDE DEF w, h, a, b, i
<1>5. m \in Nat /\ m < w * h
  <2>1. b * w \in Nat
    BY <1>1
  <2>2. (b + 1) * w <= h * w
    BY <1>1
  <2>3. (b + 1) * w = b * w + w
    BY <1>1
  <2> QED BY <1>1, <2>1, <2>2, <2>3
<1>6. m \div w = b /\ m % w = a
  <2>1. m \div w \in Nat /\ m % w \in 0 .. w - 1 /\ m = ((m \div w) * w) + (m % w)
    BY <1>1, <1>5, Divided
  <2> DEFINE u == m \div w
             v == m % w
  <2>2. b * w + a = u * w + v
    BY <2>1
  <2>3. b \in Int /\ u \in Int /\ v \in 0 .. w - 1
    BY <1>1, <2>1
  <2> HIDE DEF m, u, v
  <2>4. b = u /\ a = v
    BY <1>1, <2>2, <2>3, DividedOnce
  <2> QED BY <2>4 DEF u, v
<1> HIDE DEF m
<1>7. (m + 1) - 1 = m
  BY <1>5
<1>8. Addressed(p, i) = <<x, y>>
  BY <1>2, <1>3, <1>4, <1>6, <1>7
<1>9. i \in 1 .. WindowSize(p)
  BY <1>1, <1>3, <1>4, <1>5
<1> QED BY <1>8, <1>9 DEF i

(* No orientation sends two places to one. *)
LEMMA MappedOnce ==
  ASSUME NEW p, NEW c \in Int \X Int, NEW d \in Int \X Int,
         MapOrientation(p, c) = MapOrientation(p, d)
  PROVE  c = d
<1>1. Width \in Int /\ Height \in Int
  BY PanelAssumption
<1>2. c = <<c[1], c[2]>> /\ d = <<d[1], d[2]>> /\ c[1] \in Int /\ c[2] \in Int /\ d[1] \in Int /\ d[2] \in Int
  OBVIOUS
<1>3. CASE p.madctl = TDeck
  BY <1>1, <1>2, <1>3 DEF MapOrientation
<1>4. CASE p.madctl # TDeck
  <2>1. CASE "MV" \in p.madctl
    <3>1. c[1] = d[1] /\ c[2] = d[2]
      BY <1>1, <1>2, <1>4, <2>1 DEF MapOrientation
    <3> QED BY <1>2, <3>1
  <2>2. CASE "MV" \notin p.madctl
    <3>1. c[1] = d[1] /\ c[2] = d[2]
      BY <1>1, <1>2, <1>4, <2>2 DEF MapOrientation
    <3> QED BY <1>2, <3>1
  <2> QED BY <2>1, <2>2
<1> QED BY <1>3, <1>4

(* Nor does a transfer: two of its pixels never meet. *)
LEMMA TargetOnce ==
  ASSUME NEW p \in Panels, HasWindow(p),
         NEW i \in 1 .. WindowSize(p), NEW j \in 1 .. WindowSize(p), Target(p, i) = Target(p, j)
  PROVE  i = j
<1>1. Addressed(p, i) \in Int \X Int /\ Addressed(p, j) \in Int \X Int
  BY AddressedInside
<1>2. Addressed(p, i) = Addressed(p, j)
  BY <1>1, MappedOnce DEF Target
<1>3. i \in Nat \ {0} /\ j \in Nat \ {0}
  BY WindowIsSized
<1> QED BY <1>2, <1>3, AddressedOnce

(* What a transfer does to GRAM: the pixels before the first one outside   *)
(* the panel are where they were sent, all other cells are untouched.      *)
Landed(p, pixels) == {i \in DOMAIN pixels : \A j \in 1 .. i : Target(p, j) \in Cells}
Written(p, pixels, r) ==
  /\ r.ok <=> Landed(p, pixels) = DOMAIN pixels
  /\ r.panel = [p EXCEPT !.gram = r.panel.gram]
  /\ r.panel.gram \in Pictures
  /\ \A i \in Landed(p, pixels) :
       Target(p, i) \in Cells /\ r.panel.gram[Target(p, i)] = pixels[i]
  /\ \A c \in Cells :
       (\A i \in Landed(p, pixels) : Target(p, i) # c) => r.panel.gram[c] = p.gram[c]

LEMMA WhatIsWritten ==
  ASSUME NEW p \in Panels, HasWindow(p), NEW pixels \in Seq(Colours), TakesPixels(p, pixels)
  PROVE  Written(p, pixels, WritePixels(p, pixels))
<1> DEFINE landed == Landed(p, pixels)
           At(c)  == CHOOSE i \in landed : Target(p, i) = c
           gram   == [c \in Cells |->
                        IF \E i \in landed : Target(p, i) = c THEN pixels[At(c)] ELSE p.gram[c]]
           all    == landed = DOMAIN pixels
           r      == WritePixels(p, pixels)
<1>1. r = [ok |-> all, panel |-> [p EXCEPT !.gram = gram]]
  BY DEF WritePixels, Landed
<1>2. p.gram \in Pictures /\ [p EXCEPT !.gram = gram].gram = gram
  BY DEF Panels, Pictures
<1>3. DOMAIN pixels = 1 .. WindowSize(p) /\ \A i \in DOMAIN pixels : pixels[i] \in Colours
  BY WindowIsSized DEF TakesPixels
<1>4. /\ landed \subseteq DOMAIN pixels
      /\ \A i \in landed : \A j \in 1 .. i : Target(p, j) \in Cells
  BY DEF Landed
<1>5. ASSUME NEW c \in Cells, \E i \in landed : Target(p, i) = c
      PROVE  At(c) \in landed /\ Target(p, At(c)) = c
  BY <1>5
<1>6. ASSUME NEW i \in landed
      PROVE  Target(p, i) \in Cells /\ At(Target(p, i)) = i
  <2>1. i \in 1 .. WindowSize(p) /\ Target(p, i) \in Cells
    BY <1>3, <1>4, WindowIsSized
  <2>2. At(Target(p, i)) \in landed /\ Target(p, At(Target(p, i))) = Target(p, i)
    BY <1>5, <2>1
  <2>3. At(Target(p, i)) \in 1 .. WindowSize(p)
    BY <1>3, <1>4, <2>2
  <2> HIDE DEF At, landed
  <2> QED BY <2>1, <2>2, <2>3, TargetOnce
<1> HIDE DEF At, landed
<1>7. gram \in Pictures
  <2>1. ASSUME NEW c \in Cells PROVE gram[c] \in Colours
    <3>1. CASE \E i \in landed : Target(p, i) = c
      BY <3>1, <1>3, <1>4, <1>5
    <3>2. CASE ~\E i \in landed : Target(p, i) = c
      BY <3>2, <1>2 DEF Pictures
    <3> QED BY <3>1, <3>2
  <2> QED BY <2>1 DEF Pictures
<1>8. ASSUME NEW i \in landed PROVE gram[Target(p, i)] = pixels[i]
  BY <1>6, <1>8
<1>9. ASSUME NEW c \in Cells, \A i \in landed : Target(p, i) # c PROVE gram[c] = p.gram[c]
  BY <1>9
<1> HIDE DEF gram, all, r
<1>10. r.panel.gram = gram /\ r.panel = [p EXCEPT !.gram = gram] /\ (r.ok <=> all)
  <2> DEFINE q == [p EXCEPT !.gram = gram]
  <2>1. r = [ok |-> all, panel |-> q]
    BY <1>1
  <2> HIDE DEF q
  <2>2. r.panel = q
    BY <2>1
  <2>3. r.ok = all
    BY <2>1
  <2> QED BY <1>2, <2>2, <2>3 DEF q
<1>11. /\ \A i \in landed : Target(p, i) \in Cells /\ r.panel.gram[Target(p, i)] = pixels[i]
       /\ \A c \in Cells : (\A i \in landed : Target(p, i) # c) => r.panel.gram[c] = p.gram[c]
  BY <1>6, <1>8, <1>9, <1>10
<1> QED BY <1>7, <1>10, <1>11 DEF landed, all, r, Written

(* A controller as the set-up leaves it: any area that fits arrives whole, *)
(* mirrored on both axes, and nothing else changes.                        *)
Ready(p) ==
  p \in Panels /\ p.madctl = TDeck /\ p.initialized = TRUE /\ p.resetHigh = TRUE

LEMMA MirroredCells ==
  ASSUME NEW c \in Cells
  PROVE  LET d == <<Width - 1 - c[1], Height - 1 - c[2]>>
         IN  d \in Cells /\ c = <<Width - 1 - d[1], Height - 1 - d[2]>>
<1>1. Width \in Nat \ {0} /\ Height \in Nat \ {0}
  BY PanelAssumption
<1>2. c = <<c[1], c[2]>> /\ c[1] \in 0 .. Width - 1 /\ c[2] \in 0 .. Height - 1
  BY DEF Cells
<1> QED BY <1>1, <1>2 DEF Cells

(* The pixel of an area that a place of it gets. *)
LEMMA UpdatedCells ==
  ASSUME NEW q \in Pictures, NEW f \in Flushes, NEW c \in Cells
  PROVE  Updated(q, f)[c] =
           IF c[1] \in f.column[1] .. f.column[2] /\ c[2] \in f.row[1] .. f.row[2]
           THEN f.pixels[(c[2] - f.row[1]) * (f.column[2] - f.column[1] + 1)
                           + (c[1] - f.column[1]) + 1]
           ELSE q[c]
  BY DEF Updated

LEMMA TransferArrives ==
  ASSUME NEW p \in Panels, Ready(p), p.ramWrite = TRUE, NEW f \in Flushes, Fits(f),
         p.column = f.column, p.row = f.row, NEW q \in Pictures, p.gram = Mirror(q)
  PROVE  LET r == WritePixels(p, f.pixels)
         IN  /\ r.ok
             /\ r.panel = [p EXCEPT !.gram = r.panel.gram]
             /\ r.panel.gram \in Pictures
             /\ r.panel.gram = Mirror(Updated(q, f))
<1> DEFINE r      == WritePixels(p, f.pixels)
           landed == Landed(p, f.pixels)
<1>1. HasWindow(p)
  BY DEF Fits, IsWindow, HasWindow
<1>2. f.pixels \in Seq(Colours) /\ Len(f.pixels) = WindowSize(p)
  BY DisplayAssumption, FlushAssumption DEF WindowSize, WindowWidth
<1>3. TakesPixels(p, f.pixels)
  BY <1>2 DEF TakesPixels, Ready
<1>4. /\ f.column[1] \in Int /\ f.column[2] \in Int /\ f.row[1] \in Int /\ f.row[2] \in Int
      /\ 0 <= f.column[1] /\ 0 <= f.row[1] /\ f.column[2] < Width /\ f.row[2] < Height
      /\ Width \in Nat /\ Height \in Nat
  BY DisplayAssumption, PanelAssumption DEF Fits, IsWindow
<1>5. ASSUME NEW a \in Int \X Int
      PROVE  MapOrientation(p, a) = <<Width - 1 - a[1], Height - 1 - a[2]>>
  BY DEF MapOrientation, Ready
<1>6. ASSUME NEW i \in 1 .. WindowSize(p)
      PROVE  LET a == Addressed(p, i)
             IN  /\ a \in Int \X Int /\ a[1] \in f.column[1] .. f.column[2] /\ a[2] \in f.row[1] .. f.row[2]
                 /\ Target(p, i) = <<Width - 1 - a[1], Height - 1 - a[2]>>
                 /\ Target(p, i) \in Cells
  <2> DEFINE a == Addressed(p, i)
  <2>1. a \in Int \X Int /\ a[1] \in f.column[1] .. f.column[2] /\ a[2] \in f.row[1] .. f.row[2]
    BY <1>1, AddressedInside
  <2>2. Target(p, i) = <<Width - 1 - a[1], Height - 1 - a[2]>>
    BY <1>5, <2>1 DEF Target
  <2> HIDE DEF a
  <2>3. a[1] \in 0 .. Width - 1 /\ a[2] \in 0 .. Height - 1
    BY <1>4, <2>1
  <2>4. Target(p, i) \in Cells
    BY <1>4, <2>2, <2>3 DEF Cells
  <2> QED BY <2>1, <2>2, <2>4 DEF a
<1>7. DOMAIN f.pixels = 1 .. WindowSize(p) /\ WindowSize(p) \in Nat
  BY <1>1, <1>2, WindowIsSized
<1>8. landed = DOMAIN f.pixels
  <2>1. ASSUME NEW i \in 1 .. WindowSize(p), NEW j \in 1 .. i PROVE Target(p, j) \in Cells
    <3>1. j \in 1 .. WindowSize(p)
      BY <1>7
    <3> QED BY <1>6, <3>1
  <2> QED BY <1>7, <2>1 DEF Landed
<1>9. /\ r.ok <=> landed = DOMAIN f.pixels
      /\ r.panel = [p EXCEPT !.gram = r.panel.gram] /\ r.panel.gram \in Pictures
      /\ \A i \in landed : r.panel.gram[Target(p, i)] = f.pixels[i]
      /\ \A c \in Cells : (\A i \in landed : Target(p, i) # c) => r.panel.gram[c] = p.gram[c]
  <2>1. Written(p, f.pixels, WritePixels(p, f.pixels))
    BY <1>1, <1>2, <1>3, WhatIsWritten
  <2> QED BY <2>1 DEF Written
<1> HIDE DEF r, landed
<1>10. ASSUME NEW c \in Cells
       PROVE  r.panel.gram[c] = Mirror(Updated(q, f))[c]
  <2> DEFINE d == <<Width - 1 - c[1], Height - 1 - c[2]>>
  <2>1. d \in Cells /\ c = <<Width - 1 - d[1], Height - 1 - d[2]>>
    BY MirroredCells
  <2>2. Mirror(Updated(q, f))[c] = Updated(q, f)[d] /\ p.gram[c] = q[d]
    BY DEF Mirror
  <2>3. d[1] \in 0 .. Width - 1 /\ d[2] \in 0 .. Height - 1
    BY <2>1 DEF Cells
  <2> HIDE DEF d
  <2>4. d = <<d[1], d[2]>> /\ d \in Int \X Int
    BY <1>4, <2>1 DEF Cells
  <2>5. CASE d[1] \in f.column[1] .. f.column[2] /\ d[2] \in f.row[1] .. f.row[2]
    <3> DEFINE i == (d[2] - f.row[1]) * (f.column[2] - f.column[1] + 1) + (d[1] - f.column[1]) + 1
    <3>1. i \in 1 .. WindowSize(p) /\ Addressed(p, i) = <<d[1], d[2]>>
      BY <1>1, <2>5, AddressedAll DEF WindowWidth
    <3>2. Updated(q, f)[d] = f.pixels[i]
      BY <2>1, <2>5, UpdatedCells
    <3> HIDE DEF i
    <3>3. Target(p, i) = c
      BY <1>6, <2>1, <3>1
    <3>4. r.panel.gram[Target(p, i)] = f.pixels[i]
      BY <1>7, <1>8, <1>9, <3>1
    <3> QED BY <2>2, <3>2, <3>3, <3>4
  <2>6. CASE ~(d[1] \in f.column[1] .. f.column[2] /\ d[2] \in f.row[1] .. f.row[2])
    <3>1. Updated(q, f)[d] = q[d]
      BY <2>1, <2>6, UpdatedCells
    <3>2. ASSUME NEW i \in landed, Target(p, i) = c PROVE FALSE
      <4>1. i \in 1 .. WindowSize(p)
        BY <1>7, <1>8
      <4> DEFINE a == Addressed(p, i)
      <4>2. /\ a \in Int \X Int /\ a[1] \in f.column[1] .. f.column[2] /\ a[2] \in f.row[1] .. f.row[2]
            /\ c = <<Width - 1 - a[1], Height - 1 - a[2]>>
        BY <1>6, <3>2, <4>1
      <4> HIDE DEF a
      <4>3. Width - 1 - a[1] = Width - 1 - d[1] /\ Height - 1 - a[2] = Height - 1 - d[2]
        BY <2>1, <4>2
      <4>4. a[1] = d[1] /\ a[2] = d[2]
        BY <1>4, <2>3, <4>2, <4>3
      <4> QED BY <2>6, <4>2, <4>4
    <3> QED BY <1>9, <2>2, <3>1, <3>2
  <2> QED BY <2>5, <2>6
<1>11. r.panel.gram = Mirror(Updated(q, f))
  <2> DEFINE g == r.panel.gram
             m == Mirror(Updated(q, f))
  <2>1. g \in Pictures
    BY <1>9
  <2>2. m = [c \in Cells |-> m[c]]
    BY DEF Mirror
  <2>3. \A c \in Cells : g[c] = m[c]
    BY <1>10
  <2> HIDE DEF g, m
  <2>4. g = m
    BY <2>1, <2>2, <2>3 DEF Pictures
  <2> QED BY <2>4 DEF g, m
<1> QED BY <1>8, <1>9, <1>11 DEF r

-----------------------------------------------------------------------------
(* The controller that is driven by hand. *)

Kept == bench.wrote # None =>
  \A i \in DOMAIN bench.wrote.pixels :
    /\ bench.wrote.at[i] \in Cells
    /\ bench.panel.gram[bench.wrote.at[i]] = bench.wrote.pixels[i]

BenchInv ==
  /\ bench = [panel |-> bench.panel, wrote |-> bench.wrote]
  /\ bench.panel \in Panels /\ HasWindow(bench.panel)
  /\ Kept

LEMMA NewPanelIsOne == NewPanel \in Panels /\ HasWindow(NewPanel)
<1>1. Width \in Nat \ {0} /\ Height \in Nat \ {0} /\ Black \in Colours
  BY PanelAssumption
<1>2. Cleared \in [Cells -> Colours]
  BY <1>1 DEF Cleared
<1> QED BY <1>1, <1>2 DEF NewPanel, Panels, HasWindow, Orientations

(* No command but a transfer touches GRAM, and none leaves a window that   *)
(* is not one.                                                             *)
Harmless(p, q) == q \in Panels /\ HasWindow(q) /\ q.gram = p.gram

LEMMA CommandsAreHarmless ==
  ASSUME NEW p \in Panels, HasWindow(p)
  PROVE  /\ \A high \in BOOLEAN : Harmless(p, SetReset(p, high))
         /\ \A m \in Orientations : Harmless(p, SetMadctl(p, m).panel)
         /\ \A on \in BOOLEAN : Harmless(p, SetInversion(p, on).panel)
         /\ \A w \in Int \X Int : /\ Harmless(p, SetColumn(p, w).panel)
                                  /\ Harmless(p, SetRow(p, w).panel)
         /\ Harmless(p, StartWrite(p).panel) /\ Harmless(p, Malformed(p).panel)
         /\ Harmless(p, [p EXCEPT !.initialized = TRUE])
<1>1. Harmless(p, Deselected(p)) /\ Harmless(p, StartWrite(p).panel)
  BY DEF Deselected, Harmless, HasWindow, Panels, StartWrite, Done
<1>2. Harmless(p, Malformed(p).panel)
  BY <1>1 DEF Malformed, Refused
<1>3. \A high \in BOOLEAN : Harmless(p, SetReset(p, high))
  BY DEF SetReset, Harmless, HasWindow, Panels, Orientations
<1>4. \A m \in Orientations : Harmless(p, SetMadctl(p, m).panel)
  BY <1>1 DEF SetMadctl, Done, Harmless, HasWindow, Panels
<1>5. \A on \in BOOLEAN : Harmless(p, SetInversion(p, on).panel)
  BY <1>1 DEF SetInversion, Done, Harmless, HasWindow, Panels
<1>6. \A w \in Int \X Int : Harmless(p, SetColumn(p, w).panel)
  BY <1>1, <1>2 DEF SetColumn, Done, Harmless, HasWindow, Panels, IsWindow
<1>7. \A w \in Int \X Int : Harmless(p, SetRow(p, w).panel)
  BY <1>1, <1>2 DEF SetRow, Done, Harmless, HasWindow, Panels, IsWindow
<1>8. Harmless(p, [p EXCEPT !.initialized = TRUE])
  BY DEF Harmless, HasWindow, Panels
<1> QED BY <1>1, <1>2, <1>3, <1>4, <1>5, <1>6, <1>7, <1>8

LEMMA BenchStepKeeps ==
  ASSUME BenchInv, NEW q, Harmless(bench.panel, q), BenchStep(q)
  PROVE  BenchInv'
<1>1. bench' = [bench EXCEPT !.panel = q]
  BY DEF BenchStep
<1>2. bench'.panel = q /\ bench'.wrote = bench.wrote /\ bench' = [panel |-> q, wrote |-> bench.wrote]
  BY <1>1 DEF BenchInv
<1> QED BY <1>2 DEF BenchInv, Harmless, Kept

LEMMA BenchPixelsKeeps ==
  ASSUME BenchInv, BenchPixels
  PROVE  BenchInv'
<1> DEFINE p == bench.panel
<1>1. PICK f \in Flushes :
        LET result == WritePixels(p, f.pixels) IN
        bench' = [panel |-> result.panel,
                  wrote |-> CASE result.ok -> [at |-> [i \in DOMAIN f.pixels |-> Target(p, i)],
                                               pixels |-> f.pixels]
                              [] ~result.ok /\ result.panel.gram = p.gram -> bench.wrote
                              [] OTHER -> None]
  BY DEF BenchPixels
<1> DEFINE r      == WritePixels(p, f.pixels)
           landed == Landed(p, f.pixels)
           wrote  == [at |-> [i \in DOMAIN f.pixels |-> Target(p, i)], pixels |-> f.pixels]
<1>2. p \in Panels /\ HasWindow(p) /\ f.pixels \in Seq(Colours)
  BY DisplayAssumption DEF BenchInv
<1>3. CASE ~TakesPixels(p, f.pixels)
  <2>1. r = [ok |-> FALSE, panel |-> p]
    BY <1>3 DEF WritePixels, Refused
  <2>2. bench' = [panel |-> p, wrote |-> bench.wrote]
    BY <1>1, <2>1
  <2> QED BY <2>2 DEF BenchInv, Kept
<1>4. CASE TakesPixels(p, f.pixels)
  <2>1. /\ r.ok <=> landed = DOMAIN f.pixels
        /\ r.panel = [p EXCEPT !.gram = r.panel.gram] /\ r.panel.gram \in Pictures
        /\ \A i \in landed : Target(p, i) \in Cells /\ r.panel.gram[Target(p, i)] = f.pixels[i]
    <3>1. Written(p, f.pixels, WritePixels(p, f.pixels))
      BY <1>2, <1>4, WhatIsWritten
    <3> QED BY <3>1 DEF Written
  <2>2. r.panel \in Panels /\ HasWindow(r.panel)
    <3> DEFINE g == r.panel.gram
    <3>1. r.panel = [p EXCEPT !.gram = g] /\ g \in Pictures
      BY <2>1
    <3> HIDE DEF g, r
    <3> QED BY <1>2, <3>1 DEF Panels, Pictures, HasWindow
  <2> HIDE DEF r, landed, p
  <2>3. CASE r.ok
    <3>1. bench' = [panel |-> r.panel, wrote |-> wrote]
      BY <1>1, <2>3 DEF r
    <3>2. \A i \in DOMAIN f.pixels : wrote.at[i] \in Cells /\ r.panel.gram[wrote.at[i]] = f.pixels[i]
      BY <2>1, <2>3
    <3>3. wrote.pixels = f.pixels
      OBVIOUS
    <3> HIDE DEF wrote
    <3> QED BY <2>2, <3>1, <3>2, <3>3 DEF BenchInv, Kept
  <2>4. CASE ~r.ok /\ r.panel.gram = p.gram
    <3>1. bench' = [panel |-> r.panel, wrote |-> bench.wrote]
      BY <1>1, <2>4 DEF r
    <3> QED BY <2>2, <2>4, <3>1 DEF BenchInv, Kept, p
  <2>5. CASE ~r.ok /\ r.panel.gram # p.gram
    <3>1. bench' = [panel |-> r.panel, wrote |-> None]
      BY <1>1, <2>5 DEF r
    <3> QED BY <2>2, <3>1 DEF BenchInv, Kept
  <2> QED BY <2>3, <2>4, <2>5
<1> QED BY <1>3, <1>4

LEMMA BenchNextKeeps ==
  ASSUME BenchInv, BenchNext
  PROVE  BenchInv'
<1> DEFINE p == bench.panel
<1>1. p \in Panels /\ HasWindow(p)
  BY DEF BenchInv
<1>2. CASE BenchReset
  BY <1>1, <1>2, CommandsAreHarmless, BenchStepKeeps DEF BenchReset
<1>3. CASE BenchInitialize
  <2> DEFINE a == SetMadctl(p, TDeck).panel
             b == SetInversion(a, TRUE).panel
             c == [b EXCEPT !.initialized = TRUE]
  <2>1. Harmless(p, a)
    BY <1>1, CommandsAreHarmless DEF Orientations
  <2>2. Harmless(a, b)
    BY <2>1, CommandsAreHarmless DEF Harmless
  <2>3. Harmless(b, c)
    BY <2>2, CommandsAreHarmless DEF Harmless
  <2>4. Harmless(p, c)
    BY <2>1, <2>2, <2>3 DEF Harmless
  <2>5. BenchStep(c)
    BY <1>3 DEF BenchInitialize
  <2> QED BY <2>4, <2>5, BenchStepKeeps
<1>4. CASE BenchCommand
  <2>1. \A f \in Flushes : f.column \in Int \X Int /\ f.row \in Int \X Int
    BY DisplayAssumption
  <2>2. \E q : Harmless(p, q) /\ BenchStep(q)
    BY <1>1, <1>4, <2>1, CommandsAreHarmless DEF BenchCommand, Orientations
  <2> QED BY <2>2, BenchStepKeeps
<1>5. CASE BenchPixels
  BY <1>5, BenchPixelsKeeps
<1> QED BY <1>2, <1>3, <1>4, <1>5 DEF BenchNext

-----------------------------------------------------------------------------
(* The inductive invariant of the displays. *)

CommandNames == {"MADCTL", "INVON", "CASET", "RASET", "RAMWR", "PIXELS"}
Setup == <<"MADCTL", "INVON">>
Transfer == <<"CASET", "RASET", "RAMWR", "PIXELS">>

(* What is left of a program. *)
EndOf(s, program) ==
  /\ s \in Seq(CommandNames) /\ Len(s) <= Len(program)
  /\ \A i \in 1 .. Len(s) : s[i] = program[Len(program) - Len(s) + i]

Creation8 == [op : {"v8"}, script : Seq(CommandNames), ok : BOOLEAN, panel : Panels]
Creation9 ==
  [op : {"v9"}, script : Seq(CommandNames), ok : BOOLEAN, panel : Panels, handle : Handles]
Flushing ==
  [op : {"flush"}, handle : Handles, area : Flushes, ok : BOOLEAN,
   panel : Panels \cup {None}, script : Seq(CommandNames)]

Entries == [version : {8, 9}, panel : Panels \cup {None}, shown : Pictures]

(* A display shows a picture: with a controller, mirrored, and the         *)
(* controller has it too.                                                  *)
Shows(d, picture) ==
  IF d.panel = None THEN d.shown = picture
  ELSE Ready(d.panel) /\ d.panel.gram = Mirror(picture) /\ d.shown = Mirror(picture)

(* A creation that sets its controller up. *)
SettingUp(w) ==
  /\ EndOf(w.script, Setup) /\ w.panel.gram = Cleared /\ w.panel.resetHigh = TRUE
  /\ w.ok /\ Len(w.script) < 2 => w.panel.madctl = TDeck
  /\ ~w.ok => w.script = << >>

(* A flush: until its last transaction the controller has the old picture, *)
(* after it the new one.                                                   *)
Selected(w) ==
  /\ Len(w.script) < 4 => w.panel.column = w.area.column
  /\ Len(w.script) < 3 => w.panel.row = w.area.row
  /\ Len(w.script) < 2 => w.panel.ramWrite = TRUE
Sent(w, picture) ==
  IF w.ok /\ w.script = << >> THEN Mirror(Updated(picture, w.area)) ELSE Mirror(picture)
Sending(w, d, picture) ==
  /\ w.ok => Fits(w.area)
  /\ ~w.ok => w.script = << >>
  /\ d.panel = None => w.panel = None /\ w.script = << >>
  /\ d.panel # None =>
       /\ Ready(w.panel) /\ EndOf(w.script, Transfer)
       /\ w.ok => Selected(w)
       /\ w.panel.gram = Sent(w, picture)

WorkInv(t) ==
  \/ Idle(t)
  \/ work[t] \in Creation8 /\ SettingUp(work[t])
  \/ work[t] \in Creation9 /\ SettingUp(work[t]) /\ lvgl[work[t].handle] = "created"
  \/ /\ work[t] \in Flushing /\ work[t].handle \in Managed(t) /\ busy[work[t].handle] = 1
     /\ Sending(work[t], displays[t][work[t].handle], due[work[t].handle])

(* The displays a thread has, or is about to have. *)
Holds(t) == Managed(t) \cup {h \in Handles : Running(t, "v9") /\ work[t].handle = h}

TableInv(t) ==
  /\ Managed(t) \subseteq Handles
  /\ \A h \in Managed(t) :
       displays[t][h] \in Entries /\ Shows(displays[t][h], due[h]) /\ lvgl[h] = "rendering"

ThreadInv(t) ==
  /\ TableInv(t) /\ WorkInv(t)
  /\ owner = t => ~Idle(t) /\ Script(t) # << >>

HandlesInv ==
  /\ DOMAIN displays = Threads /\ DOMAIN work = Threads
  /\ lvgl \in [Handles -> {"free", "created", "rendering"}]
  /\ busy \in [Handles -> {0, 1}] /\ due \in [Handles -> Pictures]
  /\ \A h \in Handles : lvgl[h] # "free" => \E t \in Threads : h \in Holds(t)
  /\ \A t, u \in Threads : t # u => Holds(t) \cap Holds(u) = {}

DisplayInv == HandlesInv /\ \A t \in Threads : ThreadInv(t)

LEMMA DisplayInitInv ==
  ASSUME DisplayInit
  PROVE  DisplayInv /\ BenchInv
<1>1. Black \in Colours
  BY PanelAssumption
<1>2. Cleared \in Pictures
  BY <1>1 DEF Cleared, Pictures
<1>3. DOMAIN << >> = {}
  OBVIOUS
<1>4. ASSUME NEW t \in Threads
      PROVE  Managed(t) = {} /\ Idle(t) /\ Holds(t) = {} /\ owner # t
  <2>1. Managed(t) = {} /\ work[t] = NoWork
    BY <1>3 DEF DisplayInit, Managed
  <2>2. work[t].op # "v9"
    BY <2>1 DEF NoWork
  <2> QED BY <2>1, <2>2, DisplayAssumption DEF Idle, Holds, Running, DisplayInit
<1>5. HandlesInv
  BY <1>2, <1>4 DEF HandlesInv, DisplayInit
<1>6. \A t \in Threads : ThreadInv(t)
  BY <1>4 DEF ThreadInv, TableInv, WorkInv
<1>7. BenchInv
  BY NewPanelIsOne DEF BenchInv, Kept, DisplayInit
<1> QED BY <1>5, <1>6, <1>7 DEF DisplayInv

(* What a thread that runs is running. *)
LEMMA WhatRuns ==
  ASSUME NEW t \in Threads, ThreadInv(t)
  PROVE  /\ Running(t, "v8") => work[t] \in Creation8 /\ SettingUp(work[t])
         /\ Running(t, "v9") => /\ work[t] \in Creation9 /\ SettingUp(work[t])
                                /\ lvgl[work[t].handle] = "created"
         /\ Running(t, "flush") =>
              /\ work[t] \in Flushing /\ work[t].handle \in Managed(t) /\ busy[work[t].handle] = 1
              /\ Sending(work[t], displays[t][work[t].handle], due[work[t].handle])
         /\ Idle(t) => ~Running(t, "v8") /\ ~Running(t, "v9") /\ ~Running(t, "flush")
         /\ Idle(t) \/ Running(t, "v8") \/ Running(t, "v9") \/ Running(t, "flush")
<1>1. Idle(t) => work[t].op = "none"
  BY DEF Idle, NoWork
<1>2. work[t] \in Creation8 => work[t].op = "v8"
  BY DEF Creation8
<1>3. work[t] \in Creation9 => work[t].op = "v9"
  BY DEF Creation9
<1>4. work[t] \in Flushing => work[t].op = "flush"
  BY DEF Flushing
<1> QED BY <1>1, <1>2, <1>3, <1>4 DEF ThreadInv, WorkInv, Running

(* What a step of another thread must leave alone. *)
LEMMA OthersKeep ==
  ASSUME NEW u \in Threads, ThreadInv(u), work'[u] = work[u], displays'[u] = displays[u],
         \A h \in Holds(u) : lvgl'[h] = lvgl[h] /\ due'[h] = due[h],
         Running(u, "flush") => busy'[work[u].handle] = busy[work[u].handle],
         owner' = u => owner = u \/ (~Idle(u) /\ Script(u) # << >>)
  PROVE  ThreadInv(u)' /\ Holds(u)' = Holds(u)
<1>1. Managed(u)' = Managed(u) /\ Managed(u) \subseteq Holds(u)
  BY DEF Managed, Holds
<1>2. TableInv(u)'
  BY <1>1 DEF ThreadInv, TableInv
<1>3. Holds(u)' = Holds(u) /\ Script(u)' = Script(u) /\ Idle(u)' = Idle(u)
  BY <1>1 DEF Holds, Running, Script, Idle
<1>4. WorkInv(u)'
  <2>1. CASE Running(u, "v9")
    <3>1. work[u] \in Creation9 /\ SettingUp(work[u]) /\ lvgl[work[u].handle] = "created"
      BY <2>1, WhatRuns
    <3>2. work[u].handle \in Holds(u)
      BY <2>1, <3>1 DEF Holds, Creation9
    <3> QED BY <3>1, <3>2 DEF WorkInv
  <2>2. CASE Running(u, "flush")
    <3>1. /\ work[u] \in Flushing /\ work[u].handle \in Managed(u) /\ busy[work[u].handle] = 1
          /\ Sending(work[u], displays[u][work[u].handle], due[work[u].handle])
      BY <2>2, WhatRuns
    <3> QED BY <1>1, <2>2, <3>1 DEF WorkInv
  <2>3. CASE ~Running(u, "v9") /\ ~Running(u, "flush")
    <3>1. Idle(u) \/ (work[u] \in Creation8 /\ SettingUp(work[u]))
      BY <2>3, WhatRuns
    <3> QED BY <3>1 DEF WorkInv, Idle
  <2> QED BY <2>1, <2>2, <2>3
<1> QED BY <1>2, <1>3, <1>4 DEF ThreadInv

(* A step of thread t: what it takes was free, what it gives up is free,   *)
(* and it touches the displays of no other.                                *)
StepOf(t) ==
  /\ DOMAIN displays' = Threads /\ DOMAIN work' = Threads
  /\ lvgl' \in [Handles -> {"free", "created", "rendering"}]
  /\ busy' \in [Handles -> {0, 1}] /\ due' \in [Handles -> Pictures]
  /\ \A u \in Threads \ {t} :
       work'[u] = work[u] /\ displays'[u] = displays[u] /\ (owner' = u => owner = u)
  /\ \A h \in Handles \ (Holds(t) \cup Holds(t)') : lvgl'[h] = lvgl[h] /\ due'[h] = due[h]
  /\ \A h \in Handles : busy'[h] = busy[h] \/ h \in Holds(t) \cup Holds(t)' \/ busy[h] = 0
  /\ \A h \in Holds(t)' \ Holds(t) : lvgl[h] = "free"
  /\ \A h \in Holds(t) \ Holds(t)' : lvgl'[h] = "free"
  /\ ThreadInv(t)'

(* What somebody holds is not free. *)
LEMMA HeldIsNotFree ==
  ASSUME NEW u \in Threads, ThreadInv(u), NEW h \in Holds(u)
  PROVE  h \in Handles /\ lvgl[h] # "free"
<1>1. CASE h \in Managed(u)
  BY <1>1 DEF ThreadInv, TableInv
<1>2. CASE h \notin Managed(u)
  BY <1>2, WhatRuns DEF Holds
<1> QED BY <1>1, <1>2

LEMMA StepKeeps ==
  ASSUME DisplayInv, NEW t \in Threads, StepOf(t)
  PROVE  DisplayInv'
<1> DEFINE H == Holds(t)
           N == Holds(t)'
<1>1. ASSUME NEW u \in Threads \ {t}, NEW h \in Holds(u)
      PROVE  h \in Handles /\ h \notin H /\ h \notin N
  <2>1. h \in Handles /\ lvgl[h] # "free"
    BY HeldIsNotFree DEF DisplayInv
  <2>2. h \notin H
    BY DEF DisplayInv, HandlesInv
  <2> QED BY <2>1, <2>2 DEF StepOf
<1>2. ASSUME NEW u \in Threads \ {t}
      PROVE  ThreadInv(u)' /\ Holds(u)' = Holds(u)
  <2>1. ThreadInv(u) /\ work'[u] = work[u] /\ displays'[u] = displays[u] /\ (owner' = u => owner = u)
    BY DEF DisplayInv, StepOf
  <2>2. \A h \in Holds(u) : lvgl'[h] = lvgl[h] /\ due'[h] = due[h]
    BY <1>1 DEF StepOf
  <2>3. ASSUME Running(u, "flush")
        PROVE  busy'[work[u].handle] = busy[work[u].handle]
    <3>1. work[u].handle \in Holds(u) /\ busy[work[u].handle] = 1
      BY <2>1, <2>3, WhatRuns DEF Holds
    <3> QED BY <1>1, <3>1 DEF StepOf
  <2> QED BY <2>1, <2>2, <2>3, OthersKeep
<1>3. \A u \in Threads : ThreadInv(u)'
  BY <1>2 DEF StepOf
<1>4. \A u, v \in Threads : u # v => Holds(u)' \cap Holds(v)' = {}
  <2>1. \A u, v \in Threads \ {t} : u # v => Holds(u)' \cap Holds(v)' = {}
    BY <1>2 DEF DisplayInv, HandlesInv
  <2>2. \A u \in Threads \ {t} : Holds(u)' \cap N = {}
    BY <1>1, <1>2
  <2> QED BY <2>1, <2>2
<1>5. ASSUME NEW h \in Handles, lvgl'[h] # "free"
      PROVE  \E u \in Threads : h \in Holds(u)'
  <2>1. CASE h \in N
    BY <2>1
  <2>2. CASE h \notin N
    <3>1. h \notin H
      BY <1>5, <2>2 DEF StepOf
    <3>2. lvgl[h] # "free"
      BY <1>5, <2>2, <3>1 DEF StepOf
    <3>3. PICK u \in Threads : h \in Holds(u)
      BY <3>2 DEF DisplayInv, HandlesInv
    <3>4. u # t
      BY <3>1, <3>3
    <3> QED BY <1>2, <3>3, <3>4
  <2> QED BY <2>1, <2>2
<1>6. HandlesInv'
  BY <1>4, <1>5 DEF HandlesInv, StepOf
<1> QED BY <1>3, <1>6 DEF DisplayInv

(* A step that changes nothing of the displays but who owns the bus. *)
LEMMA BystandersKeep ==
  ASSUME DisplayInv, UNCHANGED <<displays, lvgl, busy, work, due>>,
         \A u \in Threads : owner' = u => owner = u \/ (~Idle(u) /\ Script(u) # << >>)
  PROVE  DisplayInv'
<1>1. ASSUME NEW u \in Threads
      PROVE  ThreadInv(u)' /\ Holds(u)' = Holds(u)
  BY OthersKeep DEF DisplayInv
<1>2. HandlesInv'
  BY <1>1 DEF DisplayInv, HandlesInv
<1> QED BY <1>1, <1>2 DEF DisplayInv

LEMMA OtherTransactionKeeps ==
  ASSUME DisplayInv, OtherTransaction
  PROVE  DisplayInv'
<1>1. \A u \in Threads : owner' # u
  BY DisplayAssumption DEF OtherTransaction
<1> QED BY <1>1, BystandersKeep DEF OtherTransaction

-----------------------------------------------------------------------------
(* Transactions. *)

(* The next command of a program, and what is left after it. *)
LEMMA NextOf ==
  ASSUME NEW s, NEW program \in Seq(CommandNames), EndOf(s, program), s # << >>
  PROVE  /\ Len(s) \in 1 .. Len(program)
         /\ Head(s) = program[Len(program) - Len(s) + 1]
         /\ EndOf(Tail(s), program) /\ Len(Tail(s)) = Len(s) - 1
<1>1. s \in Seq(CommandNames) /\ Len(s) \in Nat /\ Len(s) <= Len(program) /\ Len(program) \in Nat
  BY DEF EndOf
<1>2. Len(s) \in 1 .. Len(program) /\ Head(s) = s[1]
  BY <1>1
<1>3. /\ Tail(s) \in Seq(CommandNames) /\ Len(Tail(s)) = Len(s) - 1
      /\ \A i \in 1 .. Len(s) - 1 : Tail(s)[i] = s[i + 1]
  BY <1>1, HeadTailProperties
<1>4. \A i \in 1 .. Len(Tail(s)) : Tail(s)[i] = program[Len(program) - Len(Tail(s)) + i]
  <2> SUFFICES ASSUME NEW i \in 1 .. Len(s) - 1
               PROVE  Tail(s)[i] = program[Len(program) - (Len(s) - 1) + i]
    BY <1>3
  <2>1. s[i + 1] = program[Len(program) - Len(s) + (i + 1)]
    BY <1>1 DEF EndOf
  <2>2. Len(program) - Len(s) + (i + 1) = Len(program) - (Len(s) - 1) + i
    BY <1>1
  <2> QED BY <1>3, <2>1, <2>2
<1>5. Head(s) = program[Len(program) - Len(s) + 1]
  BY <1>1, <1>2 DEF EndOf
<1> QED BY <1>1, <1>2, <1>3, <1>4, <1>5 DEF EndOf

LEMMA Programs ==
  /\ Setup \in Seq(CommandNames) /\ Len(Setup) = 2 /\ Setup[1] = "MADCTL" /\ Setup[2] = "INVON"
  /\ Transfer \in Seq(CommandNames) /\ Len(Transfer) = 4
  /\ Transfer[1] = "CASET" /\ Transfer[2] = "RASET" /\ Transfer[3] = "RAMWR" /\ Transfer[4] = "PIXELS"
  /\ EndOf(Setup, Setup) /\ EndOf(Transfer, Transfer)
  /\ EndOf(<< >>, Setup) /\ EndOf(<< >>, Transfer) /\ << >> \in Seq(CommandNames)
<1>1. Setup \in Seq(CommandNames) /\ Len(Setup) = 2 /\ Setup[1] = "MADCTL" /\ Setup[2] = "INVON"
  BY DEF Setup, CommandNames
<1>2. /\ Transfer \in Seq(CommandNames) /\ Len(Transfer) = 4
      /\ Transfer[1] = "CASET" /\ Transfer[2] = "RASET" /\ Transfer[3] = "RAMWR" /\ Transfer[4] = "PIXELS"
  BY DEF Transfer, CommandNames
<1>3. EndOf(Setup, Setup) /\ EndOf(Transfer, Transfer)
  BY <1>1, <1>2 DEF EndOf
<1>4. EndOf(<< >>, Setup) /\ EndOf(<< >>, Transfer) /\ << >> \in Seq(CommandNames)
  BY <1>1, <1>2 DEF EndOf
<1> QED BY <1>1, <1>2, <1>3, <1>4

(* The same call of thread t, a transaction later. *)
GoesOn(t, w) ==
  \/ work[t] \in Creation8 /\ w \in Creation8 /\ SettingUp(w)
  \/ /\ work[t] \in Creation9 /\ w \in Creation9 /\ SettingUp(w)
     /\ w.handle = work[t].handle
  \/ /\ work[t] \in Flushing /\ w \in Flushing /\ w.handle = work[t].handle
     /\ Sending(w, displays[t][w.handle], due[w.handle])

LEMMA TransactionKeeps ==
  ASSUME DisplayInv, NEW t \in Threads, ~Idle(t), NEW w, GoesOn(t, w),
         UNCHANGED <<displays, lvgl, busy, due>>, work' = [work EXCEPT ![t] = w],
         owner' = t => w.script # << >>, \A u \in Threads \ {t} : owner' = u => owner = u
  PROVE  DisplayInv'
<1>1. HandlesInv /\ ThreadInv(t)
  BY DEF DisplayInv
<1>2. work'[t] = w /\ DOMAIN work' = Threads
  BY <1>1 DEF HandlesInv
<1>3. Managed(t)' = Managed(t) /\ TableInv(t)'
  BY <1>1 DEF Managed, ThreadInv, TableInv
<1>4. w.op # "none"
  BY DEF GoesOn, Creation8, Creation9, Flushing
<1>5. ~Idle(t)'
  BY <1>2, <1>4 DEF Idle, NoWork
<1>6. WorkInv(t)' /\ Holds(t)' = Holds(t)
  <2>1. CASE work[t] \in Creation8 /\ w \in Creation8 /\ SettingUp(w)
    BY <1>2, <1>3, <2>1 DEF WorkInv, Holds, Running, Creation8
  <2>2. CASE /\ work[t] \in Creation9 /\ w \in Creation9 /\ SettingUp(w)
             /\ w.handle = work[t].handle
    <3>1. Running(t, "v9") /\ Running(t, "v9")'
      BY <1>2, <2>2 DEF Running, Creation9
    <3>2. lvgl[w.handle] = "created"
      BY <1>1, <2>2, <3>1, WhatRuns
    <3> QED BY <1>2, <1>3, <2>2, <3>1, <3>2 DEF WorkInv, Holds
  <2>3. CASE /\ work[t] \in Flushing /\ w \in Flushing /\ w.handle = work[t].handle
             /\ Sending(w, displays[t][w.handle], due[w.handle])
    <3>1. Running(t, "flush") /\ ~Running(t, "v9") /\ ~Running(t, "v9")'
      BY <1>2, <2>3 DEF Running, Flushing
    <3>2. w.handle \in Managed(t) /\ busy[w.handle] = 1
      BY <1>1, <2>3, <3>1, WhatRuns
    <3> QED BY <1>2, <1>3, <2>3, <3>1, <3>2 DEF WorkInv, Holds
  <2> QED BY <2>1, <2>2, <2>3 DEF GoesOn
<1>7. ThreadInv(t)'
  BY <1>2, <1>3, <1>5, <1>6 DEF ThreadInv, Script
<1>8. StepOf(t)
  BY <1>1, <1>2, <1>6, <1>7 DEF StepOf, HandlesInv
<1> QED BY <1>8, StepKeeps

(* Whatever was under way may be refused by the bus. *)
LEMMA RefusedGoesOn ==
  ASSUME NEW t \in Threads, ThreadInv(t), ~Idle(t), Script(t) # << >>
  PROVE  GoesOn(t, work[t]) /\ GoesOn(t, Failed(t))
<1> DEFINE w == work[t]
           f == [w EXCEPT !.ok = FALSE, !.script = << >>]
<1>1. Failed(t) = f /\ w.script # << >>
  BY DEF Failed, Script
<1>2. CASE Running(t, "v8")
  <2>1. w \in Creation8 /\ SettingUp(w)
    BY <1>2, WhatRuns
  <2>2. f \in Creation8 /\ f.panel = w.panel /\ f.ok = FALSE /\ f.script = << >>
    BY <2>1, Programs DEF Creation8
  <2> HIDE DEF f
  <2>3. SettingUp(f)
    BY <2>1, <2>2, Programs DEF SettingUp
  <2> QED BY <1>1, <2>1, <2>2, <2>3 DEF GoesOn
<1>3. CASE Running(t, "v9")
  <2>1. w \in Creation9 /\ SettingUp(w)
    BY <1>3, WhatRuns
  <2>2. f \in Creation9 /\ f.panel = w.panel /\ f.ok = FALSE /\ f.script = << >> /\ f.handle = w.handle
    BY <2>1, Programs DEF Creation9
  <2> HIDE DEF f
  <2>3. SettingUp(f)
    BY <2>1, <2>2, Programs DEF SettingUp
  <2> QED BY <1>1, <2>1, <2>2, <2>3 DEF GoesOn
<1>4. CASE Running(t, "flush")
  <2>1. w \in Flushing /\ Sending(w, displays[t][w.handle], due[w.handle])
    BY <1>4, WhatRuns
  <2>2. f \in Flushing /\ f.panel = w.panel /\ f.ok = FALSE /\ f.script = << >> /\ f.handle = w.handle
    BY <2>1, Programs DEF Flushing
  <2> HIDE DEF f
  <2>3. Sending(f, displays[t][w.handle], due[w.handle])
    BY <1>1, <2>1, <2>2, Programs DEF Sending, Sent
  <2> QED BY <1>1, <2>1, <2>2, <2>3 DEF GoesOn
<1> QED BY <1>2, <1>3, <1>4, WhatRuns

LEMMA BeginTransactionKeeps ==
  ASSUME DisplayInv, NEW t \in Threads, BeginTransaction(t)
  PROVE  DisplayInv'
<1>1. ThreadInv(t) /\ HandlesInv /\ ~Idle(t) /\ Script(t) # << >> /\ owner # t
  BY DEF DisplayInv, BeginTransaction
<1>2. GoesOn(t, work[t]) /\ GoesOn(t, Failed(t))
  BY <1>1, RefusedGoesOn
<1>3. CASE owner = None
  <2>1. owner' = t /\ work' = work /\ UNCHANGED <<displays, lvgl, busy, due>>
    BY <1>3 DEF BeginTransaction
  <2> QED BY <1>1, <2>1, BystandersKeep
<1>4. CASE owner # None
  <2>1. owner' = owner /\ work' = [work EXCEPT ![t] = Failed(t)] /\ UNCHANGED <<displays, lvgl, busy, due>>
    BY <1>4 DEF BeginTransaction
  <2> QED BY <1>1, <1>2, <2>1, TransactionKeeps
<1> QED BY <1>3, <1>4

(* A command of the set-up. *)
LEMMA SetupCommand ==
  ASSUME NEW t \in Threads, NEW p \in Panels, p = work[t].panel, SettingUp(work[t]),
         Script(t) # << >>
  PROVE  /\ Commanded(t).ok = TRUE /\ Commanded(t).panel \in Panels
         /\ work[t].ok /\ EndOf(Tail(Script(t)), Setup)
         /\ Commanded(t).panel.gram = Cleared /\ Commanded(t).panel.resetHigh = TRUE
         /\ Commanded(t).panel.madctl = TDeck
<1> DEFINE s == Script(t)
<1>1. EndOf(s, Setup) /\ work[t].ok /\ s # << >>
  BY DEF SettingUp, Script
<1>2. Len(s) \in 1 .. 2 /\ Head(s) = Setup[2 - Len(s) + 1] /\ EndOf(Tail(s), Setup)
  BY <1>1, NextOf, Programs
<1>3. TDeck \in Orientations
  BY DEF Orientations
<1>4. CASE Len(s) = 2
  <2>1. Head(s) = "MADCTL"
    BY <1>2, <1>4, Programs
  <2>2. Commanded(t) = SetMadctl(p, TDeck)
    BY <2>1 DEF Commanded
  <2> DEFINE q == [Deselected(p) EXCEPT !.madctl = TDeck]
  <2>3. Commanded(t).ok = TRUE /\ Commanded(t).panel = q
    BY <2>2 DEF SetMadctl, Done
  <2>4. q \in Panels /\ q.gram = p.gram /\ q.resetHigh = p.resetHigh /\ q.madctl = TDeck
    BY <1>3 DEF Panels, Deselected
  <2> HIDE DEF q
  <2> QED BY <1>1, <1>2, <2>3, <2>4 DEF SettingUp
<1>5. CASE Len(s) = 1
  <2>1. Head(s) = "INVON" /\ p.madctl = TDeck
    BY <1>1, <1>2, <1>5, Programs DEF SettingUp, Script
  <2>2. Commanded(t) = SetInversion(p, TRUE)
    BY <2>1 DEF Commanded
  <2> DEFINE q == [Deselected(p) EXCEPT !.inverted = TRUE]
  <2>3. Commanded(t).ok = TRUE /\ Commanded(t).panel = q
    BY <2>2 DEF SetInversion, Done
  <2>4. q \in Panels /\ q.gram = p.gram /\ q.resetHigh = p.resetHigh /\ q.madctl = p.madctl
    BY DEF Panels, Deselected
  <2> HIDE DEF q
  <2> QED BY <1>1, <1>2, <2>1, <2>3, <2>4 DEF SettingUp
<1>6. Len(s) = 1 \/ Len(s) = 2
  BY <1>2
<1> QED BY <1>4, <1>5, <1>6

(* A command of a flush. *)
LEMMA TransferCommand ==
  ASSUME NEW t \in Threads, NEW d, NEW picture \in Pictures,
         work[t] \in Flushing, Sending(work[t], d, picture), Script(t) # << >>
  PROVE  /\ Commanded(t).ok = TRUE /\ Ready(Commanded(t).panel)
         /\ work[t].ok /\ Fits(work[t].area) /\ d.panel # None /\ EndOf(Script(t), Transfer)
         /\ Commanded(t).panel.column = work[t].area.column
         /\ Len(Script(t)) < 4 => Commanded(t).panel.row = work[t].area.row
         /\ Len(Script(t)) < 3 => Commanded(t).panel.ramWrite = TRUE
         /\ Commanded(t).panel.gram =
              IF Len(Script(t)) = 1 THEN Mirror(Updated(picture, work[t].area)) ELSE Mirror(picture)
<1> DEFINE s == Script(t)
           p == work[t].panel
           f == work[t].area
           c == Commanded(t)
<1>1. work[t].script = s /\ s # << >>
  BY DEF Script
<1>2. /\ work[t].ok /\ Fits(f) /\ d.panel # None /\ EndOf(s, Transfer)
      /\ Ready(p) /\ Selected(work[t]) /\ p.gram = Mirror(picture) /\ p \in Panels /\ f \in Flushes
  BY <1>1 DEF Sending, Sent, Ready, Flushing
<1>3. Len(s) \in 1 .. 4 /\ Head(s) = Transfer[4 - Len(s) + 1]
  BY <1>1, <1>2, NextOf, Programs
<1>4. f.column \in Int \X Int /\ f.row \in Int \X Int
  BY <1>2, DisplayAssumption
<1>5. /\ Len(s) < 4 => p.column = f.column
      /\ Len(s) < 3 => p.row = f.row
      /\ Len(s) < 2 => p.ramWrite = TRUE
  BY <1>1, <1>2 DEF Selected
<1>6. CASE Len(s) = 4
  <2> DEFINE q == [Deselected(p) EXCEPT !.column = f.column]
  <2>1. Head(s) = "CASET"
    BY <1>3, <1>6, Programs
  <2>2. c = SetColumn(p, f.column)
    BY <2>1 DEF Commanded
  <2>3. c.ok = TRUE /\ c.panel = q
    BY <1>2, <2>2 DEF SetColumn, Done, Fits
  <2>4. Ready(q) /\ q.gram = p.gram /\ q.column = f.column
    BY <1>2, <1>4 DEF Panels, Deselected, Ready
  <2> HIDE DEF q, c, s, f
  <2>5. /\ Ready(c.panel)
        /\ c.panel.gram = Mirror(picture) /\ c.panel.column = f.column
    BY <1>2, <1>3, <1>6, <2>3, <2>4
  <2> QED BY <1>2, <1>6, <2>3, <2>5 DEF c, s, f
<1>7. CASE Len(s) = 3
  <2> DEFINE q == [Deselected(p) EXCEPT !.row = f.row]
  <2>1. Head(s) = "RASET"
    BY <1>3, <1>7, Programs
  <2>2. c = SetRow(p, f.row)
    BY <2>1 DEF Commanded
  <2>3. c.ok = TRUE /\ c.panel = q
    BY <1>2, <2>2 DEF SetRow, Done, Fits
  <2>4. Ready(q) /\ q.gram = p.gram /\ q.column = p.column /\ q.row = f.row
    BY <1>2, <1>4 DEF Panels, Deselected, Ready
  <2> HIDE DEF q, c, s, f
  <2>5. /\ Ready(c.panel)
        /\ c.panel.gram = Mirror(picture) /\ c.panel.column = f.column /\ c.panel.row = f.row
    BY <1>2, <1>3, <1>5, <1>7, <2>3, <2>4
  <2> QED BY <1>2, <1>7, <2>3, <2>5 DEF c, s, f
<1>8. CASE Len(s) = 2
  <2> DEFINE q == [p EXCEPT !.ramWrite = TRUE]
  <2>1. Head(s) = "RAMWR"
    BY <1>3, <1>8, Programs
  <2>2. c = StartWrite(p)
    BY <2>1 DEF Commanded
  <2>3. c.ok = TRUE /\ c.panel = q
    BY <2>2 DEF StartWrite, Done
  <2>4. Ready(q) /\ q.gram = p.gram /\ q.column = p.column /\ q.row = p.row /\ q.ramWrite = TRUE
    BY <1>2 DEF Panels, Ready
  <2> HIDE DEF q, c, s, f
  <2> QED BY <1>2, <1>3, <1>5, <1>8, <2>3, <2>4 DEF c, s, f
<1>9. CASE Len(s) = 1
  <2>1. Head(s) = "PIXELS"
    BY <1>3, <1>9, Programs
  <2>2. c = WritePixels(p, f.pixels)
    BY <2>1 DEF Commanded
  <2>3. p.ramWrite = TRUE /\ p.column = f.column /\ p.row = f.row
    BY <1>5, <1>9
  <2>4. TakesPixels(p, f.pixels)
    BY <1>2, <2>3, FlushAssumption DEF TakesPixels, Ready, WindowSize, WindowWidth
  <2> HIDE DEF p, f, c
  <2> DEFINE g == c.panel.gram
  <2>5. /\ c.ok /\ c.panel = [p EXCEPT !.gram = g] /\ g \in Pictures
        /\ g = Mirror(Updated(picture, f))
    BY <1>2, <2>2, <2>3, TransferArrives
  <2> HIDE DEF g
  <2>6. /\ Ready(c.panel) /\ c.panel.column = p.column /\ c.panel.row = p.row
        /\ c.panel.ramWrite = p.ramWrite
    BY <1>2, <2>5 DEF Ready, Panels, Pictures
  <2>7. c.ok = TRUE
    BY <2>2, <2>4, <2>5 DEF WritePixels
  <2> HIDE DEF s
  <2> QED BY <1>2, <1>3, <1>9, <2>3, <2>5, <2>6, <2>7 DEF c, s, f, g, p
<1>10. Len(s) = 4 \/ Len(s) = 3 \/ Len(s) = 2 \/ Len(s) = 1
  BY <1>3
<1> QED BY <1>6, <1>7, <1>8, <1>9, <1>10

LEMMA EndTransactionKeeps ==
  ASSUME DisplayInv, NEW t \in Threads, EndTransaction(t)
  PROVE  DisplayInv'
<1> DEFINE c == Commanded(t)
           s == Script(t)
           p == work[t].panel
           w == [[work[t] EXCEPT !.script = Tail(s)] EXCEPT !.panel = c.panel]
<1>1. ThreadInv(t) /\ HandlesInv /\ owner = t /\ owner' = None
  BY DEF DisplayInv, EndTransaction
<1>2. ~Idle(t) /\ s # << >>
  BY <1>1 DEF ThreadInv
<1>3. \A u \in Threads : owner' # u
  BY <1>1, DisplayAssumption
<1>4. UNCHANGED <<displays, lvgl, busy, due>>
  BY DEF EndTransaction
<1>5. ASSUME c.ok = TRUE
      PROVE  work' = [work EXCEPT ![t] = w]
  BY <1>5 DEF EndTransaction, Script
<1>6. ASSUME c.ok = TRUE, GoesOn(t, w)
      PROVE  DisplayInv'
  <2> HIDE DEF w
  <2> QED BY <1>1, <1>2, <1>3, <1>4, <1>5, <1>6, TransactionKeeps
<1>7. CASE Running(t, "v8")
  <2>1. work[t] \in Creation8 /\ SettingUp(work[t])
    BY <1>1, <1>7, WhatRuns
  <2>2. p \in Panels
    BY <2>1 DEF Creation8
  <2>3. /\ c.ok = TRUE /\ c.panel \in Panels /\ work[t].ok /\ EndOf(Tail(s), Setup)
        /\ c.panel.gram = Cleared /\ c.panel.resetHigh = TRUE /\ c.panel.madctl = TDeck
    BY <1>2, <2>1, <2>2, SetupCommand
  <2> HIDE DEF c, s
  <2>4. w \in Creation8 /\ w.script = Tail(s) /\ w.panel = c.panel /\ w.ok = work[t].ok
    BY <2>1, <2>3 DEF Creation8, EndOf
  <2> HIDE DEF w
  <2>5. SettingUp(w)
    BY <2>3, <2>4 DEF SettingUp
  <2> QED BY <1>6, <2>1, <2>3, <2>4, <2>5 DEF GoesOn
<1>8. CASE Running(t, "v9")
  <2>1. work[t] \in Creation9 /\ SettingUp(work[t])
    BY <1>1, <1>8, WhatRuns
  <2>2. p \in Panels
    BY <2>1 DEF Creation9
  <2>3. /\ c.ok = TRUE /\ c.panel \in Panels /\ work[t].ok /\ EndOf(Tail(s), Setup)
        /\ c.panel.gram = Cleared /\ c.panel.resetHigh = TRUE /\ c.panel.madctl = TDeck
    BY <1>2, <2>1, <2>2, SetupCommand
  <2> HIDE DEF c, s
  <2>4. /\ w \in Creation9 /\ w.script = Tail(s) /\ w.panel = c.panel /\ w.ok = work[t].ok
        /\ w.handle = work[t].handle
    BY <2>1, <2>3 DEF Creation9, EndOf
  <2> HIDE DEF w
  <2>5. SettingUp(w)
    BY <2>3, <2>4 DEF SettingUp
  <2> QED BY <1>6, <2>1, <2>3, <2>4, <2>5 DEF GoesOn
<1>9. CASE Running(t, "flush")
  <2> DEFINE h == work[t].handle
             d == displays[t][h]
             f == work[t].area
  <2>1. work[t] \in Flushing /\ h \in Managed(t) /\ Sending(work[t], d, due[h])
    BY <1>1, <1>9, WhatRuns
  <2>2. due[h] \in Pictures
    BY <1>1, <2>1 DEF HandlesInv, Flushing
  <2>3. /\ c.ok = TRUE /\ Ready(c.panel) /\ work[t].ok /\ Fits(f) /\ d.panel # None
        /\ EndOf(s, Transfer)
        /\ c.panel.column = f.column
        /\ Len(s) < 4 => c.panel.row = f.row
        /\ Len(s) < 3 => c.panel.ramWrite = TRUE
        /\ c.panel.gram = IF Len(s) = 1 THEN Mirror(Updated(due[h], f)) ELSE Mirror(due[h])
    BY <1>2, <2>1, <2>2, TransferCommand
  <2>4. EndOf(Tail(s), Transfer) /\ Len(Tail(s)) = Len(s) - 1 /\ Len(s) \in Nat
    BY <1>2, <2>3, NextOf, Programs
  <2> HIDE DEF c, s
  <2>5. /\ w \in Flushing /\ w.script = Tail(s) /\ w.panel = c.panel /\ w.ok = work[t].ok
        /\ w.handle = h /\ w.area = f
    BY <2>1, <2>3, <2>4 DEF Flushing, EndOf, Ready
  <2>6. Tail(s) = << >> <=> Len(s) = 1
    <3> DEFINE x == Tail(s)
    <3>1. x \in Seq(CommandNames) /\ Len(x) = Len(s) - 1
      BY <2>4 DEF EndOf
    <3> HIDE DEF x
    <3>2. x = << >> <=> Len(x) = 0
      BY <3>1, EmptySeq
    <3> QED BY <2>4, <3>1, <3>2 DEF x
  <2> HIDE DEF w, h, d, f
  <2>7. Selected(w) /\ Sent(w, due[h]) = c.panel.gram
    BY <2>3, <2>5, <2>6 DEF Selected, Sent
  <2>8. Sending(w, d, due[h])
    BY <2>3, <2>4, <2>5, <2>7 DEF Sending
  <2>9. work[t].handle = h /\ displays[t][h] = d
    BY DEF h, d
  <2>10. GoesOn(t, w)
    BY <2>1, <2>5, <2>8, <2>9 DEF GoesOn
  <2> QED BY <1>6, <2>3, <2>10
<1> QED BY <1>1, <1>2, <1>7, <1>8, <1>9, WhatRuns

-----------------------------------------------------------------------------
(* Creation and destruction. *)

LEMMA ClearedPicture == Cleared \in Pictures /\ Mirror(Cleared) = Cleared
<1>1. Black \in Colours
  BY PanelAssumption
<1>2. Cleared \in Pictures
  BY <1>1 DEF Cleared, Pictures
<1>3. ASSUME NEW c \in Cells PROVE Cleared[<<Width - 1 - c[1], Height - 1 - c[2]>>] = Black
  BY MirroredCells DEF Cleared
<1>4. Mirror(Cleared) = [c \in Cells |-> Black]
  BY <1>3 DEF Mirror
<1> QED BY <1>2, <1>4 DEF Cleared

(* A display that is entered with a fresh picture, on a handle that was    *)
(* free or that this creation has.                                         *)
LEMMA InstallKeeps ==
  ASSUME DisplayInv, NEW t \in Threads, NEW h \in Handles, NEW version \in {8, 9},
         NEW panel \in Panels \cup {None},
         panel # None => Ready(panel) /\ panel.gram = Cleared,
         lvgl[h] = "free" \/ (Running(t, "v9") /\ work[t].handle = h),
         Running(t, "v9") => work[t].handle = h,
         Install(t, h, version, panel), Register(h), UNCHANGED <<busy, owner>>, owner # t,
         DOMAIN work' = Threads, work'[t] = NoWork, \A u \in Threads \ {t} : work'[u] = work[u]
  PROVE  DisplayInv'
<1> DEFINE table == [d \in Managed(t) \cup {h} |->
                       IF d = h THEN Display(version, panel) ELSE displays[t][d]]
<1>1. HandlesInv /\ ThreadInv(t)
  BY DEF DisplayInv
<1>2. displays' = [displays EXCEPT ![t] = table]
  BY DEF Install
<1>3. /\ DOMAIN displays' = Threads /\ displays'[t] = table
      /\ \A u \in Threads \ {t} : displays'[u] = displays[u]
  BY <1>1, <1>2 DEF HandlesInv
<1>4. Managed(t)' = Managed(t) \cup {h}
  BY <1>3 DEF Managed
<1>5. lvgl' = [lvgl EXCEPT ![h] = "rendering"] /\ due' = [due EXCEPT ![h] = Cleared]
  BY DEF Register
<1>6. /\ lvgl' \in [Handles -> {"free", "created", "rendering"}] /\ due' \in [Handles -> Pictures]
      /\ lvgl'[h] = "rendering" /\ due'[h] = Cleared
      /\ \A g \in Handles \ {h} : lvgl'[g] = lvgl[g] /\ due'[g] = due[g]
  BY <1>1, <1>5, ClearedPicture DEF HandlesInv
<1>7. Display(version, panel) \in Entries /\ Shows(Display(version, panel), Cleared)
  BY ClearedPicture DEF Display, Entries, Shows
<1>8. TableInv(t)'
  <2>1. ASSUME NEW g \in Managed(t)'
        PROVE  /\ g \in Handles /\ displays'[t][g] \in Entries
               /\ Shows(displays'[t][g], due'[g]) /\ lvgl'[g] = "rendering"
    <3>1. CASE g = h
      BY <1>3, <1>4, <1>6, <1>7, <3>1
    <3>2. CASE g # h
      BY <1>1, <1>3, <1>4, <1>6, <3>2 DEF ThreadInv, TableInv
    <3> QED BY <3>1, <3>2
  <2> QED BY <2>1 DEF TableInv
<1>9. Idle(t)' /\ ~Running(t, "v9")' /\ ThreadInv(t)'
  BY <1>8 DEF ThreadInv, WorkInv, Idle, Running, NoWork
<1>10. Holds(t)' = Managed(t) \cup {h}
  BY <1>4, <1>9 DEF Holds
<1>11. Holds(t) \subseteq Managed(t) \cup {h}
  BY DEF Holds
<1>12. h \notin Holds(t) => lvgl[h] = "free"
  BY DEF Holds
<1>13. StepOf(t)
  <2>1. \A g \in Holds(t)' \ Holds(t) : lvgl[g] = "free"
    BY <1>10, <1>12 DEF Holds
  <2>2. \A g \in Handles \ (Holds(t) \cup Holds(t)') : lvgl'[g] = lvgl[g] /\ due'[g] = due[g]
    BY <1>6, <1>10
  <2> QED BY <1>1, <1>3, <1>6, <1>9, <1>10, <1>11, <2>1, <2>2 DEF StepOf, HandlesInv
<1> QED BY <1>13, StepKeeps

(* Thread t takes up, or gives up, a creation without a display. *)
LEMMA WorkKeeps ==
  ASSUME DisplayInv, NEW t \in Threads, NEW w, work' = [work EXCEPT ![t] = w],
         UNCHANGED <<displays, busy, due, owner>>, owner # t,
         lvgl' \in [Handles -> {"free", "created", "rendering"}],
         Idle(t) \/ w = NoWork,
         \/ w = NoWork
         \/ w \in Creation8 /\ SettingUp(w)
         \/ w \in Creation9 /\ SettingUp(w) /\ lvgl'[w.handle] = "created" /\ lvgl[w.handle] = "free",
         \A h \in Handles :
           \/ lvgl'[h] = lvgl[h] /\ ~(Running(t, "v9") /\ work[t].handle = h)
           \/ lvgl'[h] = "free" /\ Running(t, "v9") /\ work[t].handle = h
           \/ w \in Creation9 /\ w.handle = h
  PROVE  DisplayInv'
<1>1. HandlesInv /\ ThreadInv(t)
  BY DEF DisplayInv
<1>2. DOMAIN work' = Threads /\ work'[t] = w /\ \A u \in Threads \ {t} : work'[u] = work[u]
  BY <1>1 DEF HandlesInv
<1>3. Managed(t)' = Managed(t)
  BY DEF Managed
<1>4. ASSUME NEW h \in Managed(t) PROVE lvgl'[h] = lvgl[h]
  <2>1. h \in Handles /\ lvgl[h] = "rendering"
    BY <1>1, <1>4 DEF ThreadInv, TableInv
  <2>2. ~(Running(t, "v9") /\ work[t].handle = h)
    BY <1>1, <2>1, WhatRuns
  <2>3. ~(w \in Creation9 /\ w.handle = h)
    <3>1. ASSUME w \in Creation9, w.handle = h PROVE FALSE
      <4>1. w # NoWork /\ w \notin Creation8
        BY <3>1 DEF Creation9, Creation8, NoWork
      <4> QED BY <2>1, <3>1, <4>1
    <3> QED BY <3>1
  <2> QED BY <2>1, <2>2, <2>3
<1>5. TableInv(t)'
  BY <1>1, <1>3, <1>4 DEF ThreadInv, TableInv
<1>6. WorkInv(t)'
  BY <1>2 DEF WorkInv, Idle
<1>7. ThreadInv(t)'
  BY <1>5, <1>6 DEF ThreadInv
<1>8. \A h \in Holds(t)' \ Holds(t) : lvgl[h] = "free"
  <2>1. ASSUME NEW h \in Handles, w.op = "v9", w.handle = h PROVE lvgl[h] = "free"
    BY <2>1 DEF Creation8, NoWork
  <2> QED BY <1>2, <1>3, <2>1 DEF Holds, Running
<1>9. \A h \in Holds(t) \ Holds(t)' : lvgl'[h] = "free"
  <2> SUFFICES ASSUME NEW h \in Holds(t), h \notin Holds(t)' PROVE lvgl'[h] = "free"
    OBVIOUS
  <2>1. h \in Handles /\ Running(t, "v9") /\ work[t].handle = h
    BY <1>3 DEF Holds
  <2>2. ~(w \in Creation9 /\ w.handle = h)
    BY <1>2, <2>1 DEF Holds, Running, Creation9
  <2> QED BY <2>1, <2>2
<1>10. \A h \in Handles \ (Holds(t) \cup Holds(t)') : lvgl'[h] = lvgl[h]
  <2> SUFFICES ASSUME NEW h \in Handles, h \notin Holds(t), h \notin Holds(t)'
               PROVE  lvgl'[h] = lvgl[h]
    OBVIOUS
  <2>1. ~(Running(t, "v9") /\ work[t].handle = h)
    BY DEF Holds
  <2>2. ~(w \in Creation9 /\ w.handle = h)
    BY <1>2 DEF Holds, Running, Creation9
  <2> QED BY <2>1, <2>2
<1>11. StepOf(t)
  BY <1>1, <1>2, <1>7, <1>8, <1>9, <1>10 DEF StepOf, HandlesInv
<1> QED BY <1>11, StepKeeps

(* A controller that has been through its reset. *)
LEMMA ResetPanelIsOne ==
  ResetPanel \in Panels /\ ResetPanel.gram = Cleared /\ ResetPanel.resetHigh = TRUE
<1> DEFINE p == NewPanel
           q == SetReset(p, FALSE)
<1>1. p \in Panels /\ p.gram = Cleared
  BY NewPanelIsOne DEF NewPanel
<1>2. q \in Panels /\ q.gram = p.gram
  BY <1>1, NewPanelIsOne, CommandsAreHarmless DEF Harmless
<1> HIDE DEF q
<1>3. ResetPanel = [q EXCEPT !.resetHigh = TRUE]
  BY DEF ResetPanel, SetReset, q
<1> QED BY <1>1, <1>2, <1>3 DEF Panels

LEMMA CreateV8Keeps ==
  ASSUME DisplayInv, NEW t \in Threads, NEW fidelity \in BOOLEAN, CreateV8(t, fidelity)
  PROVE  DisplayInv'
<1>1. HandlesInv /\ ThreadInv(t) /\ Idle(t) /\ owner # t /\ owner' = owner /\ busy' = busy
  BY DEF DisplayInv, ThreadInv, CreateV8
<1>2. ~Running(t, "v9") /\ work[t] = NoWork
  BY <1>1, WhatRuns DEF Idle
<1>3. CASE fidelity /\ UNCHANGED <<displays, lvgl, due>> /\ work' = [work EXCEPT ![t] =
             [op |-> "v8", script |-> <<"MADCTL", "INVON">>, ok |-> TRUE, panel |-> ResetPanel]]
  <2> DEFINE w == [op |-> "v8", script |-> Setup, ok |-> TRUE, panel |-> ResetPanel]
  <2>1. w \in Creation8 /\ SettingUp(w)
    <3>1. w \in Creation8 /\ w.script = Setup /\ w.ok = TRUE /\ w.panel = ResetPanel
      BY ResetPanelIsOne, Programs DEF Creation8
    <3> HIDE DEF w
    <3> QED BY <3>1, ResetPanelIsOne, Programs DEF SettingUp
  <2>2. work' = [work EXCEPT ![t] = w]
    BY <1>3 DEF Setup
  <2> HIDE DEF w
  <2> QED BY <1>1, <1>2, <1>3, <2>1, <2>2, WorkKeeps DEF HandlesInv
<1>4. CASE UNCHANGED work /\ \E h \in Handles : lvgl[h] = "free" /\ Install(t, h, 8, None) /\ Register(h)
  BY <1>1, <1>2, <1>4, InstallKeeps DEF HandlesInv
<1>5. CASE UNCHANGED <<displays, lvgl, work, due>>
  BY <1>1, <1>5, BystandersKeep
<1> QED BY <1>3, <1>4, <1>5 DEF CreateV8

LEMMA CreateV9Keeps ==
  ASSUME DisplayInv, NEW t \in Threads, NEW fidelity \in BOOLEAN, CreateV9(t, fidelity)
  PROVE  DisplayInv'
<1>1. HandlesInv /\ ThreadInv(t) /\ Idle(t) /\ owner # t /\ owner' = owner /\ busy' = busy
  BY DEF DisplayInv, ThreadInv, CreateV9
<1>2. ~Running(t, "v9") /\ work[t] = NoWork
  BY <1>1, WhatRuns DEF Idle
<1>3. ASSUME NEW h \in Handles, UNCHANGED <<displays, due>>,
             lvgl[h] = "free", lvgl' = [lvgl EXCEPT ![h] = "created"],
             work' = [work EXCEPT ![t] =
               [op |-> "v9", script |-> <<"MADCTL", "INVON">>, ok |-> TRUE,
                panel |-> ResetPanel, handle |-> h]]
      PROVE  DisplayInv'
  <2> DEFINE w == [op |-> "v9", script |-> Setup, ok |-> TRUE, panel |-> ResetPanel, handle |-> h]
  <2>1. w \in Creation9 /\ SettingUp(w) /\ w.handle = h
    <3>1. /\ w \in Creation9 /\ w.script = Setup /\ w.ok = TRUE /\ w.panel = ResetPanel
          /\ w.handle = h
      BY ResetPanelIsOne, Programs DEF Creation9
    <3> HIDE DEF w
    <3> QED BY <3>1, ResetPanelIsOne, Programs DEF SettingUp
  <2>2. work' = [work EXCEPT ![t] = w]
    BY <1>3 DEF Setup
  <2>3. /\ lvgl' \in [Handles -> {"free", "created", "rendering"}] /\ lvgl'[h] = "created"
        /\ \A g \in Handles : lvgl'[g] = lvgl[g] \/ g = h
    BY <1>1, <1>3 DEF HandlesInv
  <2> HIDE DEF w
  <2> QED BY <1>1, <1>2, <1>3, <2>1, <2>2, <2>3, WorkKeeps
<1>4. CASE UNCHANGED work /\ \E h \in Handles : lvgl[h] = "free" /\ Install(t, h, 9, None) /\ Register(h)
  BY <1>1, <1>2, <1>4, InstallKeeps DEF HandlesInv
<1>5. CASE UNCHANGED <<displays, lvgl, work, due>>
  BY <1>1, <1>5, BystandersKeep
<1> QED BY <1>3, <1>4, <1>5 DEF CreateV9

(* The controller of a creation that went well. *)
LEMMA SetUpIsReady ==
  ASSUME NEW t \in Threads, work[t].panel \in Panels, SettingUp(work[t]), work[t].ok,
         Script(t) = << >>
  PROVE  Ready(SetUp(t)) /\ SetUp(t).gram = Cleared /\ SetUp(t) \in Panels
<1> DEFINE p == work[t].panel
<1>1. Len(work[t].script) < 2
  BY EmptySeq DEF Script
<1>2. p \in Panels /\ p.gram = Cleared /\ p.resetHigh = TRUE /\ p.madctl = TDeck
  BY <1>1 DEF SettingUp
<1>3. SetUp(t) = [p EXCEPT !.initialized = TRUE]
  BY DEF SetUp
<1> HIDE DEF p
<1> QED BY <1>2, <1>3 DEF Ready, Panels

LEMMA FinishV8Keeps ==
  ASSUME DisplayInv, NEW t \in Threads, FinishV8(t)
  PROVE  DisplayInv'
<1>1. /\ HandlesInv /\ ThreadInv(t) /\ Running(t, "v8") /\ Script(t) = << >> /\ owner # t
      /\ UNCHANGED <<busy, owner>> /\ work' = [work EXCEPT ![t] = NoWork]
  BY DEF DisplayInv, ThreadInv, FinishV8
<1>2. work[t] \in Creation8 /\ SettingUp(work[t]) /\ ~Running(t, "v9")
  BY <1>1, WhatRuns DEF Running
<1>3. CASE work[t].ok /\ \E h \in Handles : lvgl[h] = "free" /\ Install(t, h, 8, SetUp(t)) /\ Register(h)
  <2>1. Ready(SetUp(t)) /\ SetUp(t).gram = Cleared /\ SetUp(t) \in Panels
    BY <1>1, <1>2, <1>3, SetUpIsReady DEF Creation8
  <2>2. DOMAIN work' = Threads /\ work'[t] = NoWork /\ \A u \in Threads \ {t} : work'[u] = work[u]
    BY <1>1 DEF HandlesInv
  <2> QED BY <1>1, <1>2, <1>3, <2>1, <2>2, InstallKeeps
<1>4. CASE UNCHANGED <<displays, lvgl, due>>
  BY <1>1, <1>2, <1>4, WorkKeeps DEF HandlesInv
<1> QED BY <1>3, <1>4 DEF FinishV8

LEMMA FinishV9Keeps ==
  ASSUME DisplayInv, NEW t \in Threads, FinishV9(t)
  PROVE  DisplayInv'
<1> DEFINE h == work[t].handle
<1>1. /\ HandlesInv /\ ThreadInv(t) /\ Running(t, "v9") /\ Script(t) = << >> /\ owner # t
      /\ UNCHANGED <<busy, owner>> /\ work' = [work EXCEPT ![t] = NoWork]
  BY DEF DisplayInv, ThreadInv, FinishV9
<1>2. work[t] \in Creation9 /\ SettingUp(work[t]) /\ h \in Handles
  BY <1>1, WhatRuns DEF Creation9
<1>3. CASE work[t].ok
  <2>1. Ready(SetUp(t)) /\ SetUp(t).gram = Cleared /\ SetUp(t) \in Panels
    BY <1>1, <1>2, <1>3, SetUpIsReady DEF Creation9
  <2>2. DOMAIN work' = Threads /\ work'[t] = NoWork /\ \A u \in Threads \ {t} : work'[u] = work[u]
    BY <1>1 DEF HandlesInv
  <2>3. Install(t, h, 9, SetUp(t)) /\ Register(h)
    BY <1>3 DEF FinishV9
  <2> QED BY <1>1, <1>2, <2>1, <2>2, <2>3, InstallKeeps
<1>4. CASE ~work[t].ok
  <2>1. lvgl' = [lvgl EXCEPT ![h] = "free"] /\ UNCHANGED <<displays, due>>
    BY <1>4 DEF FinishV9
  <2>2. /\ lvgl' \in [Handles -> {"free", "created", "rendering"}] /\ lvgl'[h] = "free"
        /\ \A g \in Handles \ {h} : lvgl'[g] = lvgl[g]
    BY <1>1, <1>2, <2>1 DEF HandlesInv
  <2> QED BY <1>1, <1>2, <2>1, <2>2, WorkKeeps
<1> QED BY <1>3, <1>4

LEMMA RemoveKeeps ==
  ASSUME DisplayInv, NEW t \in Threads, NEW h \in Managed(t), Idle(t), Remove(t, h)
  PROVE  DisplayInv'
<1> DEFINE S == Managed(t) \ {h}
           table == [d \in S |-> displays[t][d]]
<1>1. HandlesInv /\ ThreadInv(t) /\ h \in Handles /\ ~Running(t, "v9")
  BY WhatRuns DEF DisplayInv, ThreadInv, TableInv
<1>2. displays' = [displays EXCEPT ![t] = table] /\ work' = work /\ due' = due /\ owner' = owner
  BY DEF Remove, Restrict
<1>3. /\ DOMAIN displays' = Threads /\ displays'[t] = table
      /\ \A u \in Threads \ {t} : displays'[u] = displays[u]
  BY <1>1, <1>2 DEF HandlesInv
<1>4. Managed(t)' = S
  BY <1>3 DEF Managed
<1>5. /\ lvgl' \in [Handles -> {"free", "created", "rendering"}] /\ busy' \in [Handles -> {0, 1}]
      /\ lvgl'[h] = "free"
      /\ \A g \in Handles \ {h} : lvgl'[g] = lvgl[g] /\ busy'[g] = busy[g]
  BY <1>1 DEF HandlesInv, Remove
<1>6. TableInv(t)'
  <2>1. ASSUME NEW g \in S
        PROVE  /\ g \in Handles /\ displays'[t][g] \in Entries
               /\ Shows(displays'[t][g], due'[g]) /\ lvgl'[g] = "rendering"
    BY <1>1, <1>2, <1>3, <1>5, <2>1 DEF ThreadInv, TableInv
  <2> QED BY <1>4, <2>1 DEF TableInv
<1>7. Idle(t)' /\ ~Running(t, "v9")' /\ owner # t
  BY <1>1, <1>2 DEF Idle, Running, ThreadInv
<1>8. ThreadInv(t)'
  BY <1>2, <1>6, <1>7 DEF ThreadInv, WorkInv
<1>9. Holds(t)' = S /\ Holds(t) = Managed(t)
  BY <1>1, <1>4, <1>7 DEF Holds
<1>10. StepOf(t)
  BY <1>1, <1>2, <1>3, <1>5, <1>8, <1>9 DEF StepOf, HandlesInv
<1> QED BY <1>10, StepKeeps

LEMMA DestroyKeeps ==
  ASSUME DisplayInv, NEW t \in Threads, NEW h, DestroyDisplay(t, h)
  PROVE  DisplayInv'
  BY RemoveKeeps DEF DestroyDisplay, DestroyV8, DestroyV9, OfVersion

-----------------------------------------------------------------------------
(* Flushes. *)

(* How far a place is into its line, and how long the line is. *)
LEMMA Between ==
  ASSUME NEW x \in Int, NEW y \in Int, NEW z \in Int, x <= z, z <= y
  PROVE  y - x + 1 \in Nat /\ z - x \in 0 .. (y - x + 1) - 1
  OBVIOUS

LEMMA UpdatedPicture ==
  ASSUME NEW picture \in Pictures, NEW f \in Flushes, Fits(f)
  PROVE  Updated(picture, f) \in Pictures
<1>1. /\ f.column[1] \in Int /\ f.column[2] \in Int /\ f.row[1] \in Int /\ f.row[2] \in Int
      /\ f.pixels \in Seq(Colours)
  BY DisplayAssumption
<1>2. Len(f.pixels) = (f.column[2] - f.column[1] + 1) * (f.row[2] - f.row[1] + 1)
  BY FlushAssumption
<1>3. ASSUME NEW c \in Cells PROVE Updated(picture, f)[c] \in Colours
  <2>1. CASE c[1] \in f.column[1] .. f.column[2] /\ c[2] \in f.row[1] .. f.row[2]
    <3> DEFINE w == f.column[2] - f.column[1] + 1
               h == f.row[2] - f.row[1] + 1
               a == c[1] - f.column[1]
               b == c[2] - f.row[1]
               i == (c[2] - f.row[1]) * (f.column[2] - f.column[1] + 1) + (c[1] - f.column[1]) + 1
    <3>1. w \in Nat /\ h \in Nat /\ a \in 0 .. w - 1 /\ b \in 0 .. h - 1
      <4>1. c[1] \in Int /\ c[2] \in Int
        BY <1>1, <2>1
      <4>2. /\ f.column[1] <= c[1] /\ c[1] <= f.column[2]
            /\ f.row[1] <= c[2] /\ c[2] <= f.row[2]
        BY <1>1, <2>1
      <4>3. w \in Nat /\ a \in 0 .. w - 1
        BY <1>1, <4>1, <4>2, Between
      <4>4. h \in Nat /\ b \in 0 .. h - 1
        BY <1>1, <4>1, <4>2, Between
      <4> QED BY <4>3, <4>4
    <3>2. i = b * w + a + 1 /\ Len(f.pixels) = w * h
      BY <1>2
    <3> HIDE DEF w, h, a, b, i
    <3>3. b * w \in Nat
      BY <3>1
    <3>4. (b + 1) * w <= h * w
      BY <3>1
    <3>5. (b + 1) * w = b * w + w
      BY <3>1
    <3>6. i \in 1 .. Len(f.pixels)
      BY <3>1, <3>2, <3>3, <3>4, <3>5
    <3>7. f.pixels[i] \in Colours
      BY <1>1, <3>6
    <3>8. Updated(picture, f)[c] = f.pixels[i]
      BY <2>1, UpdatedCells DEF i
    <3> QED BY <3>7, <3>8
  <2>2. CASE ~(c[1] \in f.column[1] .. f.column[2] /\ c[2] \in f.row[1] .. f.row[2])
    BY <2>2, UpdatedCells DEF Pictures
  <2> QED BY <2>1, <2>2
<1>4. Updated(picture, f) = [c \in Cells |-> Updated(picture, f)[c]]
  BY DEF Updated
<1> QED BY <1>3, <1>4 DEF Pictures

LEMMA FlushKeeps ==
  ASSUME DisplayInv, NEW t \in Threads, NEW h \in Handles, NEW f \in Flushes, Flush(t, h, f)
  PROVE  DisplayInv'
<1>1. /\ HandlesInv /\ ThreadInv(t) /\ Idle(t) /\ busy[h] = 0 /\ owner # t
      /\ busy' = [busy EXCEPT ![h] = 1] /\ UNCHANGED <<lvgl, owner, displays, due>>
  BY DEF DisplayInv, ThreadInv, Flush
<1>2. busy' \in [Handles -> {0, 1}] /\ busy'[h] = 1 /\ \A g \in Handles \ {h} : busy'[g] = busy[g]
  BY <1>1 DEF HandlesInv
<1>3. Managed(t)' = Managed(t) /\ TableInv(t)' /\ ~Running(t, "v9")
  BY <1>1, WhatRuns DEF Managed, ThreadInv, TableInv
<1>4. CASE h \notin Managed(t)
  <2>1. work' = work
    BY <1>4 DEF Flush
  <2>2. ThreadInv(t)' /\ Holds(t)' = Holds(t)
    BY <1>1, <1>3, <2>1 DEF ThreadInv, WorkInv, Idle, Holds, Running
  <2>3. StepOf(t)
    BY <1>1, <1>2, <2>1, <2>2 DEF StepOf, HandlesInv
  <2> QED BY <2>3, StepKeeps
<1>5. CASE h \in Managed(t)
  <2> DEFINE d == displays[t][h]
             b == Fits(f)
             s == IF d.panel = None \/ ~Fits(f) THEN << >> ELSE <<"CASET", "RASET", "RAMWR", "PIXELS">>
             w == [op |-> "flush", handle |-> h, area |-> f, ok |-> b, panel |-> d.panel, script |-> s]
  <2>1. work' = [work EXCEPT ![t] = w]
    BY <1>5 DEF Flush
  <2>2. d \in Entries /\ Shows(d, due[h])
    BY <1>1, <1>5 DEF ThreadInv, TableInv
  <2>3. b \in BOOLEAN /\ (b <=> Fits(f))
    BY DEF Fits
  <2>4. /\ s \in Seq(CommandNames) /\ EndOf(s, Transfer)
        /\ d.panel = None \/ ~Fits(f) => s = << >>
        /\ d.panel # None /\ Fits(f) => s # << >> /\ Len(s) = 4
    <3>1. s = << >> \/ s = Transfer
      BY DEF Transfer
    <3>2. Transfer # << >>
      BY Programs, EmptySeq
    <3> QED BY <3>1, <3>2, Programs DEF Transfer
  <2> HIDE DEF b, s, d
  <2>5. /\ w \in Flushing /\ w.handle = h /\ w.area = f /\ w.ok = b /\ w.panel = d.panel
        /\ w.script = s /\ w.op = "flush"
    BY <2>2, <2>3, <2>4 DEF Flushing, Entries
  <2> HIDE DEF w
  <2>6. Sending(w, d, due[h])
    <3>1. (w.ok => Fits(w.area)) /\ (~w.ok => w.script = << >>)
      BY <2>3, <2>4, <2>5
    <3>2. CASE d.panel = None
      BY <2>4, <2>5, <3>1, <3>2 DEF Sending
    <3>3. CASE d.panel # None
      <4>1. Ready(w.panel) /\ EndOf(w.script, Transfer) /\ w.panel.gram = Mirror(due[h])
        BY <2>2, <2>4, <2>5, <3>3 DEF Shows
      <4>2. w.ok => w.script # << >> /\ Len(w.script) = 4 /\ Len(w.script) \in Nat
        BY <2>3, <2>4, <2>5, <3>3
      <4>3. w.ok => Selected(w)
        <5> DEFINE n == Len(w.script)
        <5> SUFFICES ASSUME w.ok PROVE Selected(w)
          OBVIOUS
        <5>1. n = 4
          BY <4>2
        <5> HIDE DEF n
        <5>2. ~(n < 4) /\ ~(n < 3) /\ ~(n < 2)
          BY <5>1
        <5> QED BY <5>2 DEF Selected, n
      <4>4. w.panel.gram = Sent(w, due[h])
        BY <4>1, <4>2 DEF Sent
      <4> QED BY <3>1, <3>3, <4>1, <4>3, <4>4 DEF Sending
    <3> QED BY <3>2, <3>3
  <2>7. /\ DOMAIN work' = Threads /\ work'[t] = w
        /\ \A u \in Threads \ {t} : work'[u] = work[u]
    BY <1>1, <2>1 DEF HandlesInv
  <2>8. WorkInv(t)'
    BY <1>1, <1>2, <1>3, <1>5, <2>5, <2>6, <2>7 DEF WorkInv, d
  <2>9. ~Running(t, "v9")'
    BY <2>5, <2>7 DEF Running
  <2>10. ThreadInv(t)' /\ Holds(t)' = Holds(t)
    BY <1>1, <1>3, <2>8, <2>9 DEF ThreadInv, Holds
  <2>11. StepOf(t)
    BY <1>1, <1>2, <2>7, <2>10 DEF StepOf, HandlesInv
  <2> QED BY <2>11, StepKeeps
<1> QED BY <1>4, <1>5

LEMMA FinishFlushKeeps ==
  ASSUME DisplayInv, NEW t \in Threads, FinishFlush(t)
  PROVE  DisplayInv'
<1> DEFINE w == work[t]
           h == work[t].handle
           d == displays[t][h]
           e == Flushed(displays[t][h], work[t])
<1>1. /\ HandlesInv /\ ThreadInv(t) /\ Running(t, "flush") /\ w.script = << >> /\ owner # t
      /\ UNCHANGED <<lvgl, owner>> /\ work' = [work EXCEPT ![t] = NoWork]
      /\ displays' = [displays EXCEPT ![t][h] = e]
      /\ busy' = [busy EXCEPT ![h] = @ - 1]
      /\ due' = IF w.ok THEN [due EXCEPT ![h] = Updated(@, w.area)] ELSE due
  BY DEF DisplayInv, ThreadInv, FinishFlush, Script
<1>2. w \in Flushing /\ h \in Managed(t) /\ busy[h] = 1 /\ Sending(w, d, due[h])
  BY <1>1, WhatRuns
<1>3. /\ h \in Handles /\ d \in Entries /\ Shows(d, due[h]) /\ due[h] \in Pictures
      /\ w.area \in Flushes /\ w.ok \in BOOLEAN
  BY <1>1, <1>2 DEF ThreadInv, TableInv, HandlesInv, Flushing
<1>4. busy' \in [Handles -> {0, 1}] /\ \A g \in Handles \ {h} : busy'[g] = busy[g]
  BY <1>1, <1>2, <1>3 DEF HandlesInv
<1>5. /\ due' \in [Handles -> Pictures] /\ \A g \in Handles \ {h} : due'[g] = due[g]
      /\ due'[h] = IF w.ok THEN Updated(due[h], w.area) ELSE due[h]
  <2>1. w.ok => Updated(due[h], w.area) \in Pictures
    BY <1>2, <1>3, UpdatedPicture DEF Sending
  <2> HIDE DEF h, w
  <2> QED BY <1>1, <1>3, <2>1 DEF HandlesInv
<1>6. /\ DOMAIN displays' = Threads /\ Managed(t)' = Managed(t) /\ displays'[t][h] = e
      /\ \A g \in Managed(t) \ {h} : displays'[t][g] = displays[t][g]
      /\ \A u \in Threads \ {t} : displays'[u] = displays[u]
  <2> HIDE DEF h, e
  <2> QED BY <1>1, <1>2 DEF HandlesInv, Managed
<1>7. e \in Entries /\ Shows(e, due'[h])
  <2>1. CASE d.panel = None
    <3> DEFINE x == IF w.ok THEN Updated(d.shown, w.area) ELSE d.shown
    <3>1. e = [d EXCEPT !.shown = x]
      BY <2>1 DEF Flushed
    <3>2. d.shown = due[h] /\ x = due'[h]
      BY <1>3, <1>5, <2>1 DEF Shows
    <3>3. due'[h] \in Pictures
      BY <1>3, <1>5
    <3> HIDE DEF x, d, e
    <3>4. e \in Entries /\ e.panel = d.panel /\ e.shown = x
      BY <1>3, <3>1, <3>2, <3>3 DEF Entries
    <3> QED BY <2>1, <3>2, <3>4 DEF Shows
  <2>2. CASE d.panel # None
    <3> DEFINE x == IF w.ok THEN w.panel.gram ELSE d.shown
               p == w.panel
    <3>1. e = [d EXCEPT !.panel = p, !.shown = x]
      BY <2>2 DEF Flushed
    <3>2. Ready(p) /\ p.gram = Sent(w, due[h]) /\ d.shown = Mirror(due[h])
      BY <1>2, <1>3, <2>2 DEF Sending, Shows
    <3>3. p.gram = Mirror(due'[h]) /\ x = Mirror(due'[h])
      BY <1>1, <1>5, <3>2 DEF Sent
    <3>4. p \in Panels /\ p.gram \in Pictures
      BY <3>2 DEF Ready, Panels, Pictures
    <3>5. p # None
      BY <3>4, DisplayAssumption
    <3> HIDE DEF x, d, e, p
    <3>6. e \in Entries /\ e.panel = p /\ e.shown = x
      BY <1>3, <3>1, <3>3, <3>4 DEF Entries
    <3> QED BY <3>2, <3>3, <3>5, <3>6 DEF Shows
  <2> QED BY <2>1, <2>2
<1> HIDE DEF e
<1>8. TableInv(t)'
  <2>1. ASSUME NEW g \in Managed(t)
        PROVE  /\ g \in Handles /\ displays'[t][g] \in Entries
               /\ Shows(displays'[t][g], due'[g]) /\ lvgl'[g] = "rendering"
    <3>1. g \in Handles /\ lvgl'[g] = "rendering"
      BY <1>1 DEF ThreadInv, TableInv
    <3>2. CASE g = h
      BY <1>6, <1>7, <3>1, <3>2
    <3>3. CASE g # h
      <4>1. displays'[t][g] = displays[t][g] /\ due'[g] = due[g]
        BY <1>5, <1>6, <3>1, <3>3
      <4> QED BY <1>1, <3>1, <4>1 DEF ThreadInv, TableInv
    <3> QED BY <3>2, <3>3
  <2> QED BY <1>6, <2>1 DEF TableInv
<1>9. /\ DOMAIN work' = Threads /\ work'[t] = NoWork
      /\ \A u \in Threads \ {t} : work'[u] = work[u]
  BY <1>1 DEF HandlesInv
<1>10. ThreadInv(t)' /\ Holds(t)' = Holds(t) /\ h \in Holds(t)
  BY <1>1, <1>2, <1>6, <1>8, <1>9 DEF ThreadInv, WorkInv, Idle, Holds, Running, NoWork
<1>11. StepOf(t)
  <2> HIDE DEF h, w
  <2> QED BY <1>1, <1>4, <1>5, <1>6, <1>9, <1>10 DEF StepOf, HandlesInv
<1> QED BY <1>11, StepKeeps

-----------------------------------------------------------------------------
(* The theorems. *)

LEMMA DisplayNextKeeps ==
  ASSUME DisplayInv, DisplayNext
  PROVE  DisplayInv'
<1>1. ASSUME NEW t \in Threads, EnterFirmware(t) \/ LeaveFirmware(t)
      PROVE  DisplayInv'
  BY <1>1, BystandersKeep DEF EnterFirmware, LeaveFirmware
<1>2. ASSUME NEW t \in Threads, ThreadStep(t)
      PROVE  DisplayInv'
  BY <1>2, BeginTransactionKeeps, EndTransactionKeeps, FinishV8Keeps, FinishV9Keeps,
     FinishFlushKeeps DEF ThreadStep
<1>3. ASSUME NEW t \in Threads, NEW version \in Versions, NEW fidelity \in BOOLEAN,
             CreateDisplay(t, version, fidelity)
      PROVE  DisplayInv'
  BY <1>3, CreateV8Keeps, CreateV9Keeps DEF CreateDisplay
<1> QED BY <1>1, <1>2, <1>3, OtherTransactionKeeps, DestroyKeeps, FlushKeeps DEF DisplayNext

(* The displays and the controller driven by hand leave each other alone.  *)
LEMMA PartsAreApart ==
  /\ DisplayNext => bench' = bench
  /\ BenchNext => UNCHANGED <<displays, lvgl, busy, owner, work, due>>
<1>1. DisplayNext => bench' = bench
  BY ZenonT(40) DEF DisplayNext, OtherTransaction, EnterFirmware, LeaveFirmware, ThreadStep,
     BeginTransaction, EndTransaction, FinishV8, FinishV9, FinishFlush, CreateDisplay,
     CreateV8, CreateV9, DestroyDisplay, DestroyV8, DestroyV9, Remove, Flush
<1>2. BenchNext => UNCHANGED <<displays, lvgl, busy, owner, work, due>>
  BY DEF BenchNext, BenchReset, BenchInitialize, BenchCommand, BenchPixels, BenchStep
<1> QED BY <1>1, <1>2

(* The invariant: the displays a thread keeps and those it is making are   *)
(* its own, and every one of them shows what it was told.                  *)
THEOREM DisplayInvariant == DisplaySpec => [](DisplayInv /\ BenchInv)
<1>1. DisplayInv /\ BenchInv /\ [DisplayNext \/ BenchNext]_displayVars => (DisplayInv /\ BenchInv)'
  <2> SUFFICES ASSUME DisplayInv, BenchInv, [DisplayNext \/ BenchNext]_displayVars
               PROVE  (DisplayInv /\ BenchInv)'
    OBVIOUS
  <2>1. CASE DisplayNext
    <3>1. bench' = bench
      BY <2>1, PartsAreApart
    <3>2. BenchInv'
      BY <3>1 DEF BenchInv, Kept
    <3> QED BY <2>1, <3>2, DisplayNextKeeps
  <2>2. CASE BenchNext
    BY <2>2, PartsAreApart, BystandersKeep, BenchNextKeeps
  <2>3. CASE UNCHANGED displayVars
    <3>1. DisplayInv'
      BY <2>3, BystandersKeep DEF displayVars
    <3>2. BenchInv'
      BY <2>3 DEF BenchInv, Kept, displayVars
    <3> QED BY <3>1, <3>2
  <2> QED BY <2>1, <2>2, <2>3
<1> QED BY <1>1, DisplayInitInv, PTL DEF DisplaySpec

(* LVGL renders to exactly the displays some thread keeps the state of,    *)
(* whatever the bus refuses during a creation, and no two threads keep     *)
(* one.                                                                    *)
THEOREM NoDisplayIsHalfCreated == DisplaySpec => []NothingHalfCreated
<1>1. ASSUME DisplayInv PROVE NothingHalfCreated
  <2>1. HandlesInv /\ \A t \in Threads : ThreadInv(t) /\ Managed(t) \subseteq Holds(t)
    BY <1>1 DEF DisplayInv, Holds
  <2>2. ASSUME NEW t \in Threads, NEW h \in Managed(t) PROVE lvgl[h] = "rendering"
    BY <2>1 DEF ThreadInv, TableInv
  <2>3. ASSUME NEW t \in Threads, Running(t, "v9") PROVE lvgl[work[t].handle] = "created"
    BY <2>1, <2>3, WhatRuns
  <2>4. ASSUME NEW h \in Handles, lvgl[h] # "free"
        PROVE  \E t \in Threads : h \in Managed(t) \/ (Running(t, "v9") /\ work[t].handle = h)
    BY <2>1, <2>4 DEF HandlesInv, Holds
  <2>5. \A t, u \in Threads : t # u => Managed(t) \cap Managed(u) = {}
    BY <2>1 DEF HandlesInv
  <2>6. ASSUME NEW h \in Handles
        PROVE  /\ lvgl[h] = "rendering" <=> \E t \in Threads : h \in Managed(t)
               /\ lvgl[h] = "created" <=> \E t \in Threads : Running(t, "v9") /\ work[t].handle = h
    BY <2>2, <2>3, <2>4
  <2> QED BY <2>5, <2>6 DEF NothingHalfCreated
<1> QED BY <1>1, DisplayInvariant, PTL

(* A display shows every area that went through all its transactions, in   *)
(* order, and no part of any other.                                        *)
THEOREM CapturesAreWhole == DisplaySpec => []CaptureIsWhole
<1>1. ASSUME DisplayInv PROVE CaptureIsWhole
  BY <1>1 DEF DisplayInv, ThreadInv, TableInv, Shows, CaptureIsWhole, Capture
<1> QED BY <1>1, DisplayInvariant, PTL

(* LVGL is never told twice that an area is done, nor without a callback.  *)
THEOREM CompletionsAreCounted ==
  DisplaySpec => []\A h \in Handles : busy[h] \in {0, 1}
<1>1. ASSUME DisplayInv PROVE \A h \in Handles : busy[h] \in {0, 1}
  BY <1>1 DEF DisplayInv, HandlesInv
<1> QED BY <1>1, DisplayInvariant, PTL

(* What the controller took is in its memory where it was sent, through    *)
(* any orientation and window, until the next transfer.                    *)
THEOREM TransfersReadBack == DisplaySpec => []ReadsBack
<1>1. BenchInv => ReadsBack
  BY DEF BenchInv, Kept, ReadsBack
<1> QED BY <1>1, DisplayInvariant, PTL
=============================================================================
