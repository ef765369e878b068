---------------------------- MODULE FramesProofs ----------------------------
(***************************************************************************)
(* Proofs about the graphics driver and its frames, for every screen, set  *)
(* of sprites and scene: a draw reports exactly whether its sprite fits,   *)
(* writes nowhere else, and what swap_buffers() shows is a whole picture.  *)
(***************************************************************************)
EXTENDS Frames, WellFoundedInduction, TLAPS

(***************************************************************************)
(* What the assumptions say of a draw.                                     *)
(***************************************************************************)
NearScreen(d) ==
  /\ d.sprite.w \in Nat \ {0} /\ d.sprite.h \in Nat \ {0}
  /\ d.at.x \in XResolution - UINT16_RANGE .. UINT16_RANGE - 1
  /\ d.at.y \in YResolution - UINT16_RANGE .. UINT16_RANGE - 1

LEMMA GraphicsTypes ==
  /\ XResolution \in Nat /\ YResolution \in Nat /\ UINT16_RANGE \in Nat \ {0}
  /\ XResolution < UINT16_RANGE /\ YResolution < UINT16_RANGE
BY GraphicsAssumption, ScreenAssumption

LEMMA DrawsAreNear == \A d \in Draws : NearScreen(d)
BY GraphicsTypes, GraphicsAssumption, FramesAssumption DEF Draws, NearScreen

-----------------------------------------------------------------------------
(***************************************************************************)
(* The arithmetic of rows and columns.                                     *)
(***************************************************************************)
LEMMA RowsMonotone ==
  ASSUME NEW a \in Int, NEW b \in Int, NEW c \in Nat, a <= b
  PROVE  a * c <= b * c
<1>1. (b - a) * c >= 0
  OBVIOUS
<1>2. (b - a) * c = b * c - a * c
  OBVIOUS
<1> QED
  BY <1>1, <1>2

LEMMA RowsApart ==
  ASSUME NEW a \in Int, NEW b \in Int, NEW c \in Nat, a < b
  PROVE  a * c + c <= b * c
<1>1. (a + 1) * c <= b * c
  BY RowsMonotone
<1>2. (a + 1) * c = a * c + c
  OBVIOUS
<1> QED
  BY <1>1, <1>2

LEMMA SameRowAndColumn ==
  ASSUME NEW w \in Nat \ {0},
         NEW r \in Int, NEW c \in 0 .. w - 1, NEW q \in Int, NEW m \in 0 .. w - 1,
         r * w + c = q * w + m
  PROVE  r = q /\ c = m
<1>1. r * w \in Int /\ q * w \in Int
  OBVIOUS
<1>2. ~(r < q)
  <2>1. r < q => r * w + w <= q * w
    BY RowsApart
  <2> QED
    BY <1>1, <2>1
<1>3. ~(q < r)
  <2>1. q < r => q * w + w <= r * w
    BY RowsApart
  <2> QED
    BY <1>1, <2>1
<1>4. r = q
  BY <1>2, <1>3
<1> QED
  BY <1>1, <1>4

LEMMA Division ==
  ASSUME NEW k \in Nat, NEW w \in Nat \ {0}
  PROVE  /\ k % w \in 0 .. w - 1 /\ k \div w \in Nat
         /\ k = (k \div w) * w + (k % w)
<1>1. k % w \in 0 .. w - 1 /\ k \div w \in Int
  OBVIOUS
<1>2. k = w * (k \div w) + (k % w)
  OBVIOUS
<1>3. w * (k \div w) = (k \div w) * w
  BY <1>1
<1>4. k = (k \div w) * w + (k % w)
  BY <1>2, <1>3
<1>5. k \div w >= 0
  <2>1. k \div w < 0 => (k \div w) * w + w <= 0 * w
    BY <1>1, RowsApart
  <2>2. (k \div w) * w \in Int
    BY <1>1
  <2> QED
    BY <1>1, <1>4, <2>1, <2>2
<1> QED
  BY <1>1, <1>4, <1>5

(***************************************************************************)
(* Pixel k of a sprite w wide and h high is in the row and the column that *)
(* the loops of print_xpm() have reached, and in each there is one.        *)
(***************************************************************************)
LEMMA PixelPlace ==
  ASSUME NEW w \in Nat \ {0}, NEW h \in Nat, NEW k \in 0 .. w * h - 1
  PROVE  k % w \in 0 .. w - 1 /\ k \div w \in 0 .. h - 1
<1>1. k \in Nat /\ w * h \in Int /\ k < w * h
  OBVIOUS
<1>2. /\ k % w \in 0 .. w - 1 /\ k \div w \in Nat
      /\ k = (k \div w) * w + (k % w)
  BY <1>1, Division
<1>3. k \div w < h
  <2>1. h <= k \div w => h * w <= (k \div w) * w
    BY <1>2, RowsMonotone
  <2>2. (k \div w) * w \in Int /\ h * w = w * h
    BY <1>2
  <2> QED
    BY <1>1, <1>2, <2>1, <2>2
<1> QED
  BY <1>2, <1>3

LEMMA PixelOf ==
  ASSUME NEW w \in Nat \ {0}, NEW h \in Nat, NEW r \in 0 .. h - 1, NEW c \in 0 .. w - 1
  PROVE  /\ r * w + c \in 0 .. w * h - 1
         /\ (r * w + c) % w = c /\ (r * w + c) \div w = r
<1>1. r * w \in Nat /\ w * h \in Nat /\ h * w = w * h
  OBVIOUS
<1>2. r * w + w <= h * w
  BY RowsApart
<1>3. r * w + c \in 0 .. w * h - 1
  BY <1>1, <1>2
<1> DEFINE k == r * w + c
<1>4. k \in Nat
  BY <1>1
<1> HIDE DEF k
<1>5. /\ k % w \in 0 .. w - 1 /\ k \div w \in Nat
      /\ k = (k \div w) * w + (k % w)
  BY <1>4, Division
<1>6. k \div w = r /\ k % w = c
  BY <1>5, SameRowAndColumn DEF k
<1> QED
  BY <1>3, <1>6 DEF k

LEMMA UInt16Same == \A n \in 0 .. UINT16_RANGE - 1 : n % UINT16_RANGE = n
BY GraphicsTypes

LEMMA UInt16Negative ==
  \A n \in -UINT16_RANGE .. -1 : n % UINT16_RANGE = n + UINT16_RANGE
BY GraphicsTypes

-----------------------------------------------------------------------------
(***************************************************************************)
(* What vg_draw_pixel() sees of pixel k.                                   *)
(***************************************************************************)
LEMMA PixelTypes ==
  ASSUME NEW d, NearScreen(d), NEW k \in Pixels(d)
  PROVE  /\ k \in Nat
         /\ k % d.sprite.w \in 0 .. d.sprite.w - 1
         /\ k \div d.sprite.w \in 0 .. d.sprite.h - 1
         /\ k = (k \div d.sprite.w) * d.sprite.w + (k % d.sprite.w)
<1>1. /\ k \in 0 .. d.sprite.w * d.sprite.h - 1
      /\ d.sprite.w \in Nat \ {0} /\ d.sprite.h \in Nat
  BY DEF Pixels, NearScreen
<1>2. k \in Nat
  BY <1>1
<1> QED
  BY <1>1, <1>2, PixelPlace, Division

LEMMA PixelsOfDraw ==
  ASSUME NEW d, NearScreen(d), NEW r \in 0 .. d.sprite.h - 1, NEW c \in 0 .. d.sprite.w - 1
  PROVE  /\ r * d.sprite.w + c \in Pixels(d)
         /\ (r * d.sprite.w + c) % d.sprite.w = c /\ (r * d.sprite.w + c) \div d.sprite.w = r
         /\ PixelAt(d, r * d.sprite.w + c)
              = At((d.at.x + c) % UINT16_RANGE, (d.at.y + r) % UINT16_RANGE)
<1> DEFINE k == r * d.sprite.w + c
<1>1. k \in Pixels(d) /\ k % d.sprite.w = c /\ k \div d.sprite.w = r
  BY PixelOf DEF NearScreen, Pixels
<1> HIDE DEF k
<1>2. PixelAt(d, k) = At((d.at.x + c) % UINT16_RANGE, (d.at.y + r) % UINT16_RANGE)
  BY <1>1 DEF PixelAt
<1> QED
  BY <1>1, <1>2 DEF k

(***************************************************************************)
(* A pixel that is drawn is on the screen, at its place in the sprite: a   *)
(* sprite that begins left of the screen or above it is refused at once,   *)
(* and in one that goes beyond 65535 the pixel at 65535 is refused first.  *)
(***************************************************************************)
LEMMA DrawnOnScreen ==
  ASSUME NEW d, NearScreen(d), NEW k \in Drawn(d)
  PROVE  /\ d.at.x >= 0 /\ d.at.x + (k % d.sprite.w) < XResolution
         /\ d.at.y >= 0 /\ d.at.y + (k \div d.sprite.w) < YResolution
         /\ PixelAt(d, k) = At(d.at.x + (k % d.sprite.w), d.at.y + (k \div d.sprite.w))
<1> USE GraphicsTypes
<1> DEFINE w == d.sprite.w
           c == k % w
           r == k \div w
<1>1. /\ k \in Nat /\ c \in 0 .. w - 1 /\ r \in 0 .. d.sprite.h - 1
      /\ k = r * w + c
  BY PixelTypes DEF Drawn
<1>2. \A q \in Pixels(d) : ~Accepted(PixelAt(d, q)) => k < q
  BY DEF Drawn, RefusedPixels
<1>3. Accepted(PixelAt(d, k))
  BY <1>1, <1>2 DEF Drawn
<1>4. (d.at.x + c) % UINT16_RANGE < XResolution /\ (d.at.y + r) % UINT16_RANGE < YResolution
  BY <1>3 DEF Accepted, PixelAt, At
<1>5. w \in Nat \ {0} /\ d.sprite.h \in Nat \ {0}
  BY DEF NearScreen
<1>6. /\ d.at.x \in XResolution - UINT16_RANGE .. UINT16_RANGE - 1
      /\ d.at.y \in YResolution - UINT16_RANGE .. UINT16_RANGE - 1
  BY DEF NearScreen
<1>7. PixelAt(d, k) = At((d.at.x + c) % UINT16_RANGE, (d.at.y + r) % UINT16_RANGE)
  BY DEF PixelAt
<1>8. \A i \in 0 .. d.sprite.h - 1, j \in 0 .. w - 1 :
        \/ (d.at.x + j) % UINT16_RANGE < XResolution /\ (d.at.y + i) % UINT16_RANGE < YResolution
        \/ k < i * w + j
  <2> SUFFICES ASSUME NEW i \in 0 .. d.sprite.h - 1, NEW j \in 0 .. w - 1
               PROVE  \/ Accepted(At((d.at.x + j) % UINT16_RANGE, (d.at.y + i) % UINT16_RANGE))
                      \/ k < i * w + j
    BY DEF Accepted, At
  <2> DEFINE q == i * w + j
  <2>1. /\ q \in Pixels(d)
        /\ PixelAt(d, q) = At((d.at.x + j) % UINT16_RANGE, (d.at.y + i) % UINT16_RANGE)
    BY PixelsOfDraw
  <2> HIDE DEF q
  <2>2. Accepted(PixelAt(d, q)) \/ k < q
    BY <1>2, <2>1
  <2> QED
    BY <2>1, <2>2 DEF q
<1> HIDE DEF w, c, r
<1>9. d.at.x >= 0 /\ d.at.y >= 0
  <2>1. 0 \in 0 .. d.sprite.h - 1 /\ 0 \in 0 .. w - 1 /\ 0 * w + 0 = 0
    BY <1>5
  <2>2. (d.at.x + 0) % UINT16_RANGE < XResolution /\ (d.at.y + 0) % UINT16_RANGE < YResolution
    BY <1>1, <1>8, <2>1
  <2>3. d.at.x % UINT16_RANGE < XResolution /\ d.at.y % UINT16_RANGE < YResolution
    BY <1>6, <2>2
  <2> QED
    BY <1>6, <2>3, UInt16Negative
<1>10. d.at.x + c < UINT16_RANGE
  <2> SUFFICES ASSUME d.at.x + c >= UINT16_RANGE PROVE FALSE
    BY <1>1, <1>5, <1>6
  <2> DEFINE j == UINT16_RANGE - 1 - d.at.x
  <2>1. j \in 0 .. w - 1 /\ j < c /\ d.at.x + j = UINT16_RANGE - 1
    BY <1>1, <1>5, <1>6, <1>9
  <2> HIDE DEF j
  <2>2. (d.at.x + j) % UINT16_RANGE = UINT16_RANGE - 1
    BY <2>1, UInt16Same
  <2>3. k < r * w + j
    BY <1>1, <1>8, <2>1, <2>2
  <2>4. r * w \in Int
    BY <1>1, <1>5
  <2> QED
    BY <1>1, <1>5, <2>1, <2>3, <2>4
<1>11. d.at.y + r < UINT16_RANGE
  <2> SUFFICES ASSUME d.at.y + r >= UINT16_RANGE PROVE FALSE
    BY <1>1, <1>5, <1>6
  <2> DEFINE i == UINT16_RANGE - 1 - d.at.y
  <2>1. i \in 0 .. d.sprite.h - 1 /\ i < r /\ d.at.y + i = UINT16_RANGE - 1
    BY <1>1, <1>5, <1>6, <1>9
  <2> HIDE DEF i
  <2>2. (d.at.y + i) % UINT16_RANGE = UINT16_RANGE - 1
    BY <2>1, UInt16Same
  <2>3. 0 \in 0 .. w - 1
    BY <1>5
  <2>4. k < i * w + 0
    BY <1>8, <2>1, <2>2, <2>3
  <2>5. i * w + w <= r * w
    BY <1>1, <1>5, <2>1, RowsApart
  <2>6. i * w \in Int /\ r * w \in Int
    BY <1>1, <1>5, <2>1
  <2> QED
    BY <1>1, <1>5, <2>4, <2>5, <2>6
<1>12. /\ (d.at.x + c) % UINT16_RANGE = d.at.x + c
       /\ (d.at.y + r) % UINT16_RANGE = d.at.y + r
  BY <1>1, <1>5, <1>6, <1>9, <1>10, <1>11, UInt16Same
<1> QED
  BY <1>4, <1>7, <1>9, <1>12 DEF w, c, r

(***************************************************************************)
(* A point of the screen has its own cell of the buffer.                   *)
(***************************************************************************)
LEMMA PointsAreCells ==
  ASSUME NEW px \in 0 .. XResolution - 1, NEW py \in 0 .. YResolution - 1
  PROVE  Index(At(px, py)) \in Cells
<1> USE GraphicsTypes
<1>1. py * XResolution + XResolution <= YResolution * XResolution
  BY RowsApart
<1>2. py * XResolution \in Nat /\ XResolution * py = py * XResolution
  OBVIOUS
<1>3. YResolution * XResolution = XResolution * YResolution /\ XResolution * YResolution \in Nat
  OBVIOUS
<1> QED
  BY <1>1, <1>2, <1>3 DEF Index, At, Cells

LEMMA CellsAreDistinct ==
  ASSUME NEW px \in 0 .. XResolution - 1, NEW py \in 0 .. YResolution - 1,
         NEW qx \in 0 .. XResolution - 1, NEW qy \in 0 .. YResolution - 1,
         Index(At(px, py)) = Index(At(qx, qy))
  PROVE  px = qx /\ py = qy
<1> USE GraphicsTypes
<1>1. XResolution * py = py * XResolution /\ XResolution * qy = qy * XResolution
  OBVIOUS
<1>2. py * XResolution + px = qy * XResolution + qx
  BY <1>1 DEF Index, At
<1>3. XResolution \in Nat \ {0}
  OBVIOUS
<1> QED
  BY <1>2, <1>3, SameRowAndColumn

(***************************************************************************)
(* The result of a draw, whatever the sprite and wherever it is put.       *)
(***************************************************************************)
LEMMA FitsWhenAccepted ==
  ASSUME NEW d, NearScreen(d), print_xpm(d)
  PROVE  Printable(d.at, d.sprite.w, d.sprite.h)
<1> USE GraphicsTypes
<1>1. Drawn(d) = Pixels(d)
  BY DEF print_xpm, Drawn
<1>2. d.sprite.w \in Nat \ {0} /\ d.sprite.h \in Nat \ {0} /\ d.at.x \in Int /\ d.at.y \in Int
  BY DEF NearScreen
<1> DEFINE w == d.sprite.w
           h == d.sprite.h
           last == (h - 1) * w + (w - 1)
<1>3. h - 1 \in 0 .. h - 1 /\ w - 1 \in 0 .. w - 1
  BY <1>2
<1>4. last \in Drawn(d) /\ last % w = w - 1 /\ last \div w = h - 1
  <2>1. Pixels(d) = 0 .. w * h - 1
    BY DEF Pixels
  <2> HIDE DEF w, h
  <2>2. w \in Nat \ {0} /\ h \in Nat
    BY <1>2 DEF w, h
  <2>3. last \in 0 .. w * h - 1 /\ last % w = w - 1 /\ last \div w = h - 1
    BY <1>3, <2>2, PixelOf
  <2> QED
    BY <1>1, <2>1, <2>3
<1> HIDE DEF last
<1>5. /\ d.at.x >= 0 /\ d.at.x + (w - 1) < XResolution
      /\ d.at.y >= 0 /\ d.at.y + (h - 1) < YResolution
  BY <1>4, DrawnOnScreen
<1> QED
  BY <1>2, <1>5 DEF Printable

LEMMA AcceptedInRows ==
  ASSUME NEW d, NearScreen(d), d.at.x >= 0, d.at.x + d.sprite.w <= XResolution, d.at.y >= 0,
         NEW k \in Pixels(d), d.at.y + (k \div d.sprite.w) < YResolution
  PROVE  k \in Drawn(d)
<1> USE GraphicsTypes
<1>1. d.sprite.w \in Nat \ {0} /\ d.sprite.h \in Nat \ {0} /\ d.at.x \in Int /\ d.at.y \in Int
  BY DEF NearScreen
<1> SUFFICES ASSUME NEW q \in Pixels(d), ~Accepted(PixelAt(d, q))
             PROVE  k < q
  BY DEF Drawn, RefusedPixels
<1> DEFINE w == d.sprite.w
           kr == k \div w
           kc == k % w
           qr == q \div w
           qc == q % w
<1>2. /\ k \in Nat /\ kc \in 0 .. w - 1 /\ kr \in Nat /\ k = kr * w + kc
      /\ q \in Nat /\ qc \in 0 .. w - 1 /\ qr \in Nat /\ q = qr * w + qc
  BY PixelTypes
<1>3. w \in Nat \ {0} /\ d.at.x + w <= XResolution /\ d.at.y + kr < YResolution
  BY <1>1
<1>4. PixelAt(d, q) = At((d.at.x + qc) % UINT16_RANGE, (d.at.y + qr) % UINT16_RANGE)
  BY DEF PixelAt
<1> HIDE DEF w, kr, kc, qr, qc
<1>5. d.at.y + qr >= YResolution
  <2> SUFFICES ASSUME d.at.y + qr < YResolution PROVE FALSE
    BY <1>1, <1>2, <1>3
  <2>1. /\ d.at.x + qc \in 0 .. UINT16_RANGE - 1 /\ d.at.x + qc < XResolution
        /\ d.at.y + qr \in 0 .. UINT16_RANGE - 1
    BY <1>1, <1>2, <1>3
  <2>2. PixelAt(d, q) = At(d.at.x + qc, d.at.y + qr)
    BY <1>4, <2>1, UInt16Same
  <2> QED
    BY <2>1, <2>2 DEF Accepted, At
<1>6. kr < qr
  BY <1>1, <1>2, <1>3, <1>5
<1>7. kr * w + w <= qr * w
  BY <1>1, <1>2, <1>3, <1>6, RowsApart
<1>8. kr * w \in Int /\ qr * w \in Int
  BY <1>1, <1>2, <1>3
<1> QED
  BY <1>1, <1>2, <1>3, <1>7, <1>8

LEMMA AcceptedWhenFits ==
  ASSUME NEW d, NearScreen(d), Printable(d.at, d.sprite.w, d.sprite.h)
  PROVE  print_xpm(d)
<1> USE GraphicsTypes
<1>1. d.sprite.w \in Nat \ {0} /\ d.sprite.h \in Nat \ {0} /\ d.at.x \in Int /\ d.at.y \in Int
  BY DEF NearScreen
<1>2. ASSUME NEW k \in Pixels(d) PROVE k \in Drawn(d)
  <2>1. k \div d.sprite.w \in 0 .. d.sprite.h - 1
    BY PixelTypes
  <2>2. d.at.y + (k \div d.sprite.w) < YResolution
    BY <1>1, <2>1 DEF Printable
  <2> QED
    BY <2>2, AcceptedInRows DEF Printable
<1>3. ASSUME NEW k \in RefusedPixels(d) PROVE FALSE
  <2>1. k \in Pixels(d) /\ k < k /\ k \in Nat
    BY <1>2, PixelTypes DEF RefusedPixels, Drawn
  <2> QED
    BY <2>1
<1> QED
  BY <1>3 DEF print_xpm

LEMMA NearDrawsFit ==
  ASSUME NEW d, NearScreen(d)
  PROVE  DrawFits(d)
<1> USE GraphicsTypes
<1>1. print_xpm(d) <=> Printable(d.at, d.sprite.w, d.sprite.h)
  BY FitsWhenAccepted, AcceptedWhenFits
<1>2. ASSUME NEW k \in Drawn(d)
      PROVE  /\ Index(PixelAt(d, k)) \in Cells
             /\ PixelAt(d, k) = At(d.at.x + (k % d.sprite.w), d.at.y + (k \div d.sprite.w))
  <2>1. /\ d.at.x >= 0 /\ d.at.x + (k % d.sprite.w) < XResolution
        /\ d.at.y >= 0 /\ d.at.y + (k \div d.sprite.w) < YResolution
        /\ PixelAt(d, k) = At(d.at.x + (k % d.sprite.w), d.at.y + (k \div d.sprite.w))
    BY DrawnOnScreen
  <2>2. k % d.sprite.w \in Nat /\ k \div d.sprite.w \in Nat /\ d.at.x \in Int /\ d.at.y \in Int
    BY PixelTypes DEF Drawn, NearScreen
  <2> QED
    BY <2>1, <2>2, PointsAreCells
<1> QED
  BY <1>1, <1>2 DEF DrawFits

-----------------------------------------------------------------------------
(***************************************************************************)
(* What a draw leaves in the buffer, if its sprite does not stick out at   *)
(* the sides or above: the sprite, as far as it is on the screen, and what *)
(* was there before everywhere else.                                       *)
(***************************************************************************)
BetweenSides(d) == d.at.x >= 0 /\ d.at.x + d.sprite.w <= XResolution /\ d.at.y >= 0

PixelOver(d, p) == (p.y - d.at.y) * d.sprite.w + (p.x - d.at.x)

LEMMA PointTypes ==
  ASSUME NEW p \in D!Point
  PROVE  /\ p.x \in 0 .. XResolution - 1 /\ p.y \in 0 .. YResolution - 1
         /\ p.x \in Int /\ p.y \in Int
         /\ p = At(p.x, p.y)
BY GraphicsTypes DEF D!Point, At

LEMMA PixelsOverPoint ==
  ASSUME NEW d, NearScreen(d), BetweenSides(d), NEW p \in D!Point
  PROVE  {k \in Drawn(d) : Index(PixelAt(d, k)) = Index(p)}
           = IF D!Covers(d, p) THEN {PixelOver(d, p)} ELSE {}
<1> USE GraphicsTypes
<1>1. /\ p.x \in 0 .. XResolution - 1 /\ p.y \in 0 .. YResolution - 1
      /\ p.x \in Int /\ p.y \in Int /\ p = At(p.x, p.y)
  BY PointTypes
<1>2. d.sprite.w \in Nat \ {0} /\ d.sprite.h \in Nat \ {0} /\ d.at.x \in Int /\ d.at.y \in Int
  BY DEF NearScreen
<1>3. ASSUME NEW k \in Drawn(d), Index(PixelAt(d, k)) = Index(p)
      PROVE  D!Covers(d, p) /\ k = PixelOver(d, p)
  <2> DEFINE c == k % d.sprite.w
             r == k \div d.sprite.w
  <2>1. /\ d.at.x >= 0 /\ d.at.x + c < XResolution
        /\ d.at.y >= 0 /\ d.at.y + r < YResolution
        /\ PixelAt(d, k) = At(d.at.x + c, d.at.y + r)
    BY DrawnOnScreen
  <2>2. /\ c \in 0 .. d.sprite.w - 1 /\ r \in 0 .. d.sprite.h - 1
        /\ k = r * d.sprite.w + c
    BY PixelTypes DEF Drawn
  <2> HIDE DEF c, r
  <2>3. d.at.x + c \in 0 .. XResolution - 1 /\ d.at.y + r \in 0 .. YResolution - 1
    BY <1>2, <2>1, <2>2
  <2>4. d.at.x + c = p.x /\ d.at.y + r = p.y
    BY <1>1, <1>3, <2>1, <2>3, CellsAreDistinct
  <2>5. c = p.x - d.at.x /\ r = p.y - d.at.y
    BY <1>1, <1>2, <2>2, <2>4
  <2>6. k = PixelOver(d, p)
    BY <2>2, <2>5 DEF PixelOver
  <2>7. D!Covers(d, p)
    BY <1>1, <1>2, <2>2, <2>4 DEF D!Covers
  <2> QED
    BY <2>6, <2>7
<1>4. ASSUME D!Covers(d, p)
      PROVE  PixelOver(d, p) \in Drawn(d) /\ Index(PixelAt(d, PixelOver(d, p))) = Index(p)
  <2> DEFINE c == p.x - d.at.x
             r == p.y - d.at.y
             k == r * d.sprite.w + c
  <2>1. /\ c \in 0 .. d.sprite.w - 1 /\ r \in 0 .. d.sprite.h - 1
        /\ d.at.x + c = p.x /\ d.at.y + r = p.y
    BY <1>1, <1>2, <1>4 DEF D!Covers
  <2> HIDE DEF c, r
  <2>2. k \in Pixels(d) /\ k % d.sprite.w = c /\ k \div d.sprite.w = r
    BY <2>1, PixelsOfDraw
  <2> HIDE DEF k
  <2>3. d.at.y + (k \div d.sprite.w) < YResolution
    BY <1>1, <2>1, <2>2
  <2>4. k \in Drawn(d)
    BY <2>2, <2>3, AcceptedInRows DEF BetweenSides
  <2>5. PixelAt(d, k) = p
    BY <1>1, <2>1, <2>2, <2>4, DrawnOnScreen
  <2>6. k = PixelOver(d, p)
    BY DEF k, c, r, PixelOver
  <2> QED
    BY <2>4, <2>5, <2>6
<1>5. CASE D!Covers(d, p)
  BY <1>3, <1>4, <1>5
<1>6. CASE ~D!Covers(d, p)
  BY <1>3, <1>6
<1> QED
  BY <1>5, <1>6

LEMMA PaintedAt ==
  ASSUME NEW buf, NEW d, NearScreen(d), BetweenSides(d), NEW p \in D!Point
  PROVE  Painted(buf, d)[Index(p)]
           = IF D!Covers(d, p) THEN Colour(d, PixelOver(d, p)) ELSE buf[Index(p)]
<1> DEFINE ks == {k \in Drawn(d) : Index(PixelAt(d, k)) = Index(p)}
<1>1. Index(p) \in Cells
  BY PointTypes, PointsAreCells
<1>2. Painted(buf, d)[Index(p)]
        = IF ks = {} THEN buf[Index(p)] ELSE Colour(d, CHOOSE k \in ks : \A j \in ks : j <= k)
  BY <1>1 DEF Painted
<1>3. ks = IF D!Covers(d, p) THEN {PixelOver(d, p)} ELSE {}
  BY PixelsOverPoint
<1> HIDE DEF ks
<1>4. CASE D!Covers(d, p)
  <2>1. ks = {PixelOver(d, p)}
    BY <1>3, <1>4
  <2>2. PixelOver(d, p) \in Int
    BY PointTypes DEF PixelOver, NearScreen
  <2>3. (CHOOSE k \in ks : \A j \in ks : j <= k) = PixelOver(d, p)
    BY <2>1, <2>2
  <2> QED
    BY <1>2, <1>4, <2>1, <2>3
<1>5. CASE ~D!Covers(d, p)
  BY <1>2, <1>3, <1>5
<1> QED
  BY <1>4, <1>5

(***************************************************************************)
(* Of some numbers up to n, one is the greatest.                           *)
(***************************************************************************)
LEMMA GreatestBelow ==
  ASSUME NEW n \in Nat, NEW T, T \subseteq 1 .. n, T # {}
  PROVE  \E i \in T : \A j \in T : j <= i
<1> DEFINE Less == {p \in Nat \X Nat : p[1] < p[2]}
           gaps == {g \in Nat : n - g \in T}
<1>1. IsWellFoundedOn(Less, Nat)
  BY NatLessThanWellFounded DEF OpToRel
<1>2. \A i \in T : n - i \in gaps
  BY DEF gaps
<1>3. gaps \subseteq Nat /\ gaps # {}
  BY <1>2
<1>4. PICK g \in gaps : \A m \in gaps : << m, g >> \notin Less
  <2> HIDE DEF Less, gaps
  <2> QED
    BY <1>1, <1>3, WFMin
<1>5. n - g \in T /\ g \in Nat
  BY <1>4
<1>6. ASSUME NEW j \in T PROVE j <= n - g
  <2>1. n - j \in gaps
    BY <1>2
  <2>2. ~(n - j < g)
    BY <1>4, <1>5, <2>1
  <2> QED
    BY <1>5, <2>2
<1> QED
  BY <1>5, <1>6

(***************************************************************************)
(* The picture of a scene with one more sprite.                            *)
(***************************************************************************)
LEMMA ColourAfter ==
  ASSUME NEW sc \in Seq(Draws), NEW d \in Draws, NEW p \in D!Point
  PROVE  D!ColourAt(Append(sc, d), p)
           = IF D!Covers(d, p) THEN << d.sprite.name, PixelOver(d, p) >>
                               ELSE D!ColourAt(sc, p)
<1> DEFINE after == Append(sc, d)
           n == Len(sc) + 1
           overBefore == {i \in DOMAIN sc : D!Covers(sc[i], p)}
           over == {i \in DOMAIN after : D!Covers(after[i], p)}
<1>1. /\ Len(sc) \in Nat /\ DOMAIN sc = 1 .. Len(sc) /\ DOMAIN after = 1 .. n
      /\ after[n] = d /\ \A i \in 1 .. Len(sc) : after[i] = sc[i]
  OBVIOUS
<1> HIDE DEF after
<1>2. CASE D!Covers(d, p)
  <2>1. n \in over /\ \A j \in over : j <= n
    BY <1>1, <1>2
  <2>2. \A i \in over : (\A j \in over : j <= i) => i = n
    BY <1>1, <2>1
  <2> HIDE DEF over
  <2>3. (CHOOSE i \in over : \A j \in over : j <= i) = n
    BY <2>1, <2>2
  <2>4. D!ColourAt(after, p)
          = << d.sprite.name, (p.y - d.at.y) * d.sprite.w + p.x - d.at.x >>
    BY <1>1, <2>1, <2>3 DEF D!ColourAt, over
  <2>5. (p.y - d.at.y) * d.sprite.w + p.x - d.at.x = PixelOver(d, p)
    BY PointTypes, DrawsAreNear DEF PixelOver, NearScreen
  <2> QED
    BY <1>2, <2>4, <2>5 DEF after
<1>3. CASE ~D!Covers(d, p)
  <2>1. over = overBefore
    BY <1>1, <1>3
  <2> DEFINE m == CHOOSE i \in over : \A j \in over : j <= i
  <2>2. over \subseteq 1 .. Len(sc)
    BY <1>1, <2>1
  <2>3. over # {} => m \in 1 .. Len(sc) /\ after[m] = sc[m]
    <3> HIDE DEF over
    <3>1. over # {} => \E i \in over : \A j \in over : j <= i
      BY <1>1, <2>2, GreatestBelow
    <3> QED
      BY <1>1, <2>2, <3>1
  <2> DEFINE seen(e) == << e.sprite.name, (p.y - e.at.y) * e.sprite.w + p.x - e.at.x >>
  <2>4. D!ColourAt(after, p) = IF over = {} THEN Black ELSE seen(after[m])
    BY DEF D!ColourAt
  <2>5. D!ColourAt(sc, p) = IF overBefore = {} THEN Black
                            ELSE seen(sc[CHOOSE i \in overBefore : \A j \in overBefore : j <= i])
    BY DEF D!ColourAt
  <2> HIDE DEF over, overBefore, seen
  <2>6. D!ColourAt(after, p) = D!ColourAt(sc, p)
    BY <2>1, <2>3, <2>4, <2>5
  <2> QED
    BY <1>3, <2>6 DEF after
<1> QED
  BY <1>2, <1>3

-----------------------------------------------------------------------------
(***************************************************************************)
(* The inductive invariant: while a screen is drawn, back_buf is the       *)
(* picture of the sprites drawn so far.                                    *)
(***************************************************************************)
BufferIsScene ==
  phase = "drawing" => \A p \in D!Point : back_buf[Index(p)] = D!ColourAt(scene, p)

FramesInv == scene \in Seq(Draws) /\ BufferIsScene

LEMMA BlankIsEmptyScene ==
  ASSUME NEW p \in D!Point
  PROVE  Filled(Black)[Index(p)] = D!ColourAt(<< >>, p)
<1>1. Index(p) \in Cells
  BY PointTypes, PointsAreCells
<1> QED
  BY <1>1 DEF Filled, D!ColourAt

LEMMA ScreenfulIsBlank ==
  ASSUME NEW buf, NEW p \in D!Point
  PROVE  Painted(buf, Screenful)[Index(p)] = Black
<1> USE GraphicsTypes
<1>1. /\ p.x \in 0 .. XResolution - 1 /\ p.y \in 0 .. YResolution - 1
      /\ p.x \in Int /\ p.y \in Int
  BY PointTypes
<1>2. NearScreen(Screenful) /\ BetweenSides(Screenful)
  BY <1>1 DEF NearScreen, BetweenSides, Screenful, At
<1>3. D!Covers(Screenful, p)
  BY <1>1 DEF D!Covers, Screenful, At
<1>4. Colour(Screenful, PixelOver(Screenful, p)) = Black
  BY DEF Colour, Screenful
<1> QED
  BY <1>2, <1>3, <1>4, PaintedAt

LEMMA DrawKeepsBuffer ==
  ASSUME FramesInv, NEW d \in Draws, DrawNext(d), BetweenSides(d)
  PROVE  \A p \in D!Point : back_buf'[Index(p)] = D!ColourAt(scene', p)
<1> SUFFICES ASSUME NEW p \in D!Point
             PROVE  back_buf'[Index(p)] = D!ColourAt(scene', p)
  OBVIOUS
<1>1. scene \in Seq(Draws) /\ back_buf[Index(p)] = D!ColourAt(scene, p)
  BY DEF FramesInv, BufferIsScene, DrawNext
<1>2. NearScreen(d)
  BY DrawsAreNear
<1>3. back_buf'[Index(p)]
        = IF D!Covers(d, p) THEN Colour(d, PixelOver(d, p)) ELSE back_buf[Index(p)]
  BY <1>2, PaintedAt DEF DrawNext
<1>4. D!ColourAt(scene', p)
        = IF D!Covers(d, p) THEN << d.sprite.name, PixelOver(d, p) >>
                            ELSE D!ColourAt(scene, p)
  BY <1>1, ColourAfter DEF DrawNext
<1>5. Colour(d, PixelOver(d, p)) = << d.sprite.name, PixelOver(d, p) >>
  BY FramesAssumption DEF Colour, Draws
<1> QED
  BY <1>1, <1>3, <1>4, <1>5

LEMMA FramesInvKept == FramesInv /\ [FramesNext]_framesVars => FramesInv'
<1> SUFFICES ASSUME FramesInv, [FramesNext]_framesVars PROVE FramesInv'
  OBVIOUS
<1>1. CASE SetUp
  BY <1>1 DEF SetUp, FramesInv, BufferIsScene
<1>2. ASSUME NEW k \in Kind, Clear(k) PROVE FramesInv'
  <2>1. scene' = << >> /\ scene' \in Seq(Draws)
    BY <1>2 DEF Clear
  <2>2. ASSUME NEW p \in D!Point PROVE back_buf'[Index(p)] = D!ColourAt(scene', p)
    <3>1. D!ColourAt(<< >>, p) = Black /\ Filled(Black)[Index(p)] = Black
      BY BlankIsEmptyScene DEF D!ColourAt
    <3>2. Painted(back_buf, Screenful)[Index(p)] = Black
      BY ScreenfulIsBlank
    <3> QED
      BY <1>2, <2>1, <3>1, <3>2 DEF Clear
  <2> QED
    BY <2>1, <2>2 DEF FramesInv, BufferIsScene
<1>3. ASSUME NEW d \in Draws, DrawNext(d), phase' = "drawing" => BetweenSides(d)
      PROVE  FramesInv'
  <2>1. scene' \in Seq(Draws)
    BY <1>3 DEF DrawNext, FramesInv
  <2>2. phase' = "drawing" => \A p \in D!Point : back_buf'[Index(p)] = D!ColourAt(scene', p)
    BY <1>3, DrawKeepsBuffer
  <2> QED
    BY <2>1, <2>2 DEF FramesInv, BufferIsScene
<1>4. CASE DrawOrEnd
  <2>1. PICK d \in Draws : DrawNext(d) /\ phase' = IF print_xpm(d) THEN "drawing" ELSE "ended"
    BY <1>4 DEF DrawOrEnd
  <2>2. phase' = "drawing" => print_xpm(d)
    BY <2>1
  <2>3. print_xpm(d) => BetweenSides(d)
    BY DrawsAreNear, FitsWhenAccepted DEF Printable, BetweenSides
  <2> QED
    BY <1>3, <2>1, <2>2, <2>3
<1>5. CASE DrawLoosely
  BY <1>3, <1>5 DEF DrawLoosely, LooseDraws, BetweenSides
<1>6. CASE swap_buffers
  BY <1>6 DEF swap_buffers, FramesInv, BufferIsScene
<1>7. CASE StartGame
  BY <1>7 DEF StartGame, FramesInv, BufferIsScene
<1>8. CASE UNCHANGED framesVars
  BY <1>8 DEF framesVars, FramesInv, BufferIsScene
<1> QED
  BY <1>1, <1>2, <1>4, <1>5, <1>6, <1>7, <1>8 DEF FramesNext

(***************************************************************************)
(* FramesInv is an invariant of the frames.                                *)
(***************************************************************************)
THEOREM FramesInvariant == FramesSpec => []FramesInv
<1>1. FramesInit => FramesInv
  BY DEF FramesInit, FramesInv, BufferIsScene
<1> QED
  BY <1>1, FramesInvKept, PTL DEF FramesSpec

(***************************************************************************)
(* Every draw of every scene reports exactly whether its sprite fits the   *)
(* screen, and writes inside back_buf and inside the sprite's own box: no  *)
(* int that print_xpm() turns into a uint16_t wraps round onto the screen. *)
(***************************************************************************)
THEOREM EveryDrawFits == FramesSpec => []DrawsFit
<1>1. FramesInv => DrawsFit
  <2> SUFFICES ASSUME FramesInv, NEW i \in DOMAIN scene PROVE DrawFits(scene[i])
    BY DEF DrawsFit
  <2>1. scene[i] \in Draws
    BY DEF FramesInv
  <2> QED
    BY <2>1, DrawsAreNear, NearDrawsFit
<1> QED
  BY <1>1, FramesInvariant, PTL

(***************************************************************************)
(* Double buffering: the frames implement module Display, so that what is  *)
(* on the screen is always the whole picture of one scene.  swap_buffers() *)
(* is Show, and everything else is a stutter.                              *)
(***************************************************************************)
THEOREM FramesImplementDisplay == FramesSpec => DisplayPromised
<1> DEFINE seen == [p \in [x : 0 .. XResolution - 1, y : 0 .. YResolution - 1]
                     |-> video_mem[Index(p)]]
<1>1. FramesInit => D!DisplayInit
  <2> SUFFICES ASSUME FramesInit PROVE D!DisplayInit
    OBVIOUS
  <2>1. video_mem = Filled(Black) /\ shown = << >>
    BY DEF FramesInit
  <2>2. \A p \in D!Point : video_mem[Index(p)] = D!ColourAt(shown, p)
    BY <2>1, BlankIsEmptyScene
  <2> QED
    BY <2>1, <2>2 DEF D!DisplayInit, D!Picture, D!Point
<1>2. FramesInv /\ [FramesNext]_framesVars => [D!Show]_<<seen, shown>>
  <2> SUFFICES ASSUME FramesInv, [FramesNext]_framesVars
               PROVE  [D!Show]_<<seen, shown>>
    OBVIOUS
  <2>1. CASE swap_buffers
    <3>1. \A p \in D!Point : video_mem'[Index(p)] = D!ColourAt(shown', p)
      BY <2>1 DEF swap_buffers, FramesInv, BufferIsScene
    <3> QED
      BY <3>1 DEF D!Show, D!Picture, D!Point
  <2>2. CASE UNCHANGED << video_mem, shown >>
    BY <2>2
  <2> QED
    BY <2>1, <2>2
       DEF FramesNext, SetUp, Clear, DrawOrEnd, DrawLoosely, DrawNext, StartGame,
                      framesVars
<1> QED
  BY <1>1, <1>2, FramesInvariant, PTL DEF FramesSpec, DisplayPromised, D!DisplaySpec

=============================================================================
