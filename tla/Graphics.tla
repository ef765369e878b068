------------------------------ MODULE Graphics ------------------------------
(***************************************************************************)
(* Drawing into a buffer of pixels: vg_draw_pixel(), vg_draw_rectangle()   *)
(* and print_xpm() of controllers/graphics/graphic.c, which the graphic.c  *)
(* of lab5 shares but for the buffer it draws to.                          *)
(*                                                                         *)
(* A draw puts a sprite at a position of ints, which become uint16_t on    *)
(* the way.  Its pixels are drawn row by row until one is refused, which   *)
(* is then the result of the whole draw.  A colour is which pixel of which *)
(* sprite it is; the bytes that make one up are left out.                  *)
(***************************************************************************)
EXTENDS Screen

CONSTANTS
  UINT16_RANGE,     \* 65536
  Sprites           \* records of name, w and h

ASSUME GraphicsAssumption ==
  /\ UINT16_RANGE \in Nat \ {0}
  /\ XResolution < UINT16_RANGE /\ YResolution < UINT16_RANGE
  /\ \A s \in Sprites : {s.w, s.h} \subseteq 1 .. UINT16_RANGE - 1

Draw == [sprite : Sprites, at : Position]

Black == << "black", 0 >>
Colour(d, k) == IF d.sprite.name = "black" THEN Black ELSE << d.sprite.name, k >>

(***************************************************************************)
(* The buffer that set_frame_buffer() allocates, pixel by pixel.           *)
(***************************************************************************)
Cells == 0 .. XResolution * YResolution - 1

Filled(colour) == [i \in Cells |-> colour]

-----------------------------------------------------------------------------
\* A slip of Accepted: the first column and row off the screen are let through.
AcceptedInclusive(px) == px.x <= XResolution /\ px.y <= YResolution

(***************************************************************************)
(* vg_draw_pixel(): the arguments that it accepts, and where it writes.    *)
(***************************************************************************)
Accepted(px) == px.x < XResolution /\ px.y < YResolution

Index(px) == XResolution * px.y + px.x

(***************************************************************************)
(* The loops of print_xpm() and vg_draw_rectangle(): pixel k of the draw,  *)
(* and the pixels that are drawn before one is refused.                    *)
(***************************************************************************)
Pixels(d) == 0 .. d.sprite.w * d.sprite.h - 1

PixelAt(d, k) == At((d.at.x + (k % d.sprite.w)) % UINT16_RANGE,
                    (d.at.y + (k \div d.sprite.w)) % UINT16_RANGE)

RefusedPixels(d) == {k \in Pixels(d) : ~Accepted(PixelAt(d, k))}

Drawn(d) == {k \in Pixels(d) : \A r \in RefusedPixels(d) : k < r}

(***************************************************************************)
(* The draw returns 0, and the buffer that it leaves, also when it fails.  *)
(***************************************************************************)
print_xpm(d) == RefusedPixels(d) = {}

Painted(buf, d) ==
  [i \in Cells |->
     LET ks == {k \in Drawn(d) : Index(PixelAt(d, k)) = i}
     IN  IF ks = {} THEN buf[i] ELSE Colour(d, CHOOSE k \in ks : \A j \in ks : j <= k)]

(***************************************************************************)
(* vg_draw_rectangle() of the whole screen, before the screens of scores.  *)
(***************************************************************************)
Screenful == [sprite |-> [name |-> "black", w |-> XResolution, h |-> YResolution],
              at |-> At(0, 0)]

-----------------------------------------------------------------------------
(***************************************************************************)
(* A draw succeeds exactly when its sprite fits the screen, as module      *)
(* Screen has it for the whole game: also at a negative coordinate, which  *)
(* is a large uint16_t and could wrap round to the other side.  Whether it *)
(* succeeds or not, it writes inside the buffer, and only pixels of the    *)
(* sprite's own box, each where it belongs.                                *)
(***************************************************************************)
DrawFits(d) ==
  /\ print_xpm(d) <=> Printable(d.at, d.sprite.w, d.sprite.h)
  /\ \A k \in Drawn(d) :
       /\ Index(PixelAt(d, k)) \in Cells
       /\ PixelAt(d, k) = At(d.at.x + (k % d.sprite.w), d.at.y + (k \div d.sprite.w))

=============================================================================
