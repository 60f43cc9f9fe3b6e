----------------------------- MODULE Scanline -----------------------------
(* How the picture unit makes one line of pixels (ppu/render.rs and         *)
(* ppu/sprite.rs of crates/gb-core): the tiles of background and window,    *)
(* the sprites of the line and their order, and the dots that they add to   *)
(* the time of drawing.  r holds the registers, oam the sprites in order.   *)
EXTENDS Integers, FiniteSets

CONSTANTS
  Color(_, _),   \* the colour number of a column of the tile row at an address
  TileAt(_, _)   \* the tile at an offset of a map: background, window

\* The memory of the tiles, from 0x8000 on.
TileData == 32768 .. 38911

TileRowAddress(unsigned, tile, row) ==
  IF unsigned THEN 32768 + tile * 16 + row * 2
  ELSE 36864 + (IF tile > 127 THEN tile - 256 ELSE tile) * 16 + row * 2

TileColor(r, map, x, y) ==
  Color(TileRowAddress(r.unsigned, TileAt(map, (y \div 8) * 32 + x \div 8), y % 8), x % 8)

BackgroundColor(r, x, line) ==
  IF r.background
  THEN TileColor(r, "background", (x + r.scx) % 256, (line + r.scy) % 256) ELSE 0

WindowVisible(r, line) ==
  r.background /\ r.window /\ line >= r.wy /\ r.wx <= 166

WindowOrigin(r) == r.wx - 7

\* The colour behind the sprites; windowLine counts the lines of the window.
BaseColor(r, x, line, windowLine) ==
  LET windowX == x - WindowOrigin(r)
  IN  IF WindowVisible(r, line) /\ windowX \in 0 .. 255
      THEN TileColor(r, "window", windowX, windowLine) ELSE BackgroundColor(r, x, line)

-----------------------------------------------------------------------------
Height(r) == IF r.tall THEN 16 ELSE 8

Top(sprite) == sprite.y - 16

\* The first ten sprites that the line crosses, wherever on it they lie.
SelectedSprites(r, oam, line) ==
  LET crossed == {i \in DOMAIN oam : line - Top(oam[i]) \in 0 .. Height(r) - 1}
  IN  {i \in crossed : Cardinality({j \in crossed : j < i}) < 10}

\* The leftmost sprite is the first, then the one that comes first in memory.
Before(oam, i, j) == oam[i].x < oam[j].x \/ (oam[i].x = oam[j].x /\ i < j)

Ordered(oam, selected) ==
  [k \in 1 .. Cardinality(selected) |->
     CHOOSE i \in selected : Cardinality({j \in selected : Before(oam, j, i)}) = k - 1]

SpriteColor(r, sprite, x, line) ==
  LET column == x - (sprite.x - 8)
      row == line - Top(sprite)
      shownColumn == IF sprite.flipX THEN 7 - column ELSE column
      shownRow == IF sprite.flipY THEN Height(r) - 1 - row ELSE row
      tile == IF r.tall THEN 2 * (sprite.tile \div 2) + shownRow \div 8 ELSE sprite.tile
  IN  IF column \in 0 .. 7 /\ row \in 0 .. Height(r) - 1
      THEN Color(TileRowAddress(TRUE, tile, shownRow % 8), shownColumn) ELSE 0

\* The sprite that shows at x, 0 for none: the first that is not transparent
\* there decides, also when it hides behind the background itself.
ShownSprite(r, oam, line, x, base) ==
  LET order == Ordered(oam, SelectedSprites(r, oam, line))
      opaque == {k \in DOMAIN order : SpriteColor(r, oam[order[k]], x, line) # 0}
      first == order[CHOOSE k \in opaque : \A l \in opaque : k <= l]
  IN  IF ~ r.objects \/ opaque = {} \/ (oam[first].behind /\ base # 0) THEN 0 ELSE first

-----------------------------------------------------------------------------
\* The tile under the left edge of a sprite and the column in it; tiles of
\* the window are counted from 32.
CoveredTile(r, sprite, line) ==
  LET windowX == (sprite.x - 8) - WindowOrigin(r)
      mapX == (sprite.x + r.scx) % 256
  IN  IF sprite.x >= 8 /\ WindowVisible(r, line) /\ windowX >= 0
      THEN [tile |-> 32 + windowX \div 8, column |-> windowX % 8]
      ELSE [tile |-> mapX \div 8, column |-> mapX % 8]

\* Every sprite on the screen adds six dots, the first over a tile those that
\* are left of the tile.
Charge(r, oam, line, charged, i) ==
  LET covered == CoveredTile(r, oam[i], line)
      rest == IF covered.column > 5 \/ covered.tile \in charged.tiles THEN 0
              ELSE 5 - covered.column
  IN  IF oam[i].x >= 168 THEN charged
      ELSE [dots |-> charged.dots + rest + 6, tiles |-> charged.tiles \cup {covered.tile}]

SpritePenalty(r, oam, line) ==
  LET selected == SelectedSprites(r, oam, line)
      order == Ordered(oam, selected)
      charged[k \in 0 .. Cardinality(selected)] ==
        IF k = 0 THEN [dots |-> 0, tiles |-> {}]
        ELSE Charge(r, oam, line, charged[k - 1], order[k])
  IN  IF r.objects THEN charged[Cardinality(selected)].dots ELSE 0

-----------------------------------------------------------------------------
(* What must hold of a line, whatever the registers and the sprites are.    *)

\* The two bytes of every row of every tile lie in the memory of the tiles,
\* as the conversion of a signed tile expects (ppu/render.rs:53).
TilesAreInVram ==
  \A unsigned \in BOOLEAN : \A tile \in 0 .. 255 : \A row \in 0 .. 7 :
    {TileRowAddress(unsigned, tile, row), TileRowAddress(unsigned, tile, row) + 1}
      \subseteq TileData

\* The tile of a sprite is one of the 64 that are charged, and no two tiles
\* share a mark, those of background and window included: sprites with the
\* same mark see the same left edge of their tile (ppu/sprite.rs:83 and 102).
TilesAreCharged(r, sprites, line) ==
  \A s, t \in {q \in sprites : q.x < 168} :
    LET first == CoveredTile(r, s, line)
        second == CoveredTile(r, t, line)
    IN  /\ first.tile \in 0 .. 63
        /\ first.tile = second.tile =>
             s.x - first.column \in {t.x - second.column + 256 * k : k \in -1 .. 1}

\* Mirroring a sprite mirrors what is drawn of it, across both tiles of a
\* tall one (ppu/sprite.rs:51 and 54).
MirrorsAgree(r, sprite) ==
  \A column \in 0 .. 7 : \A row \in 0 .. Height(r) - 1 :
    SpriteColor(r, [sprite EXCEPT !.flipX = TRUE, !.flipY = TRUE],
                sprite.x - 8 + column, Top(sprite) + row)
      = SpriteColor(r, [sprite EXCEPT !.flipX = FALSE, !.flipY = FALSE],
                    sprite.x - 8 + 7 - column, Top(sprite) + Height(r) - 1 - row)

\* No line has more than ten sprites, and each adds six dots and each tile
\* under them at most five: however many lie on one tile, it is charged once
\* (ppu/sprite.rs:102).
PenaltyIsBounded(r, oam, line) ==
  LET selected == SelectedSprites(r, oam, line)
      tiles == {CoveredTile(r, oam[i], line).tile : i \in selected}
  IN  /\ Cardinality(selected) <= 10
      /\ SpritePenalty(r, oam, line) <= 6 * Cardinality(selected) + 5 * Cardinality(tiles)

\* The sprite that shows is opaque there, selected, and no opaque one of the
\* line lies before it (ppu/render.rs:139).
FirstOpaqueShows(r, oam, line, x, base) ==
  LET shown == ShownSprite(r, oam, line, x, base)
  IN  shown # 0 =>
        /\ shown \in SelectedSprites(r, oam, line)
        /\ oam[shown].behind => base = 0
        /\ \A i \in SelectedSprites(r, oam, line) :
             SpriteColor(r, oam[i], x, line) # 0 => oam[shown].x <= oam[i].x
=============================================================================
