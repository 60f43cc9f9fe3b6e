------------------------------- MODULE MCCore -------------------------------
(* The units of the emulator core.  The machine, its picture, its sound and *)
(* its cartridge share no state in the model, so that each is explored by   *)
(* itself: unit is the one that runs, the others stay as they started.      *)
EXTENDS MCMachine, MCPpu, Apu, Cartridge, Arithmetic, Scanline

VARIABLE unit

MCMaxLength == [c \in Channel |-> IF c = "wave" THEN 3 ELSE 2]

\* A score uses the registers of one channel.
ScoreOf(c) ==
  {w \in [register : {"sweep"}, channel : {"pulse1"}, pace : 0 .. MaxPace, negate : BOOLEAN,
          shift : 0 .. MaxShift]
       \cup [register : {"length"}, channel : {c}, raw : {0, 1}]
       \cup [register : {"dac"}, channel : {c}, on : BOOLEAN]
       \cup [register : {"low"}, channel : {c} \ {"noise"}, low : 0 .. Low - 1]
       \cup [register : {"control"}, channel : {c}, high : 0 .. High - 1,
             lengthOn : BOOLEAN, trigger : BOOLEAN] : w.channel = c}

MCScores == {ScoreOf(c) : c \in Channel}

Board(mapper, battery, timer, rumble, roms, rams) ==
  [features |-> Feature(mapper, TRUE, battery, timer, rumble), roms |-> roms, rams |-> rams]

MCHeaders ==
  {Board("RomOnly", TRUE, FALSE, FALSE, 2, 1), Board("Mbc1", TRUE, FALSE, FALSE, 4, 4),
   Board("Mbc3", TRUE, TRUE, FALSE, 4, 1), Board("Mbc5", TRUE, FALSE, FALSE, 4, 1),
   Board("Mbc5", FALSE, FALSE, TRUE, 4, 1)}

ASSUME InstructionsFitTheDecoder

-----------------------------------------------------------------------------
\* A picture in which rows and columns of a tile differ, some of them clear.
MCColor(address, column) == (address \div 2 + 3 * (column \div 2) + column) % 4

MCTileAt(map, offset) == (offset * 5 + (IF map = "window" THEN 100 ELSE 0)) % 256

\* Registers at the edges of the screen and of the arithmetic.
LcdRegisters ==
  [background : {TRUE}, window : BOOLEAN, objects : {TRUE}, tall : BOOLEAN, unsigned : BOOLEAN,
   scx : {0, 3, 255}, scy : {0, 200}, wx : {0, 7, 166, 167}, wy : {0, 100}]

Sprite(x, y, flag) ==
  [x |-> x, y |-> y, tile |-> 3, flipX |-> flag, flipY |-> ~ flag, behind |-> flag]

EdgeSprites == {Sprite(x, 16, FALSE) : x \in {0, 1, 7, 8, 9, 15, 100, 160, 167, 168, 255}}

Mirrored == {Sprite(x, y, TRUE) : x \in {0, 7, 8, 167}, y \in {0, 1, 16, 159}}

\* Twelve sprites that all but the last cross line 0: side by side, on top
\* of each other, and from right to left.
SpriteTables ==
  {[i \in 1 .. 12 |-> Sprite(place[i], IF i = 12 THEN 0 ELSE 16, i % 2 = 0)] :
     place \in {[i \in 1 .. 12 |-> 8 * i], [i \in 1 .. 12 |-> 8 + i \div 3],
               [i \in 1 .. 12 |-> 170 - i]}}

\* Lines are drawn within their memory and their time, and of the sprites the
\* right one shows (ppu/render.rs and ppu/sprite.rs).
RowsAreSound ==
  /\ TilesAreInVram
  /\ \A r \in LcdRegisters :
       /\ \A line \in {0, 143} : TilesAreCharged(r, EdgeSprites, line)
       /\ \A oam \in SpriteTables : PenaltyIsBounded(r, oam, 0)
  /\ \A r \in {q \in LcdRegisters : q.scy = 0 /\ q.wy = 0} :
       /\ \A sprite \in Mirrored : MirrorsAgree(r, sprite)
       /\ \A oam \in SpriteTables : \A x \in {0, 1, 7, 8, 9, 88, 159} :
            FirstOpaqueShows(r, oam, 0, x, BaseColor(r, x, 0, 0))

ASSUME RowsAreSound

-----------------------------------------------------------------------------
CoreInit ==
  /\ Init /\ PpuInit /\ ApuInit /\ CartridgeInit /\ AccInit
  /\ unit \in {"machine", "picture", "sound", "cartridge", "accumulator"}
  /\ unit # "sound" => writes = ScoreOf("noise")
  /\ IF unit = "cartridge" THEN now = 0
     ELSE now = 1 /\ cart.header = Board("RomOnly", TRUE, FALSE, FALSE, 2, 1)

MachineRuns ==
  /\ unit = "machine"
  /\ Next
  /\ UNCHANGED <<ppu, apuVars, cart, now, acc, unit>>

PictureRuns ==
  /\ unit = "picture"
  /\ PpuNext
  /\ UNCHANGED <<vars, apuVars, cart, now, acc, unit>>

SoundRuns ==
  /\ unit = "sound"
  /\ ApuNext
  /\ UNCHANGED <<vars, ppu, cart, now, acc, unit>>

CartridgeRuns ==
  /\ unit = "cartridge"
  /\ CartridgeNext
  /\ UNCHANGED <<vars, ppu, apuVars, acc, unit>>

AccumulatorRuns ==
  /\ unit = "accumulator"
  /\ AccNext
  /\ UNCHANGED <<vars, ppu, apuVars, cart, now, unit>>

CoreNext == MachineRuns \/ PictureRuns \/ SoundRuns \/ CartridgeRuns \/ AccumulatorRuns

CoreSpec == CoreInit /\ [][CoreNext]_<<vars, ppu, apuVars, cart, now, acc, unit>>
=============================================================================
