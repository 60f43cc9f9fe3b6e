-------------------------------- MODULE Ppu --------------------------------
(* The picture unit of the emulator core (crates/gb-core/src/ppu/mod.rs and *)
(* ppu/timing.rs): the dots and lines of a frame, the modes, the comparison *)
(* of LY with LYC, the STAT interrupt line, the windows in which the CPU    *)
(* reaches the memory of the picture, and the publication of frames.  Of    *)
(* the pixels it keeps which lines of the framebuffer this frame drew.      *)
EXTENDS Naturals

CONSTANTS
  DotsPerLine,      \* 456
  LinesPerFrame,    \* 154
  VisibleLines,     \* 144
  Mode2Dots,        \* 80
  StartupMode3Dot,  \* 84
  BaseMode3Dots,    \* 172
  MaxMode3Dots,     \* 289
  Extra,            \* the dots that scrolling and the window add to mode 3
  Penalty,          \* the dots that the sprites of a line add to it
  Enables,          \* the sets of STAT sources that are enabled
  Compare           \* the values of LYC

StatSource == {"hblank", "vblank", "oam", "lyc"}

\* A line has room for the longest mode 3, wherever it starts, and no mode 3
\* is over before the line knows how long it is.
PpuAssumption ==
  /\ {DotsPerLine, LinesPerFrame, VisibleLines, Mode2Dots, StartupMode3Dot, BaseMode3Dots,
      MaxMode3Dots} \subseteq Nat
  /\ 0 < VisibleLines /\ VisibleLines < LinesPerFrame
  /\ 8 < StartupMode3Dot /\ 2 < Mode2Dots
  /\ StartupMode3Dot < Mode2Dots + BaseMode3Dots /\ 2 < BaseMode3Dots
  /\ BaseMode3Dots <= MaxMode3Dots
  /\ StartupMode3Dot + MaxMode3Dots < DotsPerLine - 4
  /\ Mode2Dots + 2 + MaxMode3Dots < DotsPerLine - 4
  /\ Extra \subseteq Nat /\ Penalty \subseteq Nat
  /\ Enables \subseteq SUBSET StatSource /\ Compare \subseteq Nat

ASSUME PpuAssumption

VARIABLE ppu
Visible == 0 .. VisibleLines - 1
LastLine == LinesPerFrame - 1

NoFrame == [kind |-> "none", rows |-> {}]

PostBoot ==
  [lcd |-> TRUE, enables |-> {}, lyc |-> 0, mode |-> "OamScan", dot |-> 0, line |-> 0,
   visibleHblank |-> Mode2Dots + BaseMode3Dots, mode3End |-> Mode2Dots + BaseMode3Dots,
   statHigh |-> FALSE, lycEqual |-> TRUE, startup |-> FALSE, phase |-> 0,
   blankFirst |-> FALSE, drawn |-> {}, pending |-> NoFrame, requested |-> {}]

ReadableLy(p) ==
  CASE p.line = LastLine /\ p.dot >= 4 -> 0
    [] p.phase = 0 /\ p.line < LastLine /\ p.dot >= DotsPerLine - 4 -> p.line + 1
    [] OTHER -> p.line

UpdateLycComparison(p) == [p EXCEPT !.lycEqual = ReadableLy(p) = p.lyc]

StatLevel(p, enables) ==
  \/ p.lcd /\ p.mode = "HBlank" /\ (p.startup \/ p.dot >= p.mode3End) /\ "hblank" \in enables
  \/ p.lcd /\ p.mode = "VBlank" /\ "vblank" \in enables
  \/ p.lcd /\ (p.mode = "OamScan" \/ (p.line = VisibleLines /\ p.dot = 0)) /\ "oam" \in enables
  \/ p.lycEqual /\ "lyc" \in enables

EvaluateWith(p, enables) ==
  LET level == StatLevel(p, enables)
  IN  [p EXCEPT !.statHigh = level,
                !.requested = @ \cup (IF level /\ ~ p.statHigh THEN {"LcdStat"} ELSE {})]

EvaluateStat(p) == EvaluateWith(p, p.enables)

-----------------------------------------------------------------------------
(* What one dot does.  input holds what the registers and the sprites of    *)
(* the line make of the length of mode 3.                                   *)

Mode3Start(p) == IF p.startup THEN StartupMode3Dot ELSE Mode2Dots + p.phase

Shorter(a, b) == IF a < b THEN a ELSE b

\* compute_mode3_end_dot
Mode3EndOf(p, input) ==
  Mode3Start(p) + Shorter(BaseMode3Dots + input.extra + input.penalty, MaxMode3Dots)

\* The comparison with line 0 starts in the middle of the last line.
LastLineDot(p) ==
  IF p.line = LastLine /\ p.dot = 4 THEN EvaluateStat(UpdateLycComparison(p)) ELSE p

VBlankDot(p) ==
  IF p.line = VisibleLines /\ p.dot = 1 THEN EvaluateStat(p) ELSE p

\* After the screen was switched on, lines start two dots late.
LateOamScan(p) ==
  IF ~ p.startup /\ p.line < VisibleLines /\ p.phase # 0 /\ p.dot = p.phase
  THEN EvaluateStat(UpdateLycComparison([p EXCEPT !.mode = "OamScan"])) ELSE p

StartDrawing(p, input) ==
  LET end == Mode3EndOf(p, input)
  IN  EvaluateStat([p EXCEPT !.mode = "Drawing", !.mode3End = end,
                             !.visibleHblank = IF input.penalty = 0 THEN end ELSE end - 1])

\* Mutant: a line is drawn only where the two ends of mode 3 coincide.
SkipUnevenRow(p) ==
  EvaluateStat([p EXCEPT !.mode = "HBlank",
                         !.drawn = IF p.blankFirst \/ p.mode3End # p.visibleHblank THEN @
                                   ELSE @ \cup {p.line}])

EndDrawing(p) ==
  EvaluateStat([p EXCEPT !.mode = "HBlank",
                         !.drawn = IF p.blankFirst THEN @ ELSE @ \cup {p.line}])

VisibleDot(p, input) ==
  IF p.line >= VisibleLines THEN p
  ELSE IF p.dot = Mode3Start(p) THEN StartDrawing(p, input)
  ELSE IF p.dot = p.visibleHblank THEN EndDrawing(p)
  ELSE IF p.dot = p.mode3End THEN EvaluateStat(p)
  ELSE p

PublishFrame(p) ==
  [p EXCEPT !.pending = IF p.blankFirst THEN [kind |-> "white", rows |-> {}]
                        ELSE [kind |-> "picture", rows |-> p.drawn],
            !.blankFirst = FALSE,
            !.drawn = {}]

StartLine(p) ==
  LET start == [p EXCEPT !.mode = IF p.phase = 0 THEN "OamScan" ELSE "HBlank",
                         !.mode3End = Mode2Dots + BaseMode3Dots,
                         !.visibleHblank = Mode2Dots + BaseMode3Dots]
  IN  CASE p.line = VisibleLines ->
             [PublishFrame([p EXCEPT !.mode = "VBlank"]) EXCEPT !.requested = @ \cup {"VBlank"}]
        [] p.line = LinesPerFrame -> [start EXCEPT !.line = 0]
        [] p.line < VisibleLines  -> start
        [] OTHER                  -> p

\* At the end of a line that starts late only a lost comparison is seen.
CompareAtEnd(p) ==
  IF p.phase = 0 \/ p.line >= VisibleLines THEN UpdateLycComparison(p)
  ELSE [p EXCEPT !.lycEqual = @ /\ ReadableLy(p) = p.lyc]

LineEnd(p) ==
  IF p.dot = DotsPerLine
  THEN EvaluateStat(CompareAtEnd(StartLine(
         [p EXCEPT !.dot = 0, !.line = @ + 1, !.startup = FALSE])))
  ELSE p

TickOne(p, input) ==
  LineEnd(VisibleDot(LateOamScan(VBlankDot(LastLineDot([p EXCEPT !.dot = @ + 1]))), input))

TickPpuMCycle(p, input) ==
  IF p.lcd THEN TickOne(TickOne(TickOne(TickOne(p, input), input), input), input) ELSE p

-----------------------------------------------------------------------------
(* The registers.                                                           *)

LcdOff(p) ==
  [p EXCEPT !.lcd = FALSE, !.mode = "HBlank", !.dot = 0, !.line = 0, !.startup = FALSE,
            !.phase = 0, !.visibleHblank = Mode2Dots + BaseMode3Dots]

\* Mutant: the line is not evaluated again.
LcdOnSilently(p) ==
  UpdateLycComparison(
    [p EXCEPT !.lcd = TRUE, !.mode = "HBlank", !.dot = 8, !.line = 0, !.blankFirst = TRUE,
              !.startup = TRUE, !.phase = 2, !.mode3End = Mode2Dots + BaseMode3Dots,
              !.visibleHblank = Mode2Dots + BaseMode3Dots])

LcdOn(p) ==
  EvaluateStat(UpdateLycComparison(
    [p EXCEPT !.lcd = TRUE, !.mode = "HBlank", !.dot = 8, !.line = 0, !.blankFirst = TRUE,
              !.startup = TRUE, !.phase = 2, !.mode3End = Mode2Dots + BaseMode3Dots,
              !.visibleHblank = Mode2Dots + BaseMode3Dots]))

\* A write that leaves the screen as it is only evaluates the line.
LcdcWritten(p, on) ==
  CASE p.lcd /\ ~ on -> LcdOff(p)
    [] ~ p.lcd /\ on -> LcdOn(p)
    [] OTHER         -> EvaluateStat(p)

\* For a moment the write enables every source.
StatWritten(p, enables) ==
  EvaluateStat([EvaluateWith(p, StatSource) EXCEPT !.enables = enables])

LycWritten(p, lyc) ==
  LET written == [p EXCEPT !.lyc = lyc]
  IN  EvaluateStat(IF p.lcd THEN UpdateLycComparison(written) ELSE written)

AccessHblankDot(p) == IF p.phase = 0 THEN p.visibleHblank ELSE p.mode3End

Open(p) == ~ p.lcd \/ p.line >= VisibleLines

\* Mutant: on the line after the switch drawing locks nothing.
VramOpenAtStartup(p) == Open(p) \/ p.startup \/ p.dot < Mode2Dots \/ p.dot >= AccessHblankDot(p)

VramAccessible(p) ==
  \/ Open(p)
  \/ p.dot < (IF p.startup THEN Mode3Start(p) ELSE Mode2Dots)
  \/ p.dot >= AccessHblankDot(p)

OamAccessible(p) ==
  \/ Open(p)
  \/ p.startup /\ p.dot < Mode3Start(p)
  \/ p.dot >= AccessHblankDot(p)

-----------------------------------------------------------------------------
DotInput == [extra : Extra, penalty : Penalty]

Quiet(p) == [p EXCEPT !.requested = {}]

PpuInit == ppu = PostBoot

TickPpu(input) == ppu' = TickPpuMCycle(Quiet(ppu), input)

WriteLcdc(on) == ppu' = LcdcWritten(Quiet(ppu), on)

WriteStat(enables) == ppu' = StatWritten(Quiet(ppu), enables)

WriteLyc(lyc) == ppu' = LycWritten(Quiet(ppu), lyc)

TakeFrame == ppu' = [ppu EXCEPT !.pending = NoFrame]

PpuNext ==
  \/ \E input \in DotInput : TickPpu(input)
  \/ \E on \in BOOLEAN : WriteLcdc(on)
  \/ \E enables \in Enables : WriteStat(enables)
  \/ \E lyc \in Compare : WriteLyc(lyc)
  \/ TakeFrame

PpuSpec == PpuInit /\ [][PpuNext]_ppu

-----------------------------------------------------------------------------
\* The coincidence that STAT shows is that of the LY that the game reads,
\* but for the last dots of a line, where LY runs ahead, and the first ones
\* of a line that starts late, where the comparison waits (ppu/timing.rs:65,
\* 80 and 135).
ComparisonFollowsLy ==
  LET ahead == ppu.phase = 0 /\ ppu.line < LastLine /\ ppu.dot >= DotsPerLine - 4
      late == ppu.phase # 0 /\ ppu.line < VisibleLines /\ ppu.dot < ppu.phase
  IN  ppu.lcd =>
        /\ ~ ahead /\ ~ late => ppu.lycEqual = (ReadableLy(ppu) = ppu.lyc)
        /\ late /\ ppu.lycEqual => ReadableLy(ppu) = ppu.lyc

\* While the screen is on, the STAT line that decides on the next edge is the
\* level of the enabled sources: no step that moves a source forgets to
\* evaluate it (ppu/timing.rs:24, ppu/mod.rs:131 and 180); and its coincidence
\* bit is the one of the LY that the game reads.
StatLineIsCurrent ==
  /\ ppu.lcd => ppu.statHigh = StatLevel(ppu, ppu.enables)
  /\ ComparisonFollowsLy

\* A published frame is the white one after a switch of the screen, or every
\* visible line of it was drawn since the frame before (ppu/render.rs:168,
\* ppu/timing.rs:95, ppu/mod.rs:236).
FrameIsComplete == ppu.pending.kind = "picture" => ppu.pending.rows = Visible

\* What the mode says and what the CPU may reach agree, though the one is
\* kept and the others are computed from the dots: while a line is drawn both
\* memories are locked, while sprites are searched that of the sprites is
\* (ppu/mod.rs:265 and 284, ppu/timing.rs:84).
ModeLocksMemory ==
  /\ ppu.mode = "Drawing" => ~ VramAccessible(ppu) /\ ~ OamAccessible(ppu)
  /\ ppu.mode = "OamScan" => ~ OamAccessible(ppu)

\* The plan of the picture unit lets the switch of the screen clear the STAT
\* line (docs/superpowers/plans/2026-08-27-ped-36-ppu.md:304); write_lcdc
\* leaves it as it is (ppu/mod.rs:184).
SwitchClearsStatLine == [][ppu.lcd /\ ~ ppu'.lcd => ~ ppu'.statHigh]_ppu
=============================================================================
