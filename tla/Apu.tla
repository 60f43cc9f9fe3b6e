-------------------------------- MODULE Apu --------------------------------
(* The sound unit of the emulator core (crates/gb-core/src/apu): the power  *)
(* switch NR52, the frame sequencer that the divider clocks, and what keeps *)
(* each of the four channels alive: its DAC, its length counter and, for    *)
(* the first pulse channel, the frequency sweep.  The waveforms and volumes *)
(* are left out, and with them the timers that nothing else reads.          *)
EXTENDS Naturals

CONSTANTS
  MaxLength,        \* the channels' lengths: 64, 256 for the wave channel
  Low,              \* the values of a frequency's low register, 256
  High,             \* the values of the three bits above it, 8
  MaxPace,          \* 7
  MaxShift,         \* 7
  Scores             \* the sets of register writes that a game makes

Channel == {"pulse1", "pulse2", "wave", "noise"}
MaxFrequency == High * Low - 1

SoundWrite ==
  [register : {"sweep"}, channel : {"pulse1"}, pace : 0 .. MaxPace, negate : BOOLEAN,
   shift : 0 .. MaxShift]
    \cup [register : {"length"}, channel : Channel, raw : Nat]
    \cup [register : {"dac"}, channel : Channel, on : BOOLEAN]
    \cup [register : {"low"}, channel : Channel \ {"noise"}, low : 0 .. Low - 1]
    \cup [register : {"control"}, channel : Channel, high : 0 .. High - 1,
          lengthOn : BOOLEAN, trigger : BOOLEAN]

ASSUME ApuAssumption ==
  /\ MaxLength \in [Channel -> Nat \ {0, 1}]
  /\ Low \in Nat \ {0}
  /\ High \in Nat \ {0}
  /\ MaxPace \in 1 .. 7
  /\ MaxShift \in 0 .. 7
  /\ \A writes \in Scores : writes \subseteq SoundWrite

VARIABLES
  master,           \* master_enabled
  step,             \* frame_step
  channels,         \* channel1 to channel4
  sweep,            \* the sweep of channel1
  writes              \* what the game that runs writes

apuVars == <<master, step, channels, sweep, writes>>

Silent == [enabled |-> FALSE, dac |-> FALSE, remaining |-> 0, lengthOn |-> FALSE, frequency |-> 0]

NoSweep ==
  [pace |-> 0, negate |-> FALSE, shift |-> 0, timer |-> 0, shadow |-> 0,
   enabled |-> FALSE, negateUsed |-> FALSE]

\* A pace of 0 counts as one more than the longest.
ReloadPeriod(pace) == IF pace = 0 THEN MaxPace + 1 ELSE pace

-----------------------------------------------------------------------------
(* The length counter.                                                      *)

NextStepClocksLength == step % 2 = 0

Load(c, ch, raw) == [ch EXCEPT !.remaining = MaxLength[c] - (raw % MaxLength[c])]

\* Mutant: the extra clock that empties the counter leaves the channel on.
ExtraClockOnly(ch, on) ==
  [ch EXCEPT !.lengthOn = on,
             !.remaining = IF ~ ch.lengthOn /\ on /\ ~ NextStepClocksLength /\ @ > 0
                           THEN @ - 1 ELSE @]

\* Enabling the counter before a step that does not clock it clocks it once.
SetEnabled(ch, on) ==
  LET left == IF ~ ch.lengthOn /\ on /\ ~ NextStepClocksLength /\ ch.remaining > 0
              THEN ch.remaining - 1 ELSE ch.remaining
  IN  [ch EXCEPT !.lengthOn = on,
                 !.remaining = left,
                 !.enabled = @ /\ ~ (on /\ left = 0)]

ReloadedLength(c, ch) ==
  IF ch.remaining # 0 THEN ch.remaining
  ELSE IF ch.lengthOn /\ ~ NextStepClocksLength THEN MaxLength[c] - 1
  ELSE MaxLength[c]

ClockLength(ch) ==
  IF ch.lengthOn /\ ch.remaining # 0
  THEN [ch EXCEPT !.remaining = @ - 1, !.enabled = @ /\ ch.remaining # 1]
  ELSE ch

-----------------------------------------------------------------------------
(* The frequency sweep.                                                     *)

PowerOfTwo == <<1, 2, 4, 8, 16, 32, 64, 128>>

Delta(s) == s.shadow \div PowerOfTwo[s.shift + 1]

Calculated(s) == IF s.negate THEN s.shadow - Delta(s) ELSE s.shadow + Delta(s)

InRange(s) == Calculated(s) <= MaxFrequency

TriggerSweep(s, frequency) ==
  LET started == [s EXCEPT !.shadow = frequency, !.timer = ReloadPeriod(s.pace),
                           !.enabled = s.pace # 0 \/ s.shift # 0]
      checked == s.shift # 0
      passed == InRange(started)
  IN  [started EXCEPT !.enabled = @ /\ (checked => passed),
                      !.negateUsed = checked /\ passed /\ s.negate]

TriggerPasses(s, frequency) ==
  s.shift # 0 => InRange([s EXCEPT !.shadow = frequency])

\* The sweep, and the frequency and the life of the channel after its clock.
ClockSweep(s, ch) ==
  LET timer == IF s.timer = 0 THEN 0 ELSE s.timer - 1
      counted == [s EXCEPT !.timer = IF timer = 0 THEN ReloadPeriod(s.pace) ELSE timer]
      used == [counted EXCEPT !.negateUsed = @ \/ s.negate]
      moved == [used EXCEPT !.shadow = Calculated(s)]
  IN  CASE ~ s.enabled -> [sweep |-> s, channel |-> ch]
        [] s.enabled /\ (timer # 0 \/ s.pace = 0) -> [sweep |-> counted, channel |-> ch]
        [] s.enabled /\ timer = 0 /\ s.pace # 0 /\ ~ InRange(s) ->
             [sweep |-> [counted EXCEPT !.enabled = FALSE],
              channel |-> [ch EXCEPT !.enabled = FALSE]]
        [] s.enabled /\ timer = 0 /\ s.pace # 0 /\ InRange(s) /\ s.shift = 0 ->
             [sweep |-> used, channel |-> ch]
        [] OTHER ->
             [sweep |-> [moved EXCEPT !.enabled = InRange(moved)],
              channel |-> [ch EXCEPT !.frequency = Calculated(s),
                                     !.enabled = @ /\ InRange(moved)]]

-----------------------------------------------------------------------------
(* The registers of a powered unit.                                         *)

\* Turning the negation off after a subtraction silences the channel.
WriteSweep(w) ==
  /\ w.register = "sweep"
  /\ sweep' = [sweep EXCEPT !.pace = w.pace, !.negate = w.negate, !.shift = w.shift]
  /\ channels' = [channels EXCEPT !["pulse1"].enabled =
                    @ /\ ~ (sweep.negateUsed /\ sweep.negate /\ ~ w.negate)]

WriteLength(w) ==
  /\ w.register = "length"
  /\ channels' = [channels EXCEPT ![w.channel] = Load(w.channel, @, w.raw)]
  /\ UNCHANGED sweep

WriteDac(w) ==
  /\ w.register = "dac"
  /\ channels' = [channels EXCEPT ![w.channel].dac = w.on,
                                  ![w.channel].enabled = @ /\ w.on]
  /\ UNCHANGED sweep

WriteLow(w) ==
  /\ w.register = "low"
  /\ channels' = [channels EXCEPT ![w.channel].frequency = (@ \div Low) * Low + w.low]
  /\ UNCHANGED sweep

\* The trigger of a channel that is not the sweeping one.
Triggered(c, ch) ==
  [ch EXCEPT !.remaining = ReloadedLength(c, ch), !.enabled = ch.dac]

WithHigh(c, ch, high) ==
  IF c = "noise" THEN ch ELSE [ch EXCEPT !.frequency = high * Low + (@ % Low)]

WriteControl(w) ==
  LET c == w.channel
      set == SetEnabled(WithHigh(c, channels[c], w.high), w.lengthOn)
      started == Triggered(c, set)
      swept == c = "pulse1"
  IN  /\ w.register = "control"
      /\ channels' = [channels EXCEPT ![c] =
           CASE ~ w.trigger           -> set
             [] w.trigger /\ ~ swept -> started
             [] OTHER -> [started EXCEPT !.enabled = @ /\ TriggerPasses(sweep, set.frequency)]]
      /\ sweep' = IF w.trigger /\ swept THEN TriggerSweep(sweep, set.frequency) ELSE sweep

-----------------------------------------------------------------------------
(* new plays the start-up sound of the first channel.                       *)
ApuInit ==
  /\ master = TRUE
  /\ step = 0
  /\ channels = [c \in Channel |->
       IF c = "pulse1"
       THEN [Silent EXCEPT !.enabled = TRUE, !.dac = TRUE, !.remaining = MaxLength[c]]
       ELSE Silent]
  /\ sweep = [NoSweep EXCEPT !.timer = MaxPace + 1]
  /\ writes \in Scores

WriteRegister(w) ==
  /\ master
  /\ w \in writes
  /\ WriteSweep(w) \/ WriteLength(w) \/ WriteDac(w) \/ WriteLow(w) \/ WriteControl(w)
  /\ UNCHANGED <<master, step, writes>>

\* Without power only the lengths can be written.
WriteUnpowered(w) ==
  /\ ~ master
  /\ w \in writes
  /\ WriteLength(w)
  /\ UNCHANGED <<master, step, writes>>

PowerOff ==
  /\ master
  /\ master' = FALSE
  /\ step' = 0
  /\ channels' = [c \in Channel |-> Silent]
  /\ sweep' = NoSweep
  /\ UNCHANGED writes

PowerOn ==
  /\ ~ master
  /\ master' = TRUE
  /\ step' = 0
  /\ UNCHANGED <<channels, sweep, writes>>

\* The divider, or a write that resets it, clocks the sequencer, with the
\* power on or off.
ClockFrameSequencer ==
  LET lengths == [c \in Channel |-> ClockLength(channels[c])]
      swept == ClockSweep(sweep, lengths["pulse1"])
  IN  /\ step' = (step + 1) % 8
      /\ channels' = CASE step \in {0, 4} -> lengths
                       [] step \in {2, 6} -> [lengths EXCEPT !["pulse1"] = swept.channel]
                       [] OTHER -> channels
      /\ sweep' = IF step \in {2, 6} THEN swept.sweep ELSE sweep
      /\ UNCHANGED <<master, writes>>

ApuNext ==
  \/ \E w \in writes : WriteRegister(w) \/ WriteUnpowered(w)
  \/ PowerOff
  \/ PowerOn
  \/ ClockFrameSequencer

ApuSpec == ApuInit /\ [][ApuNext]_apuVars

-----------------------------------------------------------------------------
ApuTypeOK ==
  /\ master \in BOOLEAN
  /\ step \in 0 .. 7
  /\ channels \in [Channel -> [enabled : BOOLEAN, dac : BOOLEAN, remaining : Nat,
                               lengthOn : BOOLEAN, frequency : Nat]]
  /\ sweep \in [pace : 0 .. MaxPace, negate : BOOLEAN, shift : 0 .. MaxShift,
                timer : 0 .. MaxPace + 1, shadow : Nat, enabled : BOOLEAN,
                negateUsed : BOOLEAN]
  /\ writes \in Scores

\* A channel that NR52 reports as playing has power, a DAC and length left:
\* neither the extra clocks of the counter nor a switch of the power leaves a
\* channel that its counter can no longer stop (apu/length.rs:22 and 32,
\* apu/mod.rs:144).
Alive ==
  \A c \in Channel : channels[c].enabled =>
    master /\ channels[c].dac /\ channels[c].remaining > 0

\* The frequencies that are written, computed and kept stay within eleven bits,
\* so that the period of a channel never wraps (apu/pulse.rs:147).
InPitch ==
  /\ \A c \in Channel : channels[c].frequency <= MaxFrequency
  /\ sweep.shadow <= MaxFrequency

\* While the channel plays, a subtraction that was used is still selected
\* (apu/sweep.rs:28 and 56).
NegationKept ==
  channels["pulse1"].enabled /\ sweep.negateUsed => sweep.negate

\* Whatever order the game writes the registers, the sequencer clocks and the
\* power is switched in, what plays can be stopped and has a pitch.
ChannelsAreSound == Alive /\ InPitch /\ NegationKept
=============================================================================
