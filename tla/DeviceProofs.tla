---------------------------- MODULE DeviceProofs ----------------------------
(* The devices beside the processor: the picture unit with a line of its    *)
(* pixels, the sound unit and the cartridge, for every timing of a line,    *)
(* every length of a channel and every cartridge header.                    *)
EXTENDS Apu, Ppu, Cartridge, Scanline, FiniteSetTheorems, TLAPS

-----------------------------------------------------------------------------
(* THE SOUND UNIT                                                           *)

\* Of a frequency, the bits above its low register are below High.
LEMMA HighPart ==
  ASSUME NEW f \in 0 .. MaxFrequency
  PROVE  f \div Low \in 0 .. High - 1 /\ f % Low \in 0 .. Low - 1
<1>1. Low \in Nat \ {0} /\ High \in Nat \ {0} /\ f \in Nat
  BY ApuAssumption DEF MaxFrequency
<1>2. f < High * Low
  BY <1>1 DEF MaxFrequency
<1>3. f % Low \in 0 .. Low - 1 /\ f \div Low \in Nat /\ f = (f \div Low) * Low + (f % Low)
  BY <1>1, Z3
<1>4. ASSUME NEW q \in Nat, q >= High, q * Low <= f PROVE FALSE
  BY <1>1, <1>2, <1>4, Z3
<1>5. (f \div Low) * Low <= f
  BY <1>1, <1>3, Z3
<1>6. ~ (f \div Low >= High)
  BY <1>3, <1>4, <1>5
<1> QED
  BY <1>1, <1>3, <1>6

\* A frequency that is put together from its two registers is in range.
LEMMA Composed ==
  ASSUME NEW high \in 0 .. High - 1, NEW low \in 0 .. Low - 1
  PROVE  high * Low + low \in 0 .. MaxFrequency
<1>1. Low \in Nat \ {0} /\ High \in Nat \ {0}
  BY ApuAssumption
<1>2. high * Low + Low <= High * Low
  BY <1>1, Z3
<1> QED
  BY <1>1, <1>2, Z3 DEF MaxFrequency

-----------------------------------------------------------------------------
(* The strengthened invariant: every channel by itself, the sweep, and what *)
(* ties the first channel to its sweep.                                     *)

ChannelState ==
  [enabled : BOOLEAN, dac : BOOLEAN, remaining : Nat, lengthOn : BOOLEAN,
   frequency : 0 .. MaxFrequency]

SweepState ==
  [pace : 0 .. MaxPace, negate : BOOLEAN, shift : 0 .. MaxShift, timer : 0 .. MaxPace + 1,
   shadow : 0 .. MaxFrequency, enabled : BOOLEAN, negateUsed : BOOLEAN]

Stoppable(ch) == ch.enabled => ch.dac /\ ch.remaining > 0

Kept(ch, s) == ch.enabled /\ s.negateUsed => s.negate

ApuInv ==
  /\ master \in BOOLEAN
  /\ step \in 0 .. 7
  /\ channels \in [Channel -> ChannelState]
  /\ sweep \in SweepState
  /\ writes \in Scores
  /\ \A c \in Channel : Stoppable(channels[c])
  /\ \A c \in Channel : channels[c].enabled => master
  /\ Kept(channels["pulse1"], sweep)

\* What the constants give for every step.
LEMMA Sizes ==
  /\ Low \in Nat \ {0} /\ High \in Nat \ {0}
  /\ MaxPace \in 1 .. 7 /\ MaxShift \in 0 .. 7
  /\ MaxFrequency \in Nat
  /\ \A c \in Channel : MaxLength[c] \in Nat /\ MaxLength[c] > 1
<1>1. Low \in Nat \ {0} /\ High \in Nat \ {0}
  BY ApuAssumption
<1>2. High * Low \in Nat /\ High * Low > 0
  BY <1>1, Z3
<1> QED
  BY <1>1, <1>2, ApuAssumption DEF MaxFrequency

-----------------------------------------------------------------------------
(* The length counter.                                                      *)

LEMMA LoadKeeps ==
  ASSUME NEW c \in Channel, NEW ch \in ChannelState, NEW raw \in Nat, Stoppable(ch)
  PROVE  /\ Load(c, ch, raw) \in ChannelState
         /\ Stoppable(Load(c, ch, raw))
         /\ Load(c, ch, raw).enabled = ch.enabled
<1>1. raw % MaxLength[c] \in 0 .. MaxLength[c] - 1
  BY Sizes, Z3
<1>2. MaxLength[c] - (raw % MaxLength[c]) \in Nat \ {0}
  BY <1>1, Sizes
<1> QED
  BY <1>2 DEF Load, ChannelState, Stoppable

LEMMA SetEnabledKeeps ==
  ASSUME NEW ch \in ChannelState, NEW on \in BOOLEAN, Stoppable(ch)
  PROVE  /\ SetEnabled(ch, on) \in ChannelState
         /\ Stoppable(SetEnabled(ch, on))
         /\ SetEnabled(ch, on).enabled => ch.enabled
         /\ SetEnabled(ch, on).frequency = ch.frequency
         /\ SetEnabled(ch, on).dac = ch.dac
<1> DEFINE left == IF ~ ch.lengthOn /\ on /\ ~ NextStepClocksLength /\ ch.remaining > 0
                   THEN ch.remaining - 1 ELSE ch.remaining
           set == SetEnabled(ch, on)
<1>1. left \in Nat /\ (~ on => left = ch.remaining)
  BY DEF ChannelState
<1>2. set = [ch EXCEPT !.lengthOn = on, !.remaining = left,
                         !.enabled = ch.enabled /\ ~ (on /\ left = 0)]
  BY DEF SetEnabled
<1> HIDE DEF left, set
<1>3. /\ set \in ChannelState
      /\ set.remaining = left /\ set.frequency = ch.frequency /\ set.dac = ch.dac
      /\ set.enabled <=> ch.enabled /\ ~ (on /\ left = 0)
  BY <1>1, <1>2 DEF ChannelState
<1>4. set.enabled => set.dac /\ set.remaining > 0
  BY <1>1, <1>3 DEF ChannelState, Stoppable
<1> QED
  BY <1>3, <1>4 DEF Stoppable, set

LEMMA ClockLengthKeeps ==
  ASSUME NEW ch \in ChannelState, Stoppable(ch)
  PROVE  /\ ClockLength(ch) \in ChannelState
         /\ Stoppable(ClockLength(ch))
         /\ ClockLength(ch).enabled => ch.enabled
<1>1. CASE ch.lengthOn /\ ch.remaining # 0
  <2> DEFINE clocked == ClockLength(ch)
             alive == ch.enabled /\ ch.remaining # 1
             left == ch.remaining - 1
  <2>1. clocked = [ch EXCEPT !.remaining = left, !.enabled = alive]
    BY <1>1 DEF ClockLength
  <2>2. /\ alive \in BOOLEAN /\ left \in Nat
        /\ alive => ch.enabled /\ left > 0
    BY <1>1 DEF ChannelState
  <2> HIDE DEF clocked, alive, left
  <2>3. /\ clocked \in ChannelState
        /\ clocked.remaining = left
        /\ clocked.dac = ch.dac
        /\ clocked.enabled = alive
    BY <2>1, <2>2 DEF ChannelState
  <2> QED
    BY <2>2, <2>3 DEF Stoppable, clocked
<1>2. CASE ~ (ch.lengthOn /\ ch.remaining # 0)
  BY <1>2 DEF ClockLength
<1> QED
  BY <1>1, <1>2

LEMMA TriggeredKeeps ==
  ASSUME NEW c \in Channel, NEW ch \in ChannelState
  PROVE  /\ Triggered(c, ch) \in ChannelState
         /\ Stoppable(Triggered(c, ch))
<1>1. ReloadedLength(c, ch) \in Nat \ {0}
  BY Sizes DEF ReloadedLength, ChannelState
<1> QED
  <2>1. Triggered(c, ch) \in ChannelState
    BY <1>1 DEF Triggered, ChannelState
  <2>2. Triggered(c, ch).remaining > 0
    BY <1>1 DEF Triggered, ChannelState
  <2>3. Triggered(c, ch).enabled = Triggered(c, ch).dac
    BY DEF Triggered, ChannelState
  <2> QED
    BY <2>1, <2>2, <2>3 DEF Stoppable

LEMMA WithHighKeeps ==
  ASSUME NEW c \in Channel, NEW ch \in ChannelState, NEW high \in 0 .. High - 1, Stoppable(ch)
  PROVE  /\ WithHigh(c, ch, high) \in ChannelState
         /\ Stoppable(WithHigh(c, ch, high))
         /\ WithHigh(c, ch, high).enabled = ch.enabled
<1>1. ch.frequency % Low \in 0 .. Low - 1
  BY HighPart DEF ChannelState
<1>2. high * Low + (ch.frequency % Low) \in 0 .. MaxFrequency
  BY <1>1, Composed
<1> QED
  BY <1>2 DEF WithHigh, ChannelState, Stoppable

-----------------------------------------------------------------------------
(* The frequency sweep.                                                     *)

LEMMA CalculatedIsNatural ==
  ASSUME NEW s \in SweepState
  PROVE  Calculated(s) \in Nat
<1>1. s.shadow \in Nat /\ s.shift + 1 \in 1 .. 8 /\ s.negate \in BOOLEAN
  BY Sizes DEF SweepState
<1>2. Delta(s) \in 0 .. s.shadow
  <2>1. \A n \in {1, 2, 4, 8, 16, 32, 64, 128} : s.shadow \div n \in 0 .. s.shadow
    BY <1>1, Z3
  <2>2. PowerOfTwo[s.shift + 1] \in {1, 2, 4, 8, 16, 32, 64, 128}
    BY <1>1 DEF PowerOfTwo
  <2> QED
    BY <2>1, <2>2 DEF Delta
<1> QED
  BY <1>1, <1>2 DEF Calculated

LEMMA TriggerSweepKeeps ==
  ASSUME NEW s \in SweepState, NEW frequency \in 0 .. MaxFrequency
  PROVE  /\ TriggerSweep(s, frequency) \in SweepState
         /\ TriggerSweep(s, frequency).negateUsed => TriggerSweep(s, frequency).negate
<1>1. ReloadPeriod(s.pace) \in 0 .. MaxPace + 1
  BY Sizes DEF ReloadPeriod, SweepState
<1> QED
  BY <1>1, Sizes DEF TriggerSweep, SweepState, InRange

LEMMA ClockSweepKeeps ==
  ASSUME NEW s \in SweepState, NEW ch \in ChannelState, Stoppable(ch), Kept(ch, s)
  PROVE  LET swept == ClockSweep(s, ch)
         IN  /\ swept.sweep \in SweepState
             /\ swept.channel \in ChannelState
             /\ Stoppable(swept.channel)
             /\ Kept(swept.channel, swept.sweep)
             /\ swept.channel.enabled => ch.enabled
<1> DEFINE timer == IF s.timer = 0 THEN 0 ELSE s.timer - 1
           counted == [s EXCEPT !.timer = IF timer = 0 THEN ReloadPeriod(s.pace) ELSE timer]
           used == [counted EXCEPT !.negateUsed = @ \/ s.negate]
           moved == [used EXCEPT !.shadow = Calculated(s)]
           silenced == [ch EXCEPT !.enabled = FALSE]
           going == ch.enabled /\ InRange(moved)
           shifted == [ch EXCEPT !.frequency = Calculated(s), !.enabled = going]
           stopped == [counted EXCEPT !.enabled = FALSE]
           ended == [moved EXCEPT !.enabled = InRange(moved)]
<1>1. counted \in SweepState /\ counted.negateUsed = s.negateUsed /\ counted.negate = s.negate
  BY Sizes DEF ReloadPeriod, SweepState
<1>2. used \in SweepState /\ (used.negateUsed => s.negateUsed \/ s.negate)
      /\ used.negate = s.negate
  BY <1>1 DEF SweepState
<1>3. stopped \in SweepState
  BY <1>1 DEF SweepState
<1>4. InRange(moved) \in BOOLEAN
  BY DEF InRange
<1>5. ASSUME InRange(s)
      PROVE  /\ ended \in SweepState /\ ended.negate = used.negate
             /\ ended.negateUsed = used.negateUsed
             /\ Calculated(s) \in 0 .. MaxFrequency
  <2>1. Calculated(s) \in 0 .. MaxFrequency
    BY <1>5, CalculatedIsNatural, Sizes DEF InRange
  <2> DEFINE inRange == InRange(moved)
  <2> HIDE DEF used
  <2>2. /\ moved \in SweepState /\ moved.negate = used.negate
        /\ moved.negateUsed = used.negateUsed
    BY <1>2, <2>1 DEF SweepState
  <2> HIDE DEF moved, inRange
  <2>3. ended = [moved EXCEPT !.enabled = inRange] /\ inRange \in BOOLEAN
    BY <1>4 DEF inRange
  <2> HIDE DEF ended
  <2> QED
    BY <2>1, <2>2, <2>3 DEF SweepState
<1>6. silenced \in ChannelState /\ ~ silenced.enabled
  BY DEF ChannelState
<1>7. ASSUME InRange(s)
      PROVE  /\ shifted \in ChannelState /\ shifted.dac = ch.dac
             /\ shifted.remaining = ch.remaining /\ shifted.enabled = going
  <2>1. going \in BOOLEAN
    BY <1>4 DEF ChannelState
  <2> HIDE DEF going
  <2> QED
    BY <2>1, <1>5, <1>7 DEF ChannelState
<1> HIDE DEF counted, used, moved, silenced, shifted, stopped, ended
<1>8. CASE ~ s.enabled
  BY <1>8 DEF ClockSweep
<1>9. CASE s.enabled /\ (timer # 0 \/ s.pace = 0)
  <2>1. ClockSweep(s, ch) = [sweep |-> counted, channel |-> ch]
    BY <1>9 DEF ClockSweep, counted
  <2> QED
    BY <1>1, <2>1 DEF Kept
<1>10. CASE s.enabled /\ timer = 0 /\ s.pace # 0 /\ ~ InRange(s)
  <2>1. ClockSweep(s, ch) = [sweep |-> stopped, channel |-> silenced]
    BY <1>10 DEF ClockSweep, counted, stopped, silenced
  <2> QED
    BY <1>3, <1>6, <2>1 DEF Kept, Stoppable
<1>11. CASE s.enabled /\ timer = 0 /\ s.pace # 0 /\ InRange(s) /\ s.shift = 0
  <2>1. ClockSweep(s, ch) = [sweep |-> used, channel |-> ch]
    BY <1>11 DEF ClockSweep, counted, used
  <2> QED
    BY <1>2, <2>1 DEF Kept
<1>12. CASE s.enabled /\ timer = 0 /\ s.pace # 0 /\ InRange(s) /\ s.shift # 0
  <2>1. ClockSweep(s, ch) = [sweep |-> ended, channel |-> shifted]
    BY <1>12 DEF ClockSweep, counted, used, moved, ended, shifted
  <2>2. ended.negateUsed => s.negateUsed \/ ended.negate
    BY <1>2, <1>5, <1>12
  <2>3. /\ ended \in SweepState /\ shifted \in ChannelState
        /\ shifted.enabled => ch.enabled
    BY <1>5, <1>7, <1>12
  <2>4. Stoppable(shifted)
    BY <1>7, <1>12 DEF Stoppable
  <2>5. Kept(shifted, ended)
    BY <1>2, <1>5, <1>12, <2>2, <2>3 DEF Kept
  <2> QED
    BY <2>1, <2>3, <2>4, <2>5
<1> QED
  BY <1>8, <1>9, <1>10, <1>11, <1>12 DEF SweepState

-----------------------------------------------------------------------------
(* The steps.                                                               *)

LEMMA StartsSound == ApuInit => ApuInv
<1> SUFFICES ASSUME ApuInit PROVE ApuInv
  OBVIOUS
<1>1. Silent \in ChannelState /\ ~ Silent.enabled
  BY Sizes DEF Silent, ChannelState
<1> DEFINE length == MaxLength["pulse1"]
           first == [Silent EXCEPT !.enabled = TRUE, !.dac = TRUE, !.remaining = length]
<1>2. first \in ChannelState /\ Stoppable(first)
  <2>1. length \in Nat /\ length > 0
    BY Sizes DEF Channel
  <2> HIDE DEF length
  <2>2. first \in ChannelState /\ first.dac /\ first.remaining = length
    BY <1>1, <2>1 DEF ChannelState
  <2> QED
    BY <2>1, <2>2 DEF Stoppable
<1>3. sweep \in SweepState /\ ~ sweep.negateUsed
  <2>1. sweep = [pace |-> 0, negate |-> FALSE, shift |-> 0, timer |-> MaxPace + 1,
                 shadow |-> 0, enabled |-> FALSE, negateUsed |-> FALSE]
    BY DEF ApuInit, NoSweep
  <2> QED
    BY <2>1, Sizes DEF SweepState
<1>4. channels \in [Channel -> ChannelState]
      /\ \A c \in Channel : channels[c] = IF c = "pulse1" THEN first ELSE Silent
  <2>1. \A c \in Channel : channels[c] = IF c = "pulse1" THEN first ELSE Silent
    BY DEF ApuInit
  <2>2. channels \in [Channel -> {first, Silent}]
    BY DEF ApuInit
  <2> HIDE DEF first
  <2> QED
    BY <1>1, <1>2, <2>1, <2>2
<1> HIDE DEF first
<1>5. \A c \in Channel : Stoppable(channels[c])
  BY <1>1, <1>2, <1>4 DEF Stoppable
<1>6. Kept(channels["pulse1"], sweep)
  BY <1>3 DEF Kept
<1>7. step = 0 /\ writes \in Scores
  BY Zenon DEF ApuInit
<1>8. master \in BOOLEAN /\ \A c \in Channel : channels[c].enabled => master
  BY Zenon DEF ApuInit
<1> QED
  BY <1>3, <1>4, <1>5, <1>6, <1>7, <1>8 DEF ApuInv

\* A step that changes one channel, without waking it, and not the sweep.
LEMMA OneChannel ==
  ASSUME ApuInv, NEW c \in Channel, NEW ch \in ChannelState,
         Stoppable(ch), ch.enabled => channels[c].enabled,
         channels' = [channels EXCEPT ![c] = ch],
         UNCHANGED <<master, step, sweep, writes>>
  PROVE  ApuInv'
<1>1. channels' \in [Channel -> ChannelState]
  BY DEF ApuInv
<1>2. \A d \in Channel : Stoppable(channels'[d])
  BY DEF ApuInv
<1>3. \A d \in Channel : channels'[d].enabled => channels[d].enabled
  BY DEF ApuInv
<1>4. Kept(channels'["pulse1"], sweep)
  BY <1>3 DEF ApuInv, Kept, Channel
<1>5. \A d \in Channel : channels'[d].enabled => master
  BY <1>3 DEF ApuInv
<1> QED
  BY <1>1, <1>2, <1>4, <1>5 DEF ApuInv, Stoppable, Kept

\* A write is one of the five kinds, with the values that belong to it.
LEMMA WriteKinds ==
  ASSUME ApuInv, NEW w \in writes
  PROVE  /\ w.channel \in Channel
         /\ w.register = "sweep" =>
              w.pace \in 0 .. MaxPace /\ w.negate \in BOOLEAN /\ w.shift \in 0 .. MaxShift
         /\ w.register = "length" => w.raw \in Nat
         /\ w.register = "dac" => w.on \in BOOLEAN
         /\ w.register = "low" => w.low \in 0 .. Low - 1
         /\ w.register = "control" =>
              w.high \in 0 .. High - 1 /\ w.lengthOn \in BOOLEAN /\ w.trigger \in BOOLEAN
<1>1. w \in SoundWrite
  BY ApuAssumption DEF ApuInv
<1> QED
  BY <1>1 DEF SoundWrite, Channel

LEMMA WriteLengthKeeps ==
  ASSUME ApuInv, NEW w \in writes, WriteLength(w), UNCHANGED <<master, step, writes>>
  PROVE  ApuInv'
<1> DEFINE c == w.channel
           ch == Load(c, channels[c], w.raw)
<1>1. c \in Channel /\ w.raw \in Nat
  BY WriteKinds DEF WriteLength
<1>2. ch \in ChannelState /\ Stoppable(ch) /\ ch.enabled = channels[c].enabled
  BY <1>1, LoadKeeps DEF ApuInv
<1>3. channels' = [channels EXCEPT ![c] = ch] /\ UNCHANGED sweep
  BY DEF WriteLength
<1> QED
  BY <1>1, <1>2, <1>3, OneChannel

LEMMA WriteDacKeeps ==
  ASSUME ApuInv, NEW w \in writes, WriteDac(w), UNCHANGED <<master, step, writes>>
  PROVE  ApuInv'
<1> DEFINE c == w.channel
           on == channels[c].enabled /\ w.on
           ch == [channels[c] EXCEPT !.dac = w.on, !.enabled = on]
<1>1. c \in Channel /\ w.on \in BOOLEAN
  BY WriteKinds DEF WriteDac
<1>2. channels[c] \in ChannelState /\ Stoppable(channels[c])
  BY <1>1 DEF ApuInv
<1>3. on \in BOOLEAN /\ (on => w.on /\ channels[c].enabled)
  BY <1>1, <1>2 DEF ChannelState
<1>4. channels' = [channels EXCEPT ![c] = ch] /\ UNCHANGED sweep
  BY <1>1, <1>2 DEF WriteDac, ApuInv, ChannelState
<1> HIDE DEF on, c
<1>5. /\ ch \in ChannelState /\ ch.dac = w.on /\ ch.enabled = on
      /\ ch.remaining = channels[c].remaining
  BY <1>1, <1>2, <1>3 DEF ChannelState
<1>6. Stoppable(ch) /\ (ch.enabled => channels[c].enabled)
  BY <1>2, <1>3, <1>5 DEF Stoppable
<1> QED
  BY <1>1, <1>4, <1>5, <1>6, OneChannel

LEMMA WriteLowKeeps ==
  ASSUME ApuInv, NEW w \in writes, WriteLow(w), UNCHANGED <<master, step, writes>>
  PROVE  ApuInv'
<1> DEFINE c == w.channel
           frequency == (channels[c].frequency \div Low) * Low + w.low
           ch == [channels[c] EXCEPT !.frequency = frequency]
<1>1. c \in Channel /\ w.low \in 0 .. Low - 1
  BY WriteKinds DEF WriteLow
<1>2. channels[c] \in ChannelState /\ Stoppable(channels[c])
  BY <1>1 DEF ApuInv
<1>3. channels[c].frequency \div Low \in 0 .. High - 1
  BY <1>2, HighPart DEF ChannelState
<1>4. frequency \in 0 .. MaxFrequency
  BY <1>1, <1>3, Composed
<1>5. channels' = [channels EXCEPT ![c] = ch] /\ UNCHANGED sweep
  BY <1>1 DEF WriteLow, ApuInv
<1> HIDE DEF frequency, c
<1>6. ch \in ChannelState /\ Stoppable(ch) /\ ch.enabled = channels[c].enabled
  BY <1>2, <1>4 DEF ChannelState, Stoppable
<1> QED
  BY <1>1, <1>5, <1>6, OneChannel

\* A step of a powered unit that changes one channel and the sweep.
LEMMA PoweredChannel ==
  ASSUME ApuInv, master, NEW c \in Channel, NEW ch \in ChannelState, Stoppable(ch),
         channels' = [channels EXCEPT ![c] = ch],
         sweep' \in SweepState, Kept(channels'["pulse1"], sweep'),
         UNCHANGED <<master, step, writes>>
  PROVE  ApuInv'
<1>1. channels' \in [Channel -> ChannelState]
  BY DEF ApuInv
<1>2. \A d \in Channel : Stoppable(channels'[d])
  BY DEF ApuInv
<1>3. \A d \in Channel : channels'[d].enabled => master'
  OBVIOUS
<1> QED
  BY <1>1, <1>2, <1>3 DEF ApuInv, Stoppable, Kept

LEMMA WriteSweepKeeps ==
  ASSUME ApuInv, master, NEW w \in writes, WriteSweep(w), UNCHANGED <<master, step, writes>>
  PROVE  ApuInv'
<1> DEFINE before == channels["pulse1"]
           on == before.enabled /\ ~ (sweep.negateUsed /\ sweep.negate /\ ~ w.negate)
           ch == [before EXCEPT !.enabled = on]
<1>1. w.pace \in 0 .. MaxPace /\ w.negate \in BOOLEAN /\ w.shift \in 0 .. MaxShift
  BY WriteKinds DEF WriteSweep
<1>2. before \in ChannelState /\ Stoppable(before) /\ Kept(before, sweep)
  BY DEF ApuInv, Channel
<1>3. /\ sweep' \in SweepState /\ sweep'.negate = w.negate
      /\ sweep'.negateUsed = sweep.negateUsed
  BY <1>1 DEF WriteSweep, ApuInv, SweepState
<1>4. on \in BOOLEAN /\ (on => before.enabled)
      /\ (on /\ sweep.negateUsed => w.negate)
  BY <1>2 DEF ChannelState, Kept
<1>5. channels' = [channels EXCEPT !["pulse1"] = ch]
  BY <1>2 DEF WriteSweep, ApuInv, ChannelState, Channel
<1> HIDE DEF on
<1>6. ch \in ChannelState /\ ch.enabled = on /\ Stoppable(ch)
  BY <1>2, <1>4 DEF ChannelState, Stoppable
<1>7. channels'["pulse1"] = ch
  BY <1>5 DEF ApuInv, Channel
<1> HIDE DEF ch
<1>8. Kept(channels'["pulse1"], sweep')
  BY <1>3, <1>4, <1>6, <1>7 DEF Kept
<1> QED
  BY <1>3, <1>5, <1>6, <1>8, PoweredChannel DEF Channel

LEMMA WriteControlKeeps ==
  ASSUME ApuInv, master, NEW w \in writes, WriteControl(w), UNCHANGED <<master, step, writes>>
  PROVE  ApuInv'
<1> DEFINE c == w.channel
           high == WithHigh(c, channels[c], w.high)
           set == SetEnabled(high, w.lengthOn)
           started == Triggered(c, set)
           on == started.enabled /\ TriggerPasses(sweep, set.frequency)
           passed == [started EXCEPT !.enabled = on]
<1>1. /\ c \in Channel /\ w.high \in 0 .. High - 1
      /\ w.lengthOn \in BOOLEAN /\ w.trigger \in BOOLEAN
  BY WriteKinds DEF WriteControl
<1>2. channels[c] \in ChannelState /\ Stoppable(channels[c])
  BY <1>1 DEF ApuInv
<1>3. high \in ChannelState /\ Stoppable(high) /\ high.enabled = channels[c].enabled
  BY <1>1, <1>2, WithHighKeeps
<1>4. set \in ChannelState /\ Stoppable(set) /\ (set.enabled => channels[c].enabled)
  BY <1>1, <1>3, SetEnabledKeeps
<1>5. started \in ChannelState /\ Stoppable(started)
  BY <1>1, <1>4, TriggeredKeeps
<1>6. passed \in ChannelState /\ Stoppable(passed)
  <2>1. on \in BOOLEAN /\ (on => started.enabled)
    BY <1>5 DEF ChannelState, TriggerPasses, InRange
  <2> HIDE DEF on, started
  <2>2. /\ passed \in ChannelState /\ passed.enabled = on
        /\ passed.dac = started.dac /\ passed.remaining = started.remaining
    BY <1>5, <2>1 DEF ChannelState
  <2> QED
    BY <1>5, <2>1, <2>2 DEF Stoppable
<1>7. sweep \in SweepState /\ Kept(channels["pulse1"], sweep)
  BY DEF ApuInv
<1>8. CASE ~ w.trigger
  <2>1. channels' = [channels EXCEPT ![c] = set] /\ UNCHANGED sweep
    BY <1>1, <1>2, <1>8 DEF WriteControl, ApuInv
  <2> QED
    BY <1>1, <1>4, <2>1, OneChannel
<1>9. CASE w.trigger /\ c # "pulse1"
  <2>1. channels' = [channels EXCEPT ![c] = started] /\ UNCHANGED sweep
    BY <1>1, <1>9 DEF WriteControl, ApuInv
  <2>2. channels'["pulse1"] = channels["pulse1"]
    BY <1>9, <2>1 DEF ApuInv, Channel
  <2> QED
    BY <1>1, <1>5, <1>7, <2>1, <2>2, PoweredChannel
<1>10. CASE w.trigger /\ c = "pulse1"
  <2>1. channels' = [channels EXCEPT ![c] = passed]
    BY <1>1, <1>10 DEF WriteControl, ApuInv
  <2>2. sweep' = TriggerSweep(sweep, set.frequency)
    BY <1>10 DEF WriteControl
  <2>3. set.frequency \in 0 .. MaxFrequency
    BY <1>4 DEF ChannelState
  <2>4. sweep' \in SweepState /\ (sweep'.negateUsed => sweep'.negate)
    BY <1>7, <2>2, <2>3, TriggerSweepKeeps
  <2>5. Kept(channels'["pulse1"], sweep')
    BY <2>4 DEF Kept
  <2> QED
    BY <1>1, <1>6, <2>1, <2>4, <2>5, PoweredChannel
<1> QED
  BY <1>1, <1>8, <1>9, <1>10

LEMMA PowerOffKeeps == ApuInv /\ PowerOff => ApuInv'
<1> SUFFICES ASSUME ApuInv, PowerOff PROVE ApuInv'
  OBVIOUS
<1>1. Silent \in ChannelState /\ ~ Silent.enabled
  BY Sizes DEF Silent, ChannelState
<1>2. channels' = [c \in Channel |-> Silent] /\ step' = 0 /\ sweep' = NoSweep
      /\ UNCHANGED writes
  BY DEF PowerOff
<1>3. /\ channels' \in [Channel -> ChannelState]
      /\ \A c \in Channel : ~ channels'[c].enabled
  BY <1>1, <1>2
<1>4. sweep' \in SweepState
  BY <1>2, Sizes DEF NoSweep, SweepState
<1>5. master' \in BOOLEAN
  BY Zenon DEF PowerOff
<1>6. \A c \in Channel : channels'[c].enabled => master'
  BY <1>3
<1>7. Kept(channels'["pulse1"], sweep')
  BY <1>3 DEF Kept, Channel
<1> QED
  BY <1>2, <1>3, <1>4, <1>5, <1>6, <1>7 DEF ApuInv, Stoppable, Kept

LEMMA PowerOnKeeps == ApuInv /\ PowerOn => ApuInv'
<1> SUFFICES ASSUME ApuInv, PowerOn PROVE ApuInv'
  OBVIOUS
<1>1. master' \in BOOLEAN /\ \A c \in Channel : channels[c].enabled => master'
  BY Zenon DEF PowerOn
<1>2. step' = 0 /\ UNCHANGED <<channels, sweep, writes>>
  BY DEF PowerOn
<1> QED
  BY <1>1, <1>2 DEF ApuInv, Stoppable, Kept

LEMMA ClockFrameSequencerKeeps == ApuInv /\ ClockFrameSequencer => ApuInv'
<1> SUFFICES ASSUME ApuInv, ClockFrameSequencer PROVE ApuInv'
  OBVIOUS
<1> DEFINE lengths == [c \in Channel |-> ClockLength(channels[c])]
           swept == ClockSweep(sweep, lengths["pulse1"])
           both == [lengths EXCEPT !["pulse1"] = swept.channel]
<1>1. step \in 0 .. 7 /\ step' \in 0 .. 7 /\ UNCHANGED <<master, writes>>
  BY DEF ClockFrameSequencer, ApuInv
<1>2. \A c \in Channel : /\ lengths[c] \in ChannelState
                         /\ Stoppable(lengths[c])
                         /\ lengths[c].enabled => channels[c].enabled
  BY ClockLengthKeeps DEF ApuInv
<1>3. lengths \in [Channel -> ChannelState]
  BY <1>2
<1>4. sweep \in SweepState /\ Kept(lengths["pulse1"], sweep)
  BY <1>2 DEF ApuInv, Kept, Channel
<1> HIDE DEF lengths
<1>5. /\ swept.sweep \in SweepState
      /\ swept.channel \in ChannelState
      /\ Stoppable(swept.channel)
      /\ Kept(swept.channel, swept.sweep)
      /\ swept.channel.enabled => lengths["pulse1"].enabled
  BY <1>2, <1>3, <1>4, ClockSweepKeeps DEF Channel
<1> HIDE DEF swept
<1>6. /\ both \in [Channel -> ChannelState]
      /\ both["pulse1"] = swept.channel
      /\ \A c \in Channel : /\ Stoppable(both[c])
                            /\ both[c].enabled => lengths[c].enabled
  BY <1>2, <1>3, <1>5 DEF Channel
<1> HIDE DEF both
<1>7. CASE step \in {0, 4}
  <2>1. channels' = lengths /\ UNCHANGED sweep
    BY <1>7 DEF ClockFrameSequencer, lengths
  <2>2. \A c \in Channel : channels'[c].enabled => master
    BY <1>2, <2>1 DEF ApuInv
  <2> QED
    BY <1>1, <1>2, <1>3, <1>4, <2>1, <2>2 DEF ApuInv, Stoppable, Kept
<1>8. CASE step \in {2, 6}
  <2>1. channels' = both /\ sweep' = swept.sweep
    BY <1>8 DEF ClockFrameSequencer, both, swept, lengths
  <2>2. \A c \in Channel : channels'[c].enabled => master
    BY <1>2, <1>6, <2>1 DEF ApuInv
  <2>3. Kept(channels'["pulse1"], sweep')
    BY <1>5, <1>6, <2>1
  <2> QED
    BY <1>1, <1>5, <1>6, <2>1, <2>2, <2>3 DEF ApuInv, Stoppable, Kept
<1>9. CASE step \notin {0, 2, 4, 6}
  <2>1. UNCHANGED <<channels, sweep>>
    BY <1>1, <1>9 DEF ClockFrameSequencer
  <2> QED
    BY <1>1, <2>1 DEF ApuInv, Stoppable, Kept
<1> QED
  BY <1>7, <1>8, <1>9

-----------------------------------------------------------------------------
(* The theorems.                                                            *)

\* The strengthened invariant is inductive: the registers, the power and the
\* sequencer keep every channel stoppable and the sweep in range.
THEOREM SoundInductive == ApuSpec => []ApuInv
<1>1. ApuInv /\ [ApuNext]_apuVars => ApuInv'
  <2> SUFFICES ASSUME ApuInv, [ApuNext]_apuVars PROVE ApuInv'
    OBVIOUS
  <2>1. ASSUME NEW w \in writes, WriteRegister(w) PROVE ApuInv'
    BY <2>1, WriteSweepKeeps, WriteLengthKeeps, WriteDacKeeps, WriteLowKeeps, WriteControlKeeps
       DEF WriteRegister
  <2>2. ASSUME NEW w \in writes, WriteUnpowered(w) PROVE ApuInv'
    BY <2>2, WriteLengthKeeps DEF WriteUnpowered
  <2>3. CASE UNCHANGED apuVars
    BY <2>3 DEF apuVars, ApuInv, Stoppable, Kept
  <2> QED
    BY <2>1, <2>2, <2>3, PowerOffKeeps, PowerOnKeeps, ClockFrameSequencerKeeps DEF ApuNext
<1> QED
  BY <1>1, StartsSound, PTL DEF ApuSpec

\* Type correctness: the registers of the sound unit stay what they are.
THEOREM ApuTypeCorrect == ApuSpec => []ApuTypeOK
<1>1. ApuInv => ApuTypeOK
  BY Sizes DEF ApuInv, ApuTypeOK, ChannelState, SweepState
<1> QED
  BY <1>1, SoundInductive, PTL

\* What NR52 reports as playing has power, a DAC and length left, frequencies
\* keep to their eleven bits, and a subtraction of the sweep stays selected.
THEOREM SoundIsSound == ApuSpec => []ChannelsAreSound
<1>1. ASSUME ApuInv PROVE Alive
  BY <1>1 DEF ApuInv, Alive, Stoppable
<1>2. ASSUME ApuInv PROVE InPitch
  BY <1>2, Sizes DEF ApuInv, InPitch, ChannelState, SweepState
<1>3. ASSUME ApuInv PROVE NegationKept
  BY <1>3 DEF ApuInv, NegationKept, Kept
<1>4. ApuInv => ChannelsAreSound
  BY <1>1, <1>2, <1>3 DEF ChannelsAreSound
<1> QED
  BY <1>4, SoundInductive, PTL

-----------------------------------------------------------------------------
(* THE PICTURE UNIT                                                         *)

(* The inductive invariant.                                                 *)

Modes == {"OamScan", "Drawing", "HBlank", "VBlank"}

FrameState == [kind : {"none", "white", "picture"}, rows : SUBSET Visible]

PpuState ==
  [lcd : BOOLEAN, enables : SUBSET StatSource, lyc : Nat, mode : Modes, dot : Nat, line : Nat,
   visibleHblank : Nat, mode3End : Nat, statHigh : BOOLEAN, lycEqual : BOOLEAN,
   startup : BOOLEAN, phase : {0, 2}, blankFirst : BOOLEAN, drawn : SUBSET Visible,
   pending : FrameState, requested : SUBSET {"LcdStat", "VBlank"}]

\* Where the beam is.  The line after the switch starts at dot 8.
Placed(p) ==
  /\ p.dot < DotsPerLine
  /\ p.line < LinesPerFrame
  /\ p.startup => p.line = 0 /\ p.phase = 2 /\ p.dot >= 8

\* Until drawing starts a line has the ends of the shortest one, then those
\* that were computed for it.
Timed(p) ==
  p.line < VisibleLines =>
    IF p.dot < Mode3Start(p)
    THEN p.mode3End = Mode2Dots + BaseMode3Dots /\ p.visibleHblank = p.mode3End
    ELSE /\ p.visibleHblank \in {p.mode3End, p.mode3End - 1}
         /\ Mode3Start(p) < p.visibleHblank
         /\ p.mode3End < DotsPerLine - 4

\* The mode of every dot.
ModeOf(p) ==
  IF p.line >= VisibleLines THEN "VBlank"
  ELSE IF p.dot < Mode3Start(p)
       THEN IF p.startup \/ p.dot < p.phase THEN "HBlank" ELSE "OamScan"
  ELSE IF p.dot < p.visibleHblank THEN "Drawing" ELSE "HBlank"

Ahead(p) == p.phase = 0 /\ p.line < LastLine /\ p.dot >= DotsPerLine - 4

Late(p) == p.phase # 0 /\ p.line < VisibleLines /\ p.dot < p.phase

Compared(p) ==
  /\ ~ Ahead(p) /\ ~ Late(p) => p.lycEqual = (ReadableLy(p) = p.lyc)
  /\ Late(p) /\ p.lycEqual => ReadableLy(p) = p.lyc

\* The lines of this frame that are over, or at least drawn.
Passed(p) == {l \in Visible : l < p.line \/ (l = p.line /\ p.dot >= p.visibleHblank)}

Drawn(p) == ~ p.blankFirst => p.drawn = IF p.line < VisibleLines THEN Passed(p) ELSE {}

Running(p) ==
  /\ Placed(p)
  /\ Timed(p)
  /\ p.mode = ModeOf(p)
  /\ Compared(p)
  /\ Drawn(p)

Published(p) == p.pending.kind = "picture" => p.pending.rows = Visible

Level(p) == p.statHigh = StatLevel(p, p.enables)

PictureInv(p) ==
  /\ p \in PpuState
  /\ p.lcd => Running(p) /\ Level(p)
  /\ ~ p.lcd => p.mode = "HBlank"
  /\ Published(p)

PpuInv == PictureInv(ppu)


-----------------------------------------------------------------------------
(* The constants, and what the operators do to a state.                     *)

LEMMA Dots ==
  /\ DotsPerLine \in Nat /\ LinesPerFrame \in Nat /\ VisibleLines \in Nat
  /\ Mode2Dots \in Nat /\ StartupMode3Dot \in Nat /\ BaseMode3Dots \in Nat
  /\ MaxMode3Dots \in Nat
  /\ 0 < VisibleLines /\ VisibleLines < LinesPerFrame /\ LastLine = LinesPerFrame - 1
  /\ 8 < StartupMode3Dot /\ 2 < Mode2Dots
  /\ StartupMode3Dot < Mode2Dots + BaseMode3Dots /\ 2 < BaseMode3Dots
  /\ BaseMode3Dots <= MaxMode3Dots
  /\ StartupMode3Dot + MaxMode3Dots < DotsPerLine - 4
  /\ Mode2Dots + 2 + MaxMode3Dots < DotsPerLine - 4
BY PpuAssumption DEF PpuAssumption, LastLine

LEMMA Fields ==
  ASSUME NEW p \in PpuState
  PROVE  /\ p.dot \in Nat /\ p.line \in Nat /\ p.lyc \in Nat
         /\ p.visibleHblank \in Nat /\ p.mode3End \in Nat /\ p.phase \in {0, 2}
         /\ p.lcd \in BOOLEAN /\ p.startup \in BOOLEAN /\ p.blankFirst \in BOOLEAN
         /\ p.statHigh \in BOOLEAN /\ p.lycEqual \in BOOLEAN
         /\ p.enables \in SUBSET StatSource /\ p.drawn \in SUBSET Visible
         /\ p.pending \in FrameState /\ p.mode \in Modes
BY DEF PpuState

LEMMA ReadableLyIs ==
  ASSUME NEW p \in PpuState
  PROVE  ReadableLy(p) = IF p.line = LastLine /\ p.dot >= 4 THEN 0
                         ELSE IF Ahead(p) THEN p.line + 1 ELSE p.line
BY Dots DEF ReadableLy, Ahead, PpuState

\* Mode 3 starts late enough for the line to know where it starts.
LEMMA Mode3StartIs ==
  ASSUME NEW p \in PpuState, Placed(p)
  PROVE  /\ Mode3Start(p) \in Nat
         /\ 4 < Mode3Start(p) + 2
         /\ p.phase < Mode3Start(p)
         /\ Mode3Start(p) < Mode2Dots + BaseMode3Dots
         /\ Mode3Start(p) + MaxMode3Dots < DotsPerLine - 4
BY Dots DEF Mode3Start, PpuState, Placed

\* Running looks neither at the STAT line nor at what was requested or
\* published.
LEMMA RunningIsOf ==
  ASSUME NEW p \in PpuState, NEW q \in PpuState,
         q.dot = p.dot, q.line = p.line, q.startup = p.startup, q.phase = p.phase,
         q.mode = p.mode, q.mode3End = p.mode3End, q.visibleHblank = p.visibleHblank,
         q.lyc = p.lyc, q.lycEqual = p.lycEqual, q.blankFirst = p.blankFirst,
         q.drawn = p.drawn,
         Running(p)
  PROVE  Running(q)
<1>1. Mode3Start(q) = Mode3Start(p) /\ ModeOf(q) = ModeOf(p)
      /\ Ahead(q) = Ahead(p) /\ Late(q) = Late(p)
      /\ Passed(q) = Passed(p)
  BY DEF Mode3Start, ModeOf, Ahead, Late, Passed
<1>2. ReadableLy(q) = ReadableLy(p)
  BY <1>1, ReadableLyIs
<1>3. Placed(q) /\ Timed(q)
  BY <1>1 DEF Running, Placed, Timed
<1>4. Compared(q)
  BY <1>1, <1>2 DEF Running, Compared
<1>5. Drawn(q)
  BY <1>1 DEF Running, Drawn
<1> QED
  BY <1>1, <1>3, <1>4, <1>5 DEF Running

\* An evaluation makes the line current and changes nothing else.
LEMMA Evaluated ==
  ASSUME NEW p \in PpuState, NEW enables \in SUBSET StatSource
  PROVE  /\ EvaluateWith(p, enables) \in PpuState
         /\ EvaluateWith(p, enables).statHigh = StatLevel(p, enables)
         /\ StatLevel(EvaluateWith(p, enables), enables) = StatLevel(p, enables)
         /\ EvaluateWith(p, enables).lcd = p.lcd
         /\ EvaluateWith(p, enables).mode = p.mode
         /\ EvaluateWith(p, enables).enables = p.enables
         /\ EvaluateWith(p, enables).pending = p.pending
         /\ Running(p) => Running(EvaluateWith(p, enables))
<1> DEFINE level == StatLevel(p, enables)
           asked == p.requested \cup (IF level /\ ~ p.statHigh THEN {"LcdStat"} ELSE {})
           e == EvaluateWith(p, enables)
<1>1. level \in BOOLEAN /\ asked \in SUBSET {"LcdStat", "VBlank"}
  BY DEF StatLevel, PpuState
<1>2. e = [p EXCEPT !.statHigh = level, !.requested = asked]
  BY DEF EvaluateWith
<1> HIDE DEF level, asked, e
<1>3. e \in PpuState /\ e.statHigh = level
  BY <1>1, <1>2 DEF PpuState
<1>4. /\ e.dot = p.dot /\ e.line = p.line /\ e.startup = p.startup /\ e.phase = p.phase
      /\ e.mode = p.mode /\ e.mode3End = p.mode3End /\ e.visibleHblank = p.visibleHblank
      /\ e.lyc = p.lyc /\ e.lycEqual = p.lycEqual /\ e.blankFirst = p.blankFirst
      /\ e.drawn = p.drawn /\ e.lcd = p.lcd /\ e.enables = p.enables /\ e.pending = p.pending
  BY <1>2 DEF PpuState
<1>5. StatLevel(e, enables) = StatLevel(p, enables)
  BY <1>4 DEF StatLevel
<1>6. Running(p) => Running(e)
  BY <1>3, <1>4, RunningIsOf
<1> QED
  BY <1>3, <1>4, <1>5, <1>6 DEF e, level

\* After an evaluation it is enough that the state itself runs.
LEMMA EvaluateStatKeeps ==
  ASSUME NEW p \in PpuState, p.lcd, Running(p), Published(p)
  PROVE  PictureInv(EvaluateStat(p)) /\ EvaluateStat(p).lcd
<1>1. p.enables \in SUBSET StatSource
  BY DEF PpuState
<1> QED
  BY <1>1, Evaluated DEF EvaluateStat, PictureInv, Level, Published

LEMMA ComparisonUpdated ==
  ASSUME NEW p \in PpuState
  PROVE  /\ UpdateLycComparison(p) \in PpuState
         /\ UpdateLycComparison(p).lycEqual = (ReadableLy(p) = p.lyc)
         /\ Compared(UpdateLycComparison(p))
         /\ UpdateLycComparison(p) =
              [p EXCEPT !.lycEqual = UpdateLycComparison(p).lycEqual]
<1> DEFINE u == UpdateLycComparison(p)
<1>1. u \in PpuState /\ u.lycEqual = (ReadableLy(p) = p.lyc) /\ u = [p EXCEPT !.lycEqual = u.lycEqual]
  BY DEF UpdateLycComparison, PpuState
<1>2. u.line = p.line /\ u.dot = p.dot /\ u.phase = p.phase /\ u.lyc = p.lyc
  BY DEF UpdateLycComparison, PpuState
<1> HIDE DEF u
<1>3. ReadableLy(u) = ReadableLy(p)
  BY <1>1, <1>2, ReadableLyIs DEF Ahead
<1>4. Compared(u)
  BY <1>1, <1>2, <1>3 DEF Compared
<1> QED
  BY <1>1, <1>4 DEF u

\* ... and of the rest of Running the comparison tells nothing.
LEMMA ComparisonKeeps ==
  ASSUME NEW p \in PpuState, Placed(p), Timed(p), p.mode = ModeOf(p), Drawn(p)
  PROVE  Running(UpdateLycComparison(p))
<1> DEFINE u == UpdateLycComparison(p)
<1>1. /\ u.dot = p.dot /\ u.line = p.line /\ u.startup = p.startup /\ u.phase = p.phase
      /\ u.mode = p.mode /\ u.mode3End = p.mode3End /\ u.visibleHblank = p.visibleHblank
      /\ u.blankFirst = p.blankFirst /\ u.drawn = p.drawn
  BY DEF UpdateLycComparison, PpuState
<1>2. Compared(u)
  BY ComparisonUpdated
<1> HIDE DEF u
<1>3. Mode3Start(u) = Mode3Start(p) /\ ModeOf(u) = ModeOf(p) /\ Passed(u) = Passed(p)
  BY <1>1 DEF Mode3Start, ModeOf, Passed
<1> QED
  BY <1>1, <1>2, <1>3 DEF Running, Placed, Timed, Drawn, u
-----------------------------------------------------------------------------
(* One dot.  What is not one of the dots of the list leaves all but the dot *)
(* as it was.                                                               *)

Advanced(p) == [p EXCEPT !.dot = @ + 1]

Beaming(p) == PictureInv(p) /\ p.lcd

LEMMA AdvancedIs ==
  ASSUME NEW p \in PpuState
  PROVE  /\ Advanced(p) \in PpuState
         /\ Advanced(p).dot = p.dot + 1
         /\ Advanced(p).lcd = p.lcd /\ Advanced(p).enables = p.enables
         /\ Advanced(p).lyc = p.lyc /\ Advanced(p).mode = p.mode
         /\ Advanced(p).line = p.line /\ Advanced(p).visibleHblank = p.visibleHblank
         /\ Advanced(p).mode3End = p.mode3End /\ Advanced(p).statHigh = p.statHigh
         /\ Advanced(p).lycEqual = p.lycEqual /\ Advanced(p).startup = p.startup
         /\ Advanced(p).phase = p.phase /\ Advanced(p).blankFirst = p.blankFirst
         /\ Advanced(p).drawn = p.drawn /\ Advanced(p).pending = p.pending
         /\ Advanced(p).requested = p.requested
         /\ Mode3Start(Advanced(p)) = Mode3Start(p)
BY DEF Advanced, PpuState, Mode3Start

\* A dot that leaves mode, comparison and picture as they are.
StillDot(p) ==
  /\ p.dot # DotsPerLine
  /\ ~ (p.line = LastLine /\ p.dot = 4)
  /\ p.line < VisibleLines =>
       /\ ~ (~ p.startup /\ p.phase # 0 /\ p.dot = p.phase)
       /\ p.dot # Mode3Start(p) /\ p.dot # p.visibleHblank

\* A dot at which nothing happens.
QuietDot(p) ==
  /\ StillDot(p)
  /\ ~ (p.line = VisibleLines /\ p.dot = 1)
  /\ p.line < VisibleLines => p.dot # p.mode3End

LEMMA StillDotRuns ==
  ASSUME NEW p \in PpuState, Running(p), StillDot(Advanced(p))
  PROVE  Advanced(p) \in PpuState /\ Running(Advanced(p))
<1> DEFINE t == Advanced(p)
<1>1. /\ t \in PpuState
      /\ t.dot = p.dot + 1 /\ t.line = p.line /\ t.startup = p.startup /\ t.phase = p.phase
      /\ t.mode = p.mode /\ t.mode3End = p.mode3End /\ t.visibleHblank = p.visibleHblank
      /\ t.lyc = p.lyc /\ t.lycEqual = p.lycEqual /\ t.blankFirst = p.blankFirst
      /\ t.drawn = p.drawn /\ Mode3Start(t) = Mode3Start(p)
  BY AdvancedIs
<1> HIDE DEF t
<1>2. StillDot(t) /\ Placed(p) /\ Timed(p) /\ p.mode = ModeOf(p) /\ Compared(p) /\ Drawn(p)
  BY DEF Running, t
<1>3. Mode3Start(p) \in Nat /\ Mode3Start(p) < Mode2Dots + BaseMode3Dots
  BY <1>2, Mode3StartIs
<1>4. Placed(t)
  BY <1>1, <1>2, Fields, Dots DEF Placed, StillDot
<1>5. Timed(t)
  <2>1. p.line < VisibleLines => (t.dot < Mode3Start(p) <=> p.dot < Mode3Start(p))
    BY <1>1, <1>2, <1>3, Fields DEF StillDot
  <2> QED
    BY <1>1, <1>2, <2>1 DEF Timed
<1>6. t.mode = ModeOf(t)
  <2> SUFFICES ModeOf(t) = ModeOf(p)
    BY <1>1, <1>2
  <2>1. CASE p.line >= VisibleLines
    BY <1>1, <2>1 DEF ModeOf
  <2>2. CASE p.line < VisibleLines
    <3>1. t.dot < Mode3Start(p) <=> p.dot < Mode3Start(p)
      BY <1>1, <1>2, <1>3, <2>2, Fields DEF StillDot
    <3>2. t.dot < p.visibleHblank <=> p.dot < p.visibleHblank
      BY <1>1, <1>2, <2>2, Fields DEF StillDot
    <3>3. p.startup \/ (t.dot < p.phase <=> p.dot < p.phase)
      BY <1>1, <1>2, <2>2, Fields DEF StillDot, Placed
    <3>4. ~ p.startup \/ ~ (p.dot < p.phase)
      BY <1>2, Fields DEF Placed
    <3> QED
      BY <1>1, <2>2, <3>1, <3>2, <3>3, <3>4 DEF ModeOf
  <2> QED
    BY <2>1, <2>2, Fields, Dots
<1>7. Compared(t)
  <2>1. ~ Late(t) /\ Late(p) => FALSE
    BY <1>1, <1>2, Fields DEF Placed, StillDot, Late
  <2>2. ~ Ahead(t) => ~ Ahead(p)
    BY <1>1, Fields, Dots DEF Ahead
  <2>3. ~ Ahead(t) /\ ~ Ahead(p) => ReadableLy(t) = ReadableLy(p)
    <3>1. (t.line = LastLine /\ t.dot >= 4) <=> (p.line = LastLine /\ p.dot >= 4)
      BY <1>1, <1>2, Fields DEF StillDot
    <3> QED
      BY <1>1, <3>1, ReadableLyIs
  <2>4. Late(t) => Late(p) /\ ~ Ahead(t)
    BY <1>1, Fields DEF Late, Ahead
  <2> QED
    BY <1>1, <1>2, <2>1, <2>2, <2>3, <2>4 DEF Compared
<1>8. Passed(t) = Passed(p)
  <2>1. p.line < VisibleLines => (t.dot >= p.visibleHblank <=> p.dot >= p.visibleHblank)
    BY <1>1, <1>2, Fields DEF StillDot
  <2>2. \A l \in Visible : l = p.line => p.line < VisibleLines
    BY Dots DEF Visible
  <2> QED
    BY <1>1, <2>1, <2>2 DEF Passed
<1>9. Drawn(t)
  BY <1>1, <1>2, <1>8 DEF Drawn
<1> QED
  BY <1>1, <1>4, <1>5, <1>6, <1>7, <1>9 DEF Running, t

LEMMA QuietDotKeeps ==
  ASSUME NEW p, Beaming(p), NEW input, QuietDot(Advanced(p))
  PROVE  Beaming(TickOne(p, input))
<1> DEFINE t == Advanced(p)
<1>1. p \in PpuState /\ p.lcd /\ Running(p) /\ Level(p) /\ Published(p)
  BY DEF Beaming, PictureInv
<1>2. t \in PpuState /\ Running(t)
  BY <1>1, StillDotRuns DEF QuietDot
<1>3. TickOne(p, input) = t
  <2>1. StillDot(t) /\ (t.line < VisibleLines \/ t.line >= VisibleLines)
    BY <1>2, Fields, Dots DEF QuietDot
  <2>2. LastLineDot(t) = t
    BY <2>1 DEF LastLineDot, StillDot
  <2>3. VBlankDot(t) = t
    BY DEF VBlankDot, QuietDot
  <2>4. LateOamScan(t) = t
    BY <2>1 DEF LateOamScan, StillDot
  <2>5. VisibleDot(t, input) = t
    BY <2>1 DEF VisibleDot, StillDot, QuietDot
  <2>6. LineEnd(t) = t
    BY <2>1 DEF LineEnd, StillDot
  <2> QED
    BY <2>2, <2>3, <2>4, <2>5, <2>6 DEF TickOne, Advanced
<1>4. /\ t.dot = p.dot + 1 /\ t.line = p.line /\ t.startup = p.startup /\ t.mode = p.mode
      /\ t.mode3End = p.mode3End /\ t.lycEqual = p.lycEqual /\ t.lcd = p.lcd
      /\ t.enables = p.enables /\ t.statHigh = p.statHigh /\ t.pending = p.pending
  BY <1>1, AdvancedIs
<1>5. QuietDot(t)
  OBVIOUS
<1> HIDE DEF t
<1>6. p.mode = "HBlank" => (t.dot >= t.mode3End <=> p.dot >= p.mode3End)
  <2>1. p.mode = "HBlank" => p.line < VisibleLines
    BY <1>1, Fields, Dots DEF Running, ModeOf
  <2> QED
    BY <1>1, <1>4, <1>5, <2>1, Fields DEF QuietDot
<1>7. (t.line = VisibleLines /\ t.dot = 0) <=> (p.line = VisibleLines /\ p.dot = 0)
  BY <1>1, <1>4, <1>5, Fields DEF QuietDot
<1>8. Level(t)
  BY <1>1, <1>4, <1>6, <1>7 DEF Level, StatLevel
<1> QED
  BY <1>1, <1>2, <1>3, <1>4, <1>8 DEF Beaming, PictureInv, Published

\* What an evaluation after the mode or the comparison leaves alone.
LEMMA EvaluateStatLeaves ==
  ASSUME NEW p \in PpuState
  PROVE  /\ EvaluateStat(p) \in PpuState
         /\ EvaluateStat(p).dot = p.dot /\ EvaluateStat(p).line = p.line
         /\ EvaluateStat(p).startup = p.startup /\ EvaluateStat(p).phase = p.phase
         /\ EvaluateStat(p).visibleHblank = p.visibleHblank
         /\ EvaluateStat(p).mode3End = p.mode3End
<1>1. p.enables \in SUBSET StatSource
  BY DEF PpuState
<1>2. EvaluateStat(p) \in PpuState
  BY <1>1, Evaluated DEF EvaluateStat
<1> QED
  BY <1>2 DEF EvaluateStat, EvaluateWith, PpuState

\* The sprites are searched two dots late after the switch.
LEMMA LateOamScanKeeps ==
  ASSUME NEW p, Beaming(p), NEW input,
         ~ p.startup, p.line < VisibleLines, p.phase # 0, p.dot + 1 = p.phase
  PROVE  Beaming(TickOne(p, input))
<1> DEFINE t == Advanced(p)
           m == [t EXCEPT !.mode = "OamScan"]
           u == UpdateLycComparison(m)
           e == EvaluateStat(u)
<1>1. p \in PpuState /\ p.lcd /\ Running(p) /\ Level(p) /\ Published(p)
  BY DEF Beaming, PictureInv
<1>2. t \in PpuState /\ m \in PpuState
  BY <1>1, AdvancedIs DEF PpuState, Modes
<1>3. /\ m.dot = p.dot + 1 /\ m.lcd = p.lcd /\ m.enables = p.enables /\ m.mode = "OamScan"
      /\ m.line = p.line /\ m.visibleHblank = p.visibleHblank /\ m.mode3End = p.mode3End
      /\ m.startup = p.startup /\ m.phase = p.phase /\ m.blankFirst = p.blankFirst
      /\ m.drawn = p.drawn /\ m.pending = p.pending /\ m.lyc = p.lyc
      /\ Mode3Start(m) = Mode3Start(p)
  BY <1>1, <1>2, AdvancedIs DEF PpuState, Mode3Start
<1>4. m.dot < Mode3Start(m) /\ p.dot < Mode3Start(p) /\ m.dot < DotsPerLine
  BY <1>1, <1>3, Dots DEF Mode3Start, PpuState, Running, Placed
<1>5. Placed(m) /\ Timed(m) /\ m.mode = ModeOf(m)
  BY <1>1, <1>3, <1>4, Dots DEF Running, Placed, Timed, ModeOf, PpuState
<1>6. Passed(m) = Passed(p)
  BY <1>1, <1>3, <1>4, Dots, Mode3StartIs DEF Running, Timed, Passed, PpuState, Visible
<1>7. Drawn(m)
  BY <1>1, <1>3, <1>6 DEF Running, Drawn
<1>8. Running(u) /\ u \in PpuState
  BY <1>2, <1>5, <1>7, ComparisonKeeps, ComparisonUpdated
<1>9. /\ u.lcd /\ Published(u) /\ u.dot = m.dot /\ u.line = m.line /\ u.startup = m.startup
      /\ u.phase = m.phase /\ u.visibleHblank = m.visibleHblank /\ u.mode3End = m.mode3End
  BY <1>1, <1>2, <1>3 DEF UpdateLycComparison, PpuState, Published
<1>10. Beaming(e)
  BY <1>8, <1>9, EvaluateStatKeeps DEF Beaming
<1>11. /\ LastLineDot(t) = t /\ VBlankDot(t) = t /\ LateOamScan(t) = e
  BY <1>1, AdvancedIs, Dots DEF LastLineDot, VBlankDot, LateOamScan, PpuState
<1>12. VisibleDot(e, input) = e /\ LineEnd(e) = e
  <2>1. /\ e.dot = m.dot /\ e.startup = m.startup /\ e.phase = m.phase
        /\ e.visibleHblank = m.visibleHblank /\ e.mode3End = m.mode3End
    BY <1>8, <1>9, EvaluateStatLeaves
  <2>2. Mode3Start(e) = Mode3Start(m)
    BY <2>1 DEF Mode3Start
  <2>3. e.dot # e.visibleHblank /\ e.dot # e.mode3End
    BY <1>1, <1>3, <1>4, <2>1, Dots, Mode3StartIs, Fields DEF Running, Timed
  <2> HIDE DEF e
  <2>4. e.dot # Mode3Start(e) /\ e.dot # DotsPerLine
    BY <1>1, <1>2, <1>4, <2>1, <2>2, Fields, Dots DEF Mode3Start
  <2> QED
    BY <2>3, <2>4 DEF VisibleDot, LineEnd
<1>13. TickOne(p, input) = e
  BY <1>11, <1>12 DEF TickOne, Advanced
<1> QED
  BY <1>10, <1>13

-----------------------------------------------------------------------------
(* Mode 3.                                                                  *)

\* Its end lies between the shortest and the longest one.
LEMMA Mode3EndIs ==
  ASSUME NEW p \in PpuState, Placed(p), NEW input \in DotInput
  PROVE  /\ Mode3EndOf(p, input) \in Nat
         /\ Mode3Start(p) + 2 < Mode3EndOf(p, input)
         /\ Mode3EndOf(p, input) < DotsPerLine - 4
<1>1. input.extra \in Nat /\ input.penalty \in Nat
  BY PpuAssumption DEF PpuAssumption, DotInput
<1> QED
  BY <1>1, Dots, Mode3StartIs DEF Mode3EndOf, Shorter

LEMMA StartDrawingKeeps ==
  ASSUME NEW p, Beaming(p), NEW input \in DotInput,
         p.line < VisibleLines, p.dot + 1 = Mode3Start(p)
  PROVE  Beaming(TickOne(p, input))
<1> DEFINE t == Advanced(p)
           end == Mode3EndOf(t, input)
           hblank == IF input.penalty = 0 THEN end ELSE end - 1
           m == [t EXCEPT !.mode = "Drawing", !.mode3End = end, !.visibleHblank = hblank]
           e == EvaluateStat(m)
<1>1. p \in PpuState /\ p.lcd /\ Running(p) /\ Level(p) /\ Published(p)
  BY DEF Beaming, PictureInv
<1>2. t \in PpuState /\ Mode3Start(t) = Mode3Start(p)
  BY <1>1, AdvancedIs
<1>3. Placed(t)
  BY <1>1, AdvancedIs, Mode3StartIs, Dots DEF Running, Placed, PpuState
<1>4. /\ end \in Nat /\ Mode3Start(t) + 2 < end /\ end < DotsPerLine - 4
      /\ hblank \in Nat /\ hblank \in {end, end - 1}
  BY <1>2, <1>3, Mode3EndIs, Mode3StartIs
<1> HIDE DEF end, hblank
<1>5. /\ m \in PpuState
      /\ m.dot = p.dot + 1 /\ m.lcd = p.lcd /\ m.enables = p.enables /\ m.mode = "Drawing"
      /\ m.line = p.line /\ m.visibleHblank = hblank /\ m.mode3End = end
      /\ m.startup = p.startup /\ m.phase = p.phase /\ m.blankFirst = p.blankFirst
      /\ m.drawn = p.drawn /\ m.pending = p.pending /\ m.lyc = p.lyc /\ m.lycEqual = p.lycEqual
      /\ Mode3Start(m) = Mode3Start(p)
  BY <1>1, <1>2, <1>4, AdvancedIs DEF PpuState, Mode3Start, Modes
<1>6. Placed(m) /\ Timed(m) /\ m.mode = ModeOf(m)
  BY <1>1, <1>2, <1>3, <1>4, <1>5, AdvancedIs, Dots DEF Placed, Timed, ModeOf, PpuState
<1>7. Passed(m) = Passed(p)
  BY <1>1, <1>2, <1>4, <1>5, Dots, Mode3StartIs
     DEF Running, Timed, Passed, PpuState, Visible
<1>8. Drawn(m)
  BY <1>1, <1>5, <1>7 DEF Running, Drawn
<1>9. Compared(m)
  <2>1. ~ Late(p) /\ ~ Late(m)
    BY <1>1, <1>5, Dots, Fields DEF Late, Mode3Start, Running, Placed
  <2>2. ~ Ahead(p) /\ ~ Ahead(m)
    BY <1>1, <1>5, Dots, Mode3StartIs DEF Ahead, PpuState, Running
  <2>3. ReadableLy(p) = ReadableLy(m)
    <3>1. p.line # LastLine
      BY <1>1, Fields, Dots
    <3> QED
      BY <1>1, <1>5, <2>2, <3>1, ReadableLyIs
  <2> QED
    BY <1>1, <1>5, <2>1, <2>2, <2>3 DEF Running, Compared
<1>10. Beaming(e)
  <2>1. Running(m) /\ Published(m) /\ m.lcd
    BY <1>1, <1>5, <1>6, <1>8, <1>9 DEF Running, Published
  <2> HIDE DEF m
  <2> QED
    BY <1>5, <2>1, EvaluateStatKeeps DEF Beaming
<1>11. LastLineDot(t) = t /\ VBlankDot(t) = t /\ LateOamScan(t) = t
  BY <1>1, AdvancedIs, Dots, Mode3StartIs
     DEF LastLineDot, VBlankDot, LateOamScan, PpuState, Running
<1>12. VisibleDot(t, input) = e
  BY <1>1, <1>2, AdvancedIs, Dots DEF VisibleDot, StartDrawing, PpuState, end, hblank
<1>13. LineEnd(e) = e
  <2>1. e.dot = m.dot
    BY <1>5, EvaluateStatLeaves
  <2>2. m.dot # DotsPerLine
    BY <1>1, <1>3, <1>5, AdvancedIs, Fields, Dots DEF Placed
  <2> QED
    BY <2>1, <2>2 DEF LineEnd
<1>14. TickOne(p, input) = e
  BY <1>11, <1>12, <1>13 DEF TickOne, Advanced
<1> QED
  BY <1>10, <1>14

\* The picture of the line is there, and its mode is over.
LEMMA EndDrawingKeeps ==
  ASSUME NEW p, Beaming(p), NEW input,
         p.line < VisibleLines, p.dot + 1 # Mode3Start(p), p.dot + 1 = p.visibleHblank
  PROVE  Beaming(TickOne(p, input))
<1> DEFINE t == Advanced(p)
           drawn == IF p.blankFirst THEN p.drawn ELSE p.drawn \cup {p.line}
           m == [t EXCEPT !.mode = "HBlank", !.drawn = drawn]
           e == EvaluateStat(m)
<1>1. p \in PpuState /\ p.lcd /\ Running(p) /\ Level(p) /\ Published(p)
  BY DEF Beaming, PictureInv
<1>2. t \in PpuState /\ Mode3Start(t) = Mode3Start(p)
  BY <1>1, AdvancedIs
<1>3. drawn \in SUBSET Visible
  BY <1>1, Dots DEF PpuState, Visible
<1> HIDE DEF drawn
<1>4. /\ m \in PpuState
      /\ m.dot = p.dot + 1 /\ m.lcd = p.lcd /\ m.enables = p.enables /\ m.mode = "HBlank"
      /\ m.line = p.line /\ m.visibleHblank = p.visibleHblank /\ m.mode3End = p.mode3End
      /\ m.startup = p.startup /\ m.phase = p.phase /\ m.blankFirst = p.blankFirst
      /\ m.drawn = drawn /\ m.pending = p.pending /\ m.lyc = p.lyc /\ m.lycEqual = p.lycEqual
      /\ Mode3Start(m) = Mode3Start(p)
  BY <1>1, <1>2, <1>3, AdvancedIs DEF PpuState, Mode3Start, Modes
<1>5. /\ Mode3Start(p) \in Nat /\ Mode3Start(p) < p.visibleHblank /\ p.dot >= Mode3Start(p)
      /\ p.visibleHblank < DotsPerLine - 4 /\ p.mode3End \in {p.dot + 1, p.dot + 2}
      /\ p.mode3End < DotsPerLine - 4
  BY <1>1, Dots, Mode3StartIs DEF PpuState, Running, Timed
<1>6. Placed(m) /\ Timed(m) /\ m.mode = ModeOf(m)
  BY <1>1, <1>4, <1>5, Dots DEF Running, Placed, Timed, ModeOf, PpuState
<1>7. Passed(m) = Passed(p) \cup {p.line}
  BY <1>1, <1>4, <1>5, Dots DEF Passed, PpuState, Visible
<1>8. Drawn(m)
  BY <1>1, <1>4, <1>7 DEF Running, Drawn, drawn
<1>9. Compared(m)
  <2>1. ~ Late(p) /\ ~ Late(m)
    BY <1>1, <1>4, <1>5, Dots, Mode3StartIs DEF Late, PpuState, Running
  <2>2. ~ Ahead(p) /\ ~ Ahead(m)
    BY <1>1, <1>4, <1>5, Dots DEF Ahead, PpuState
  <2>3. ReadableLy(p) = ReadableLy(m)
    <3>1. p.line # LastLine
      BY <1>1, Fields, Dots
    <3> QED
      BY <1>1, <1>4, <2>2, <3>1, ReadableLyIs
  <2> QED
    BY <1>1, <1>4, <2>1, <2>2, <2>3 DEF Running, Compared
<1>10. Beaming(e)
  <2>1. Running(m) /\ Published(m) /\ m.lcd
    BY <1>1, <1>4, <1>6, <1>8, <1>9 DEF Running, Published
  <2> HIDE DEF m
  <2> QED
    BY <1>4, <2>1, EvaluateStatKeeps DEF Beaming
<1>11. LastLineDot(t) = t /\ VBlankDot(t) = t /\ LateOamScan(t) = t
  BY <1>1, <1>5, AdvancedIs, Dots, Mode3StartIs
     DEF LastLineDot, VBlankDot, LateOamScan, PpuState, Running
<1>12. VisibleDot(t, input) = e
  <2>1. /\ t.line < VisibleLines /\ t.dot = p.dot + 1 /\ t.visibleHblank = p.visibleHblank
        /\ t.line = p.line /\ t.blankFirst = p.blankFirst /\ t.drawn = p.drawn
    BY <1>1, AdvancedIs
  <2>2. ~ (t.line >= VisibleLines)
    BY <1>1, <2>1, Fields, Dots
  <2>3. EndDrawing(t) = e
    BY <2>1 DEF EndDrawing, drawn
  <2> HIDE DEF t, e
  <2> QED
    BY <1>2, <2>1, <2>2, <2>3 DEF VisibleDot
<1>13. LineEnd(e) = e
  <2>1. e.dot = m.dot
    BY <1>4, EvaluateStatLeaves
  <2>2. m.dot # DotsPerLine
    BY <1>1, <1>4, <1>5, Fields, Dots
  <2> QED
    BY <2>1, <2>2 DEF LineEnd
<1>14. TickOne(p, input) = e
  BY <1>11, <1>12, <1>13 DEF TickOne, Advanced
<1> QED
  BY <1>10, <1>14

\* Where sprites delay the end of mode 3 by a dot, STAT sees it then.
LEMMA Mode3EndKeeps ==
  ASSUME NEW p, Beaming(p), NEW input,
         p.line < VisibleLines, p.dot + 1 # Mode3Start(p), p.dot + 1 # p.visibleHblank,
         p.dot + 1 = p.mode3End
  PROVE  Beaming(TickOne(p, input))
<1> DEFINE t == Advanced(p)
<1>1. p \in PpuState /\ p.lcd /\ Running(p) /\ Published(p)
  BY DEF Beaming, PictureInv
<1>2. p.dot >= Mode3Start(p) /\ Mode3Start(p) \in Nat /\ p.mode3End < DotsPerLine - 4
  BY <1>1, Dots, Mode3StartIs DEF Running, Timed, PpuState
<1>3. StillDot(t)
  BY <1>1, <1>2, Dots, AdvancedIs, Mode3StartIs DEF StillDot, PpuState, Running
<1>4. t \in PpuState /\ Running(t)
  BY <1>1, <1>3, StillDotRuns
<1>5. Beaming(EvaluateStat(t))
  BY <1>1, <1>4, AdvancedIs, EvaluateStatKeeps DEF Beaming, Published
<1>6. LastLineDot(t) = t /\ VBlankDot(t) = t /\ LateOamScan(t) = t
  BY <1>1, <1>3, AdvancedIs, Dots DEF LastLineDot, VBlankDot, LateOamScan, PpuState, StillDot
<1>7. VisibleDot(t, input) = EvaluateStat(t)
  BY <1>1, AdvancedIs, Dots DEF VisibleDot, PpuState
<1>8. LineEnd(EvaluateStat(t)) = EvaluateStat(t)
  BY <1>1, <1>2, <1>4, Dots, AdvancedIs, EvaluateStatLeaves DEF LineEnd, PpuState
<1> QED
  BY <1>5, <1>6, <1>7, <1>8 DEF TickOne, Advanced

-----------------------------------------------------------------------------
(* The lines below the picture.                                             *)

\* The first dot of the first of them takes the search of its sprites back.
LEMMA VBlankDotKeeps ==
  ASSUME NEW p, Beaming(p), NEW input, p.line = VisibleLines, p.dot = 0
  PROVE  Beaming(TickOne(p, input))
<1> DEFINE t == Advanced(p)
<1>1. p \in PpuState /\ p.lcd /\ Running(p) /\ Published(p)
  BY DEF Beaming, PictureInv
<1>2. StillDot(t)
  BY <1>1, Dots, AdvancedIs DEF StillDot, PpuState
<1>3. t \in PpuState /\ Running(t)
  BY <1>1, <1>2, StillDotRuns
<1>4. Beaming(EvaluateStat(t))
  BY <1>1, <1>3, AdvancedIs, EvaluateStatKeeps DEF Beaming, Published
<1> DEFINE e == EvaluateStat(t)
<1>5. LastLineDot(t) = t /\ VBlankDot(t) = e
  BY <1>1, AdvancedIs, Dots DEF LastLineDot, VBlankDot, PpuState
<1>6. LateOamScan(e) = e /\ VisibleDot(e, input) = e /\ LineEnd(e) = e
  BY <1>1, <1>3, Dots, AdvancedIs, EvaluateStatLeaves
     DEF LateOamScan, VisibleDot, LineEnd, PpuState
<1> QED
  BY <1>4, <1>5, <1>6 DEF TickOne, Advanced

\* From its fourth dot on the last line reads as line 0.
LEMMA LastLineDotKeeps ==
  ASSUME NEW p, Beaming(p), NEW input, p.line = LastLine, p.dot + 1 = 4
  PROVE  Beaming(TickOne(p, input))
<1> DEFINE t == Advanced(p)
           u == UpdateLycComparison(t)
           e == EvaluateStat(u)
<1>1. p \in PpuState /\ p.lcd /\ Running(p) /\ Published(p)
  BY DEF Beaming, PictureInv
<1>2. t \in PpuState
  BY <1>1, AdvancedIs
<1>3. Placed(t) /\ Timed(t) /\ t.mode = ModeOf(t) /\ Drawn(t)
  <2>1. /\ t.dot = p.dot + 1 /\ t.line = p.line /\ t.mode = p.mode /\ t.drawn = p.drawn
        /\ t.startup = p.startup /\ t.blankFirst = p.blankFirst
    BY <1>1, AdvancedIs
  <2>2. p.line \in Nat /\ p.line >= VisibleLines /\ ~ (p.line < VisibleLines) /\ p.line # 0
    BY <1>1, Fields, Dots
  <2>3. Placed(t)
    BY <1>1, <2>1, <2>2, Fields, Dots DEF Running, Placed
  <2> QED
    BY <1>1, <2>1, <2>2, <2>3 DEF Running, Timed, ModeOf, Drawn
<1>4. Running(u) /\ u \in PpuState
  BY <1>2, <1>3, ComparisonKeeps, ComparisonUpdated
<1>5. /\ u.lcd /\ Published(u) /\ u.dot = 4 /\ u.line = p.line
  BY <1>1, <1>2, AdvancedIs DEF UpdateLycComparison, PpuState, Published
<1>6. Beaming(e)
  BY <1>4, <1>5, EvaluateStatKeeps DEF Beaming
<1>7. LastLineDot(t) = e
  BY <1>1, AdvancedIs DEF LastLineDot, PpuState
<1>8. VBlankDot(e) = e /\ LateOamScan(e) = e /\ VisibleDot(e, input) = e /\ LineEnd(e) = e
  BY <1>1, <1>4, <1>5, Dots, EvaluateStatLeaves
     DEF VBlankDot, LateOamScan, VisibleDot, LineEnd, PpuState
<1> QED
  BY <1>6, <1>7, <1>8 DEF TickOne, Advanced

-----------------------------------------------------------------------------
(* The end of a line.                                                       *)

NextLine(p) == [Advanced(p) EXCEPT !.dot = 0, !.line = @ + 1, !.startup = FALSE]

LEMMA NextLineIs ==
  ASSUME NEW p \in PpuState
  PROVE  /\ NextLine(p) \in PpuState
         /\ NextLine(p).dot = 0 /\ NextLine(p).line = p.line + 1 /\ NextLine(p).startup = FALSE
         /\ NextLine(p).lcd = p.lcd /\ NextLine(p).mode = p.mode /\ NextLine(p).phase = p.phase
         /\ NextLine(p).blankFirst = p.blankFirst /\ NextLine(p).drawn = p.drawn
         /\ NextLine(p).pending = p.pending /\ NextLine(p).requested = p.requested
         /\ NextLine(p).visibleHblank = p.visibleHblank /\ NextLine(p).mode3End = p.mode3End
<1> DEFINE t == Advanced(p)
<1>1. t \in PpuState /\ t.line \in Nat
  BY AdvancedIs, Fields
<1>2. /\ t.lcd = p.lcd /\ t.mode = p.mode /\ t.line = p.line /\ t.phase = p.phase
      /\ t.blankFirst = p.blankFirst /\ t.drawn = p.drawn /\ t.pending = p.pending
      /\ t.requested = p.requested /\ t.visibleHblank = p.visibleHblank
      /\ t.mode3End = p.mode3End
  BY AdvancedIs
<1> DEFINE next == t.line + 1
           moved == [t EXCEPT !.dot = 0, !.line = next]
<1>3. NextLine(p) = [moved EXCEPT !.startup = FALSE]
  BY DEF NextLine
<1>4. next \in Nat /\ next = p.line + 1
  BY <1>1, <1>2
<1> HIDE DEF t, next
<1>5. /\ moved \in PpuState /\ moved.dot = 0 /\ moved.line = next
      /\ moved.lcd = t.lcd /\ moved.mode = t.mode /\ moved.phase = t.phase
      /\ moved.blankFirst = t.blankFirst /\ moved.drawn = t.drawn
      /\ moved.pending = t.pending /\ moved.requested = t.requested
      /\ moved.visibleHblank = t.visibleHblank /\ moved.mode3End = t.mode3End
  BY <1>1, <1>4 DEF PpuState
<1> HIDE DEF moved
<1>6. NextLine(p) \in PpuState
  BY <1>3, <1>5 DEF PpuState
<1>7. /\ NextLine(p).dot = 0 /\ NextLine(p).line = next /\ NextLine(p).startup = FALSE
      /\ NextLine(p).lcd = t.lcd /\ NextLine(p).mode = t.mode /\ NextLine(p).phase = t.phase
      /\ NextLine(p).blankFirst = t.blankFirst /\ NextLine(p).drawn = t.drawn
      /\ NextLine(p).pending = t.pending /\ NextLine(p).requested = t.requested
      /\ NextLine(p).visibleHblank = t.visibleHblank /\ NextLine(p).mode3End = t.mode3End
  BY <1>3, <1>5 DEF PpuState
<1> QED
  BY <1>2, <1>4, <1>6, <1>7

\* When a line is over, it was drawn.
LEMMA LineWasDrawn ==
  ASSUME NEW p \in PpuState, Running(p), p.dot + 1 = DotsPerLine, ~ p.blankFirst
  PROVE  p.drawn = {l \in Visible : l < p.line + 1} \/ (p.line >= VisibleLines /\ p.drawn = {})
<1>1. CASE p.line < VisibleLines
  <2>1. p.dot >= p.visibleHblank
    BY <1>1, Dots, Mode3StartIs DEF Running, Timed, PpuState
  <2>2. Passed(p) = {l \in Visible : l < p.line + 1}
    BY <1>1, <2>1, Dots DEF Passed, PpuState, Visible
  <2> QED
    BY <1>1, <2>2 DEF Running, Drawn
<1>2. CASE ~ (p.line < VisibleLines)
  BY <1>2, Dots DEF Running, Drawn, PpuState
<1> QED
  BY <1>1, <1>2

\* The frame is published when the last visible line is over.
LEMMA VBlankStarts ==
  ASSUME NEW p \in PpuState, Running(p), p.dot + 1 = DotsPerLine, p.line + 1 = VisibleLines
  PROVE  LET s == StartLine(NextLine(p))
         IN  /\ s \in PpuState /\ s.lcd = p.lcd /\ s.dot = 0 /\ s.line = VisibleLines
             /\ Placed(s) /\ Timed(s) /\ s.mode = ModeOf(s) /\ Drawn(s) /\ Published(s)
<1> DEFINE n == NextLine(p)
           frame == IF n.blankFirst THEN [kind |-> "white", rows |-> {}]
                    ELSE [kind |-> "picture", rows |-> n.drawn]
           v == [n EXCEPT !.mode = "VBlank"]
           f == [v EXCEPT !.pending = frame, !.blankFirst = FALSE, !.drawn = {}]
           s == [f EXCEPT !.requested = @ \cup {"VBlank"}]
<1>1. n \in PpuState /\ n.line = VisibleLines
  BY NextLineIs
<1>2. StartLine(n) = s
  BY <1>1, Dots DEF StartLine, PublishFrame, PpuState
<1>3. frame \in FrameState /\ (frame.kind = "picture" => frame.rows = Visible)
  <2>1. n.drawn \in SUBSET Visible
    BY <1>1 DEF PpuState
  <2>2. ~ n.blankFirst => n.drawn = {l \in Visible : l < VisibleLines}
    <3>1. n.blankFirst = p.blankFirst /\ n.drawn = p.drawn
      BY NextLineIs
    <3>2. ~ (p.line >= VisibleLines)
      BY Fields, Dots
    <3> QED
      BY <3>1, <3>2, LineWasDrawn
  <2>3. {l \in Visible : l < VisibleLines} = Visible
    BY Dots DEF Visible
  <2> QED
    BY <2>1, <2>2, <2>3 DEF FrameState
<1> HIDE DEF frame
<1>4. /\ s \in PpuState /\ s.lcd = p.lcd /\ s.dot = 0 /\ s.line = VisibleLines
      /\ s.startup = FALSE /\ s.mode = "VBlank" /\ s.drawn = {} /\ s.pending = frame
  BY <1>1, <1>3, NextLineIs DEF PpuState, Modes
<1> HIDE DEF s
<1>5. Placed(s) /\ Timed(s) /\ s.mode = ModeOf(s) /\ Drawn(s) /\ Published(s)
  BY <1>3, <1>4, Dots DEF Placed, Timed, ModeOf, Drawn, Published
<1> QED
  BY <1>2, <1>4, <1>5

\* Every other line of the picture starts anew, the first one after the last.
LEMMA VisibleLineStarts ==
  ASSUME NEW p \in PpuState, Running(p), p.dot + 1 = DotsPerLine, Published(p),
         p.line + 1 < VisibleLines \/ p.line = LastLine
  PROVE  LET s == StartLine(NextLine(p))
         IN  /\ s \in PpuState /\ s.lcd = p.lcd /\ s.dot = 0 /\ s.line < VisibleLines
             /\ ~ s.startup
             /\ Placed(s) /\ Timed(s) /\ s.mode = ModeOf(s) /\ Drawn(s) /\ Published(s)
<1> DEFINE n == NextLine(p)
           mode == IF n.phase = 0 THEN "OamScan" ELSE "HBlank"
           line == IF p.line = LastLine THEN 0 ELSE p.line + 1
           b == [n EXCEPT !.mode = mode, !.mode3End = Mode2Dots + BaseMode3Dots,
                          !.visibleHblank = Mode2Dots + BaseMode3Dots]
           s == [b EXCEPT !.line = line]
<1>1. n \in PpuState /\ n.line = p.line + 1 /\ p.line \in Nat /\ line \in Nat
  BY NextLineIs DEF PpuState
<1>2. mode \in Modes /\ Mode2Dots + BaseMode3Dots \in Nat
  BY Dots DEF Modes
<1>3. StartLine(n) = s
  <2>1. CASE p.line = LastLine
    BY <1>1, <2>1, Dots DEF StartLine
  <2>2. CASE p.line # LastLine
    <3>1. b = s
      BY <1>1, <2>2 DEF PpuState
    <3> QED
      BY <1>1, <2>2, <3>1, Dots DEF StartLine
  <2> QED
    BY <2>1, <2>2
<1>4. line < VisibleLines
  BY <1>1, Dots
<1> HIDE DEF mode, line
<1>5. /\ s \in PpuState /\ s.lcd = p.lcd /\ s.dot = 0 /\ s.line = line /\ s.startup = FALSE
      /\ s.mode = mode /\ s.mode3End = Mode2Dots + BaseMode3Dots
      /\ s.visibleHblank = Mode2Dots + BaseMode3Dots /\ s.phase = p.phase
      /\ s.blankFirst = p.blankFirst /\ s.drawn = p.drawn /\ s.pending = p.pending
  BY <1>1, <1>2, NextLineIs DEF PpuState
<1> HIDE DEF s
<1>6. Mode3Start(s) \in Nat /\ 0 < Mode3Start(s) /\ 0 < Mode2Dots + BaseMode3Dots
  BY <1>5, Dots DEF Mode3Start, PpuState
<1>7. Placed(s) /\ Timed(s) /\ Published(s)
  BY <1>4, <1>5, <1>6, <1>1, Dots DEF Placed, Timed, Published
<1>8. s.mode = ModeOf(s)
  <2>1. n.phase = p.phase /\ p.phase \in {0, 2}
    BY NextLineIs, Fields
  <2>2. ~ (s.line >= VisibleLines) /\ s.dot < Mode3Start(s) /\ ~ s.startup
    BY <1>1, <1>4, <1>5, <1>6, Dots
  <2>3. s.dot < s.phase <=> n.phase # 0
    BY <1>5, <2>1
  <2> QED
    BY <1>5, <2>2, <2>3 DEF ModeOf, mode
<1>9. Drawn(s)
  <2>1. Passed(s) = {l \in Visible : l < line}
    BY <1>1, <1>5, <1>6, Dots DEF Passed, Visible
  <2>2. ~ p.blankFirst => p.drawn = {l \in Visible : l < line}
    <3>1. CASE p.line = LastLine
      <4>1. {l \in Visible : l < 0} = {}
        BY Dots DEF Visible
      <4> QED
        BY <3>1, <4>1, Dots DEF line, Running, Drawn
    <3>2. CASE p.line # LastLine
      BY <1>1, <3>2, LineWasDrawn, Dots DEF line
    <3> QED
      BY <3>1, <3>2
  <2> QED
    BY <1>4, <1>5, <2>1, <2>2 DEF Drawn
<1> QED
  BY <1>3, <1>4, <1>5, <1>7, <1>8, <1>9

LEMMA LowerLineStarts ==
  ASSUME NEW p \in PpuState, Running(p), p.dot + 1 = DotsPerLine, Published(p),
         VisibleLines < p.line + 1, p.line # LastLine
  PROVE  LET s == StartLine(NextLine(p))
         IN  /\ s \in PpuState /\ s.lcd = p.lcd /\ s.dot = 0 /\ s.line >= VisibleLines
             /\ Placed(s) /\ Timed(s) /\ s.mode = ModeOf(s) /\ Drawn(s) /\ Published(s)
<1> DEFINE s == NextLine(p)
<1>1. /\ s \in PpuState /\ s.line = p.line + 1 /\ s.dot = 0 /\ s.startup = FALSE
      /\ s.lcd = p.lcd /\ s.mode = p.mode /\ s.blankFirst = p.blankFirst
      /\ s.drawn = p.drawn /\ s.pending = p.pending
  BY NextLineIs
<1>2. /\ p.line \in Nat /\ p.line >= VisibleLines /\ ~ (p.line < VisibleLines)
      /\ s.line < LinesPerFrame /\ s.line > VisibleLines
  BY <1>1, Fields, Dots DEF Running, Placed
<1>3. StartLine(s) = s
  BY <1>1, <1>2, Dots DEF StartLine
<1> HIDE DEF s
<1>4. s.line >= VisibleLines /\ ~ (s.line < VisibleLines)
  BY <1>1, <1>2, Dots
<1>5. Placed(s)
  BY <1>1, <1>2, Dots DEF Placed
<1>6. Timed(s) /\ Published(s) /\ s.mode = ModeOf(s) /\ Drawn(s)
  BY <1>1, <1>2, <1>4 DEF Running, Timed, Published, ModeOf, Drawn
<1> QED
  BY <1>1, <1>3, <1>4, <1>5, <1>6 DEF s

\* The comparison of the new line, which on a late line waits for its mode.
LEMMA CompareAtEndRuns ==
  ASSUME NEW s \in PpuState, s.dot = 0, s.lcd,
         s.line < VisibleLines => ~ s.startup,
         Placed(s), Timed(s), s.mode = ModeOf(s), Drawn(s), Published(s)
  PROVE  LET c == CompareAtEnd(s)
         IN  c \in PpuState /\ c.lcd /\ Running(c) /\ Published(c) /\ c.dot = 0
<1>1. CASE s.phase = 0 \/ s.line >= VisibleLines
  <2>1. CompareAtEnd(s) = UpdateLycComparison(s)
    BY <1>1 DEF CompareAtEnd
  <2>2. UpdateLycComparison(s).lcd /\ UpdateLycComparison(s).dot = 0 /\ Published(UpdateLycComparison(s))
    BY DEF UpdateLycComparison, PpuState, Published
  <2> QED
    BY <2>1, <2>2, ComparisonKeeps, ComparisonUpdated
<1>2. CASE ~ (s.phase = 0 \/ s.line >= VisibleLines)
  <2> DEFINE equal == s.lycEqual /\ ReadableLy(s) = s.lyc
             c == [s EXCEPT !.lycEqual = equal]
  <2>1. CompareAtEnd(s) = c
    BY <1>2 DEF CompareAtEnd, PpuState
  <2>2. equal \in BOOLEAN /\ (equal => ReadableLy(s) = s.lyc)
    BY DEF PpuState
  <2> HIDE DEF equal
  <2>3. /\ c \in PpuState
        /\ c.dot = 0 /\ c.line = s.line /\ c.startup = s.startup /\ c.phase = s.phase
        /\ c.mode = s.mode /\ c.mode3End = s.mode3End /\ c.visibleHblank = s.visibleHblank
        /\ c.lyc = s.lyc /\ c.lycEqual = equal /\ c.blankFirst = s.blankFirst
        /\ c.drawn = s.drawn /\ c.lcd = s.lcd /\ c.pending = s.pending
    BY <2>2 DEF PpuState
  <2> HIDE DEF c
  <2>4. Mode3Start(c) = Mode3Start(s) /\ ModeOf(c) = ModeOf(s) /\ Passed(c) = Passed(s)
    BY <2>3 DEF Mode3Start, ModeOf, Passed
  <2>5. ReadableLy(c) = ReadableLy(s)
    BY <2>3, ReadableLyIs DEF Ahead
  <2>6. Late(c)
    BY <1>2, <2>3, Dots DEF Late, PpuState
  <2>7. Compared(c)
    BY <2>2, <2>3, <2>5, <2>6 DEF Compared
  <2>8. Placed(c) /\ Timed(c) /\ Drawn(c)
    BY <2>3, <2>4 DEF Placed, Timed, Drawn
  <2> QED
    BY <2>1, <2>3, <2>4, <2>7, <2>8 DEF Running, Published
<1> QED
  BY <1>1, <1>2

LEMMA LineEndKeeps ==
  ASSUME NEW p, Beaming(p), NEW input, p.dot + 1 = DotsPerLine
  PROVE  Beaming(TickOne(p, input))
<1> DEFINE t == Advanced(p)
           s == StartLine(NextLine(p))
           e == EvaluateStat(CompareAtEnd(s))
<1>1. p \in PpuState /\ p.lcd /\ Running(p) /\ Published(p)
  BY DEF Beaming, PictureInv
<1>2. /\ s \in PpuState /\ s.lcd /\ s.dot = 0 /\ (s.line < VisibleLines => ~ s.startup)
      /\ Placed(s) /\ Timed(s) /\ s.mode = ModeOf(s) /\ Drawn(s) /\ Published(s)
  <2>1. CASE p.line + 1 = VisibleLines
    BY <1>1, <2>1, VBlankStarts, Dots
  <2>2. CASE p.line + 1 < VisibleLines \/ p.line = LastLine
    BY <1>1, <2>2, VisibleLineStarts
  <2>3. CASE VisibleLines < p.line + 1 /\ p.line # LastLine
    <3>1. s.line \in Nat
      BY <1>1, <2>3, LowerLineStarts DEF PpuState
    <3> QED
      BY <1>1, <2>3, <3>1, LowerLineStarts, Dots
  <2>4. p.line \in Nat
    BY <1>1 DEF PpuState
  <2> QED
    BY <2>1, <2>2, <2>3, <2>4, Dots
<1>3. Beaming(e)
  <2> HIDE DEF s
  <2> QED
    BY <1>2, CompareAtEndRuns, EvaluateStatKeeps DEF Beaming
<1>4. LastLineDot(t) = t /\ VBlankDot(t) = t /\ LateOamScan(t) = t
  BY <1>1, AdvancedIs, Dots DEF LastLineDot, VBlankDot, LateOamScan, PpuState
<1>5. VisibleDot(t, input) = t
  BY <1>1, AdvancedIs, Dots, Mode3StartIs DEF VisibleDot, PpuState, Running, Timed
<1>6. LineEnd(t) = e
  BY <1>1, AdvancedIs DEF LineEnd, NextLine
<1> QED
  BY <1>3, <1>4, <1>5, <1>6 DEF TickOne, Advanced

-----------------------------------------------------------------------------
(* The steps.                                                               *)

LEMMA TickOneKeeps ==
  ASSUME NEW p, Beaming(p), NEW input \in DotInput
  PROVE  Beaming(TickOne(p, input))
<1>1. p \in PpuState /\ Running(p)
  BY DEF Beaming, PictureInv
<1>2. CASE QuietDot(Advanced(p))
  BY <1>2, QuietDotKeeps
<1>3. CASE p.dot + 1 = DotsPerLine
  BY <1>3, LineEndKeeps
<1>4. CASE p.line = LastLine /\ p.dot + 1 = 4
  BY <1>4, LastLineDotKeeps
<1>5. CASE p.line = VisibleLines /\ p.dot + 1 = 1
  BY <1>1, <1>5, VBlankDotKeeps DEF PpuState
<1>6. CASE p.line < VisibleLines /\ ~ p.startup /\ p.phase # 0 /\ p.dot + 1 = p.phase
  BY <1>6, LateOamScanKeeps
<1>7. CASE p.line < VisibleLines /\ p.dot + 1 = Mode3Start(p)
  BY <1>7, StartDrawingKeeps
<1>8. CASE p.line < VisibleLines /\ p.dot + 1 # Mode3Start(p) /\ p.dot + 1 = p.visibleHblank
  BY <1>8, EndDrawingKeeps
<1>9. CASE /\ p.line < VisibleLines /\ p.dot + 1 # Mode3Start(p)
           /\ p.dot + 1 # p.visibleHblank /\ p.dot + 1 = p.mode3End
  BY <1>9, Mode3EndKeeps
<1> QED
  BY <1>1, <1>2, <1>3, <1>4, <1>5, <1>6, <1>7, <1>8, <1>9, AdvancedIs DEF QuietDot, StillDot

LEMMA QuietKeeps ==
  ASSUME NEW p, PictureInv(p)
  PROVE  PictureInv(Quiet(p)) /\ Quiet(p).lcd = p.lcd
<1>1. /\ Quiet(p) \in PpuState
      /\ Quiet(p).dot = p.dot /\ Quiet(p).line = p.line /\ Quiet(p).startup = p.startup
      /\ Quiet(p).phase = p.phase /\ Quiet(p).mode = p.mode /\ Quiet(p).mode3End = p.mode3End
      /\ Quiet(p).visibleHblank = p.visibleHblank /\ Quiet(p).lyc = p.lyc
      /\ Quiet(p).lycEqual = p.lycEqual /\ Quiet(p).blankFirst = p.blankFirst
      /\ Quiet(p).drawn = p.drawn /\ Quiet(p).lcd = p.lcd /\ Quiet(p).pending = p.pending
      /\ Quiet(p).statHigh = p.statHigh /\ Quiet(p).enables = p.enables
  BY DEF Quiet, PictureInv, PpuState
<1>2. p.lcd => Running(Quiet(p))
  BY <1>1, RunningIsOf DEF PictureInv
<1>3. StatLevel(Quiet(p), p.enables) = StatLevel(p, p.enables)
  BY <1>1 DEF StatLevel
<1> QED
  BY <1>1, <1>2, <1>3 DEF PictureInv, Level, Published

LEMMA TickPpuMCycleKeeps ==
  ASSUME NEW p, PictureInv(p), NEW input \in DotInput
  PROVE  PictureInv(TickPpuMCycle(p, input))
<1>1. CASE p.lcd
  <2> DEFINE t1 == TickOne(p, input)
             t2 == TickOne(t1, input)
             t3 == TickOne(t2, input)
             t4 == TickOne(t3, input)
  <2>1. Beaming(p)
    BY <1>1 DEF Beaming
  <2>2. Beaming(t1)
    BY <2>1, TickOneKeeps
  <2> HIDE DEF t1
  <2>3. Beaming(t2)
    BY <2>2, TickOneKeeps
  <2> HIDE DEF t2
  <2>4. Beaming(t3)
    BY <2>3, TickOneKeeps
  <2> HIDE DEF t3
  <2>5. Beaming(t4)
    BY <2>4, TickOneKeeps
  <2> QED
    BY <1>1, <2>5 DEF TickPpuMCycle, Beaming, t1, t2, t3
<1>2. CASE ~ p.lcd
  BY <1>2 DEF TickPpuMCycle
<1> QED
  BY <1>1, <1>2

-----------------------------------------------------------------------------
(* The registers, and the theorems.                                         *)

\* The invariant without the STAT line.
Evaluable(p) ==
  /\ p \in PpuState
  /\ p.lcd => Running(p)
  /\ ~ p.lcd => p.mode = "HBlank"
  /\ Published(p)

LEMMA EvaluationRestores ==
  ASSUME NEW p, Evaluable(p)
  PROVE  PictureInv(EvaluateStat(p))
<1>1. p.enables \in SUBSET StatSource
  BY DEF Evaluable, PpuState
<1> QED
  BY <1>1, Evaluated DEF EvaluateStat, PictureInv, Level, Evaluable, Published

LEMMA LcdcWrittenKeeps ==
  ASSUME NEW p, PictureInv(p), NEW on \in BOOLEAN
  PROVE  PictureInv(LcdcWritten(p, on))
<1>1. p \in PpuState
  BY DEF PictureInv
<1>2. CASE p.lcd /\ ~ on
  <2>1. LcdcWritten(p, on) = LcdOff(p)
    BY <1>2 DEF LcdcWritten
  <2>2. Mode2Dots + BaseMode3Dots \in Nat
    BY Dots
  <2>3. /\ LcdOff(p) \in PpuState /\ LcdOff(p).lcd = FALSE /\ LcdOff(p).mode = "HBlank"
        /\ LcdOff(p).pending = p.pending
    BY <1>1, <2>2 DEF LcdOff, PpuState, Modes
  <2> QED
    BY <2>1, <2>3 DEF PictureInv, Published
<1>3. CASE ~ p.lcd /\ on
  <2> DEFINE base == Mode2Dots + BaseMode3Dots
             o == [p EXCEPT !.lcd = TRUE, !.mode = "HBlank", !.dot = 8, !.line = 0]
             r == [o EXCEPT !.blankFirst = TRUE, !.startup = TRUE, !.phase = 2]
             m == [r EXCEPT !.mode3End = base, !.visibleHblank = base]
             u == UpdateLycComparison(m)
  <2>1. LcdcWritten(p, on) = EvaluateStat(u)
    BY <1>3 DEF LcdcWritten, LcdOn
  <2>2. base \in Nat /\ StartupMode3Dot < base /\ "HBlank" \in Modes
    BY Dots DEF Modes
  <2> HIDE DEF base
  <2>3. /\ m \in PpuState /\ m.lcd = TRUE /\ m.mode = "HBlank" /\ m.dot = 8 /\ m.line = 0
        /\ m.blankFirst = TRUE /\ m.startup = TRUE /\ m.phase = 2 /\ m.mode3End = base
        /\ m.visibleHblank = base /\ m.pending = p.pending
    <3>1. /\ o \in PpuState /\ o.lcd = TRUE /\ o.mode = "HBlank" /\ o.dot = 8 /\ o.line = 0
          /\ o.pending = p.pending
      BY <1>1, <2>2 DEF PpuState
    <3> HIDE DEF o
    <3>2. /\ r \in PpuState /\ r.lcd = TRUE /\ r.mode = "HBlank" /\ r.dot = 8 /\ r.line = 0
          /\ r.blankFirst = TRUE /\ r.startup = TRUE /\ r.phase = 2 /\ r.pending = p.pending
      BY <3>1 DEF PpuState
    <3> HIDE DEF r
    <3> QED
      BY <2>2, <3>2 DEF PpuState
  <2> HIDE DEF m
  <2>4. Placed(m) /\ Timed(m) /\ m.mode = ModeOf(m) /\ Drawn(m)
    <3>1. Mode3Start(m) = StartupMode3Dot
      BY <2>3 DEF Mode3Start
    <3>2. /\ m.line < VisibleLines /\ ~ (m.line >= VisibleLines) /\ m.dot < Mode3Start(m)
          /\ m.dot < DotsPerLine /\ m.line < LinesPerFrame
      BY <2>3, <3>1, Dots
    <3>3. Placed(m)
      BY <2>3, <3>2 DEF Placed
    <3> QED
      BY <2>3, <3>2, <3>3 DEF Timed, ModeOf, Drawn, base
  <2>5. Running(u) /\ u \in PpuState
    BY <2>3, <2>4, ComparisonKeeps, ComparisonUpdated
  <2>6. u.lcd /\ u.pending = p.pending
    BY <2>3 DEF UpdateLycComparison, PpuState
  <2>7. Evaluable(u)
    BY <2>5, <2>6 DEF Evaluable, PictureInv, Published
  <2> QED
    BY <2>1, <2>7, EvaluationRestores
<1>4. CASE ~ (p.lcd /\ ~ on) /\ ~ (~ p.lcd /\ on)
  <2>1. LcdcWritten(p, on) = EvaluateStat(p)
    BY <1>4 DEF LcdcWritten
  <2> QED
    BY <2>1, EvaluationRestores DEF PictureInv, Evaluable
<1> QED
  BY <1>2, <1>3, <1>4

LEMMA StatWrittenKeeps ==
  ASSUME NEW p, PictureInv(p), NEW enables \in SUBSET StatSource
  PROVE  PictureInv(StatWritten(p, enables))
<1> DEFINE e == EvaluateWith(p, StatSource)
           w == [e EXCEPT !.enables = enables]
<1>1. p \in PpuState
  BY DEF PictureInv
<1>2. /\ e \in PpuState /\ e.lcd = p.lcd /\ e.mode = p.mode /\ e.pending = p.pending
      /\ (Running(p) => Running(e))
  BY <1>1, Evaluated
<1> HIDE DEF e
<1>3. /\ w \in PpuState /\ w.lcd = e.lcd /\ w.mode = e.mode /\ w.pending = e.pending
      /\ w.dot = e.dot /\ w.line = e.line /\ w.startup = e.startup /\ w.phase = e.phase
      /\ w.mode3End = e.mode3End /\ w.visibleHblank = e.visibleHblank
      /\ w.lyc = e.lyc /\ w.lycEqual = e.lycEqual /\ w.blankFirst = e.blankFirst
      /\ w.drawn = e.drawn
  BY <1>2 DEF PpuState
<1>4. Running(p) => Running(w)
  BY <1>2, <1>3, RunningIsOf
<1>5. Evaluable(w)
  BY <1>2, <1>3, <1>4 DEF Evaluable, PictureInv, Published
<1> QED
  BY <1>5, EvaluationRestores DEF StatWritten, e

LEMMA LycWrittenKeeps ==
  ASSUME NEW p, PictureInv(p), NEW lyc \in Nat
  PROVE  PictureInv(LycWritten(p, lyc))
<1> DEFINE w == [p EXCEPT !.lyc = lyc]
           u == UpdateLycComparison(w)
<1>1. p \in PpuState
  BY DEF PictureInv
<1>2. /\ w \in PpuState /\ w.lcd = p.lcd /\ w.mode = p.mode /\ w.pending = p.pending
      /\ w.dot = p.dot /\ w.line = p.line /\ w.startup = p.startup /\ w.phase = p.phase
      /\ w.mode3End = p.mode3End /\ w.visibleHblank = p.visibleHblank
      /\ w.blankFirst = p.blankFirst /\ w.drawn = p.drawn
  BY <1>1 DEF PpuState
<1>3. CASE p.lcd
  <2>1. Running(p)
    BY <1>3 DEF PictureInv
  <2>2. /\ Mode3Start(w) = Mode3Start(p) /\ ModeOf(w) = ModeOf(p) /\ Passed(w) = Passed(p)
    BY <1>2 DEF Mode3Start, ModeOf, Passed
  <2>3. Placed(w) /\ Timed(w) /\ w.mode = ModeOf(w) /\ Drawn(w)
    BY <1>2, <2>1, <2>2 DEF Running, Placed, Timed, Drawn
  <2>4. Running(u) /\ u \in PpuState
    BY <1>2, <2>3, ComparisonKeeps, ComparisonUpdated
  <2>5. u.lcd = w.lcd /\ u.pending = w.pending
    BY <1>2 DEF UpdateLycComparison, PpuState
  <2>6. Evaluable(u)
    BY <1>2, <1>3, <2>4, <2>5 DEF Evaluable, PictureInv, Published
  <2>7. LycWritten(p, lyc) = EvaluateStat(u)
    BY <1>2, <1>3 DEF LycWritten
  <2> QED
    BY <2>6, <2>7, EvaluationRestores
<1>4. CASE ~ p.lcd
  <2>1. Evaluable(w)
    BY <1>2, <1>4 DEF Evaluable, PictureInv, Published
  <2>2. LycWritten(p, lyc) = EvaluateStat(w)
    BY <1>2, <1>4 DEF LycWritten
  <2> QED
    BY <2>1, <2>2, EvaluationRestores
<1> QED
  BY <1>3, <1>4

LEMMA TakeFrameKeeps ==
  ASSUME NEW p, PictureInv(p)
  PROVE  PictureInv([p EXCEPT !.pending = NoFrame])
<1> DEFINE q == [p EXCEPT !.pending = NoFrame]
<1>1. NoFrame \in FrameState /\ NoFrame.kind # "picture"
  BY DEF NoFrame, FrameState
<1>2. /\ q \in PpuState /\ q.pending = NoFrame /\ q.lcd = p.lcd
      /\ q.dot = p.dot /\ q.line = p.line /\ q.startup = p.startup
      /\ q.phase = p.phase /\ q.mode = p.mode /\ q.mode3End = p.mode3End
      /\ q.visibleHblank = p.visibleHblank /\ q.lyc = p.lyc
      /\ q.lycEqual = p.lycEqual /\ q.blankFirst = p.blankFirst
      /\ q.drawn = p.drawn /\ q.statHigh = p.statHigh /\ q.enables = p.enables
  BY <1>1 DEF PictureInv, PpuState
<1> HIDE DEF q
<1>3. p.lcd => Running(q)
  BY <1>2, RunningIsOf DEF PictureInv
<1>4. StatLevel(q, q.enables) = StatLevel(p, p.enables)
  BY <1>2 DEF StatLevel
<1> QED
  BY <1>1, <1>2, <1>3, <1>4 DEF PictureInv, Level, Published, q

LEMMA PostBootRuns == PictureInv(PostBoot)
<1>1. PostBoot \in PpuState
  BY Dots DEF PostBoot, PpuState, Modes, NoFrame, FrameState, StatSource, Visible
<1>2. Mode3Start(PostBoot) = Mode2Dots
  BY Dots DEF PostBoot, Mode3Start
<1>3. Placed(PostBoot) /\ Timed(PostBoot) /\ PostBoot.mode = ModeOf(PostBoot)
  BY <1>2, Dots DEF PostBoot, Placed, Timed, ModeOf
<1>4. Compared(PostBoot)
  BY <1>1, ReadableLyIs, Dots DEF PostBoot, Compared, Late, Ahead
<1>5. Passed(PostBoot) = {}
  BY Dots DEF PostBoot, Passed, Visible
<1>6. Drawn(PostBoot)
  BY <1>5, Dots DEF PostBoot, Drawn
<1>7. Level(PostBoot) /\ Published(PostBoot)
  BY DEF PostBoot, Level, StatLevel, Published, NoFrame
<1> QED
  BY <1>1, <1>3, <1>4, <1>6, <1>7 DEF PictureInv, Running, PostBoot

LEMMA PpuStepKeeps == PpuInv /\ [PpuNext]_ppu => PpuInv'
<1> SUFFICES ASSUME PpuInv, [PpuNext]_ppu PROVE PpuInv'
  OBVIOUS
<1> DEFINE p == Quiet(ppu)
<1>1. PictureInv(p)
  BY QuietKeeps DEF PpuInv
<1> HIDE DEF p
<1>2. ASSUME NEW input \in DotInput, TickPpu(input) PROVE PpuInv'
  BY <1>1, <1>2, TickPpuMCycleKeeps DEF TickPpu, PpuInv, p
<1>3. ASSUME NEW on \in BOOLEAN, WriteLcdc(on) PROVE PpuInv'
  BY <1>1, <1>3, LcdcWrittenKeeps DEF WriteLcdc, PpuInv, p
<1>4. ASSUME NEW enables \in Enables, WriteStat(enables) PROVE PpuInv'
  <2>1. enables \in SUBSET StatSource
    BY PpuAssumption DEF PpuAssumption
  <2> QED
    BY <1>1, <1>4, <2>1, StatWrittenKeeps DEF WriteStat, PpuInv, p
<1>5. ASSUME NEW lyc \in Compare, WriteLyc(lyc) PROVE PpuInv'
  <2>1. lyc \in Nat
    BY PpuAssumption DEF PpuAssumption
  <2> QED
    BY <1>1, <1>5, <2>1, LycWrittenKeeps DEF WriteLyc, PpuInv, p
<1>6. CASE TakeFrame
  BY <1>6, TakeFrameKeeps DEF TakeFrame, PpuInv
<1>7. CASE UNCHANGED ppu
  BY <1>7 DEF PpuInv
<1> QED
  BY <1>2, <1>3, <1>4, <1>5, <1>6, <1>7 DEF PpuNext

\* The state of the picture unit has its type, and the beam, the mode, the
\* comparison and the drawn lines agree, in every reachable state.
THEOREM PpuInvariant == PpuSpec => []PpuInv
<1>1. PpuInit => PpuInv
  BY PostBootRuns DEF PpuInit, PpuInv
<1> QED
  BY <1>1, PpuStepKeeps, PTL DEF PpuSpec

\* No step that moves a source of the STAT interrupt forgets the line, and
\* the coincidence bit is that of the LY that the game reads.
THEOREM StatLineStaysCurrent == PpuSpec => []StatLineIsCurrent
<1>1. PpuInv => StatLineIsCurrent
  BY DEF PpuInv, PictureInv, Level, Running, Compared, Ahead, Late,
         StatLineIsCurrent, ComparisonFollowsLy
<1> QED
  BY <1>1, PpuInvariant, PTL

\* A frame that is published as a picture has every visible line, however the
\* screen was switched and the lines were delayed.
THEOREM FramesAreComplete == PpuSpec => []FrameIsComplete
<1>1. PpuInv => FrameIsComplete
  BY DEF PpuInv, PictureInv, Published, FrameIsComplete
<1> QED
  BY <1>1, PpuInvariant, PTL

\* The mode that STAT shows and the memory that the game reaches agree at
\* every dot, that after the switch and the late lines included.
THEOREM ModeLocksTheMemory == PpuSpec => []ModeLocksMemory
<1>1. PpuInv => ModeLocksMemory
  <2> SUFFICES ASSUME PpuInv PROVE ModeLocksMemory
    OBVIOUS
  <2>1. ppu \in PpuState /\ (ppu.lcd => Running(ppu)) /\ (~ ppu.lcd => ppu.mode = "HBlank")
    BY DEF PpuInv, PictureInv
  <2>2. ASSUME ppu.mode = "Drawing" PROVE ~ VramAccessible(ppu) /\ ~ OamAccessible(ppu)
    BY <2>1, <2>2, Dots
       DEF Running, Timed, ModeOf, VramAccessible, OamAccessible, Open, AccessHblankDot,
           PpuState, Mode3Start
  <2>3. ASSUME ppu.mode = "OamScan" PROVE ~ OamAccessible(ppu)
    BY <2>1, <2>3, Dots, Mode3StartIs
       DEF Running, Timed, ModeOf, OamAccessible, Open, AccessHblankDot, PpuState
  <2> QED
    BY <2>2, <2>3 DEF ModeLocksMemory
<1> QED
  BY <1>1, PpuInvariant, PTL

-----------------------------------------------------------------------------
(* THE CARTRIDGE                                                            *)

(* Remainders.                                                              *)

\* A number has one quotient and one remainder.
LEMMA OneRemainder ==
  ASSUME NEW n \in Nat \ {0}, NEW j \in Nat, NEW k \in Nat,
         NEW r \in 0 .. n - 1, NEW s \in 0 .. n - 1, j * n + r = k * n + s
  PROVE  j = k /\ r = s
<1>1. ASSUME NEW a \in Nat, NEW b \in Nat, a < b PROVE a * n + n <= b * n
  <2>1. (b - a) * n >= n
    BY <1>1, Z3
  <2> QED
    BY <1>1, <2>1, Z3
<1>2. j * n \in Nat /\ k * n \in Nat
  BY Z3
<1>3. ~ (j < k)
  BY <1>1, <1>2
<1>4. ~ (k < j)
  BY <1>1, <1>2
<1>5. j = k
  BY <1>3, <1>4
<1> QED
  BY <1>2, <1>5

LEMMA DivMod ==
  ASSUME NEW n \in Nat \ {0}, NEW a \in Nat
  PROVE  /\ a \div n \in Nat /\ a % n \in 0 .. n - 1
         /\ a = (a \div n) * n + (a % n)
<1>1. a % n \in 0 .. n - 1
  BY Z3
<1>2. a \div n \in Nat
  BY Z3
<1>3. a = (a \div n) * n + (a % n)
  BY Z3
<1> QED
  BY <1>1, <1>2, <1>3

LEMMA RemainderIs ==
  ASSUME NEW n \in Nat \ {0}, NEW k \in Nat, NEW r \in 0 .. n - 1
  PROVE  (k * n + r) % n = r /\ (k * n + r) \div n = k
<1> DEFINE a == k * n + r
<1>1. a \in Nat
  BY Z3
<1>2. a \div n \in Nat /\ a % n \in 0 .. n - 1 /\ a = (a \div n) * n + (a % n)
  BY <1>1, DivMod
<1> QED
  BY <1>2, OneRemainder

\* To add first and to take the remainder first is the same.
LEMMA RemainderOfSum ==
  ASSUME NEW n \in Nat \ {0}, NEW a \in Nat, NEW b \in Nat
  PROVE  ((a % n) + b) % n = (a + b) % n
<1> DEFINE q == a \div n
           r == a % n
           p == (r + b) \div n
           s == (r + b) % n
<1>1. q \in Nat /\ r \in 0 .. n - 1 /\ a = q * n + r
  BY DivMod
<1>2. p \in Nat /\ s \in 0 .. n - 1 /\ r + b = p * n + s
  <2>1. r + b \in Nat
    BY <1>1
  <2> HIDE DEF r
  <2> QED
    BY <2>1, DivMod
<1> HIDE DEF q, r, p, s
<1>3. a + b = (q + p) * n + s
  <2>1. (q + p) * n = q * n + p * n /\ q * n \in Nat /\ p * n \in Nat
    BY <1>1, <1>2, Z3
  <2> QED
    BY <1>1, <1>2, <2>1
<1>4. q + p \in Nat
  BY <1>1, <1>2
<1>5. ((q + p) * n + s) % n = s
  BY <1>2, <1>4, RemainderIs
<1>6. (a + b) % n = s
  BY <1>3, <1>5
<1> QED
  BY <1>6 DEF r, s

\* A number below a product is a quotient and a remainder below its factors.
LEMMA QuotientBelow ==
  ASSUME NEW n \in Nat \ {0}, NEW m \in Nat, NEW a \in Nat, a < m * n
  PROVE  a \div n < m
<1>1. a \div n \in Nat /\ a % n \in 0 .. n - 1 /\ a = (a \div n) * n + (a % n)
  BY DivMod
<1>2. ASSUME NEW q \in Nat, q >= m PROVE q * n >= m * n
  BY <1>2, Z3
<1>3. (a \div n) * n \in Nat /\ m * n \in Nat
  BY <1>1, Z3
<1>4. (a \div n) * n <= a
  BY <1>1, <1>3
<1> QED
  BY <1>1, <1>2, <1>3, <1>4

LEMMA ComposedBelow ==
  ASSUME NEW n \in Nat \ {0}, NEW m \in Nat, NEW k \in 0 .. m - 1, NEW r \in 0 .. n - 1
  PROVE  k * n + r \in 0 .. m * n - 1
<1>1. (m - k) * n >= n /\ (m - k) * n = m * n - k * n /\ k * n \in Nat /\ m * n \in Nat
  BY Z3
<1> QED
  BY <1>1

-----------------------------------------------------------------------------
(* The clock.                                                               *)

RtcState ==
  [counter : 0 .. Period - 1, updated : Nat, halted : BOOLEAN, carry : BOOLEAN,
   armed : BOOLEAN]

LEMMA PeriodIs == Period \in Nat \ {0} /\ SecondsPerDay \in Nat \ {0} /\ DaysLow \in Nat \ {0}
<1>1. SecondsPerDay \in Nat \ {0} /\ DaysLow \in Nat \ {0}
  BY CartridgeAssumption DEF CartridgeAssumption
<1>2. 2 * DaysLow \in Nat \ {0}
  BY <1>1
<1> QED
  BY <1>1, <1>2, Z3 DEF Period

LEMMA LiveIs ==
  ASSUME NEW rtc \in RtcState, NEW t \in Nat
  PROVE  /\ Live(rtc, t).counter \in 0 .. Period - 1
         /\ Live(rtc, t).carry \in BOOLEAN
         /\ rtc.halted \/ t < rtc.updated =>
              Live(rtc, t).counter = rtc.counter /\ Live(rtc, t).carry = rtc.carry
         /\ ~ (rtc.halted \/ t < rtc.updated) =>
              /\ Live(rtc, t).counter = (rtc.counter + (t - rtc.updated)) % Period
              /\ Live(rtc, t).carry = (rtc.carry \/ rtc.counter + (t - rtc.updated) >= Period)
<1> DEFINE total == IF rtc.halted \/ t < rtc.updated THEN rtc.counter
                    ELSE rtc.counter + (t - rtc.updated)
<1>1. /\ rtc.counter \in 0 .. Period - 1 /\ rtc.updated \in Nat /\ rtc.halted \in BOOLEAN
      /\ rtc.carry \in BOOLEAN
  BY DEF RtcState
<1>2. total \in Nat /\ Period \in Nat \ {0}
  BY <1>1, PeriodIs
<1>3. /\ Live(rtc, t).counter = total % Period
      /\ Live(rtc, t).carry = (rtc.carry \/ total >= Period)
  BY DEF Live
<1>4. total % Period \in 0 .. Period - 1
  BY <1>2, DivMod
<1>5. ASSUME total = rtc.counter PROVE total % Period = rtc.counter /\ ~ (total >= Period)
  <2>1. 0 * Period + rtc.counter = rtc.counter
    BY <1>1, <1>2
  <2> QED
    BY <1>1, <1>2, <1>5, <2>1, RemainderIs
<1>6. rtc.halted \/ t < rtc.updated => total = rtc.counter
  OBVIOUS
<1>7. ~ (rtc.halted \/ t < rtc.updated) => total = rtc.counter + (t - rtc.updated)
  OBVIOUS
<1> HIDE DEF total
<1> QED
  BY <1>1, <1>3, <1>4, <1>5, <1>6, <1>7

LEMMA LiveStill ==
  ASSUME NEW rtc \in RtcState, NEW t \in Nat, rtc.halted \/ t < rtc.updated
  PROVE  Live(rtc, t).counter = rtc.counter /\ Live(rtc, t).carry = rtc.carry
BY LiveIs

LEMMA LiveMoves ==
  ASSUME NEW rtc \in RtcState, NEW t \in Nat, ~ (rtc.halted \/ t < rtc.updated)
  PROVE  /\ Live(rtc, t).counter = (rtc.counter + (t - rtc.updated)) % Period
         /\ Live(rtc, t).carry = (rtc.carry \/ rtc.counter + (t - rtc.updated) >= Period)
BY LiveIs

LEMMA SyncIs ==
  ASSUME NEW rtc \in RtcState, NEW t \in Nat
  PROVE  /\ Sync(rtc, t) \in RtcState
         /\ Sync(rtc, t).counter = Live(rtc, t).counter
         /\ Sync(rtc, t).carry = Live(rtc, t).carry
         /\ Sync(rtc, t).updated = IF rtc.updated < t THEN t ELSE rtc.updated
         /\ Sync(rtc, t).halted = rtc.halted
         /\ Sync(rtc, t).armed = rtc.armed
<1> DEFINE counter == Live(rtc, t).counter
           carry == Live(rtc, t).carry
           updated == Later(rtc.updated, t)
<1>1. counter \in 0 .. Period - 1 /\ carry \in BOOLEAN
  BY LiveIs
<1>2. updated \in Nat /\ updated = IF rtc.updated < t THEN t ELSE rtc.updated
  BY DEF RtcState, Later
<1>3. Sync(rtc, t) = [rtc EXCEPT !.counter = counter, !.carry = carry, !.updated = updated]
  BY DEF Sync, RtcState
<1> HIDE DEF counter, carry, updated
<1>4. Sync(rtc, t) \in RtcState
  BY <1>1, <1>2, <1>3 DEF RtcState
<1>5. /\ Sync(rtc, t).counter = counter /\ Sync(rtc, t).carry = carry
      /\ Sync(rtc, t).updated = updated /\ Sync(rtc, t).halted = rtc.halted
      /\ Sync(rtc, t).armed = rtc.armed
  BY <1>3 DEF RtcState
<1> QED
  BY <1>2, <1>4, <1>5 DEF counter, carry

\* What a clock shows depends on nothing but these four.
LEMMA LiveOf ==
  ASSUME NEW r, NEW s, NEW t, s.counter = r.counter, s.updated = r.updated,
         s.halted = r.halted, s.carry = r.carry
  PROVE  Live(s, t) = Live(r, t)
BY DEF Live

LEMMA LiveShape ==
  ASSUME NEW r, NEW t
  PROVE  Live(r, t) = [counter |-> Live(r, t).counter, carry |-> Live(r, t).carry]
BY DEF Live

\* An update changes nothing of what the clock will show.
LEMMA SyncKeepsLive ==
  ASSUME NEW rtc \in RtcState, NEW t \in Nat, NEW later \in Nat, t <= later
  PROVE  Live(Sync(rtc, t), later) = Live(rtc, later)
<1> DEFINE s == Sync(rtc, t)
<1>1. /\ rtc.counter \in 0 .. Period - 1 /\ rtc.updated \in Nat /\ rtc.halted \in BOOLEAN
      /\ rtc.carry \in BOOLEAN /\ Period \in Nat \ {0}
  BY PeriodIs DEF RtcState
<1>2. /\ s \in RtcState /\ s.counter = Live(rtc, t).counter /\ s.carry = Live(rtc, t).carry
      /\ s.updated = IF rtc.updated < t THEN t ELSE rtc.updated
      /\ s.halted = rtc.halted
  BY SyncIs
<1> SUFFICES Live(s, later) = Live(rtc, later)
  OBVIOUS
<1> HIDE DEF s
<1>3. CASE rtc.halted \/ t < rtc.updated
  <2>1. s.counter = rtc.counter /\ s.carry = rtc.carry
    <3>1. Live(rtc, t).counter = rtc.counter /\ Live(rtc, t).carry = rtc.carry
      BY <1>3, LiveStill
    <3> QED
      BY <1>2, <3>1
  <2>2. CASE rtc.halted
    <3>1. s.halted
      BY <1>2, <2>2
    <3>2. Live(rtc, later).counter = rtc.counter /\ Live(rtc, later).carry = rtc.carry
      BY <2>2, LiveStill
    <3>3. Live(s, later).counter = s.counter /\ Live(s, later).carry = s.carry
      BY <1>2, <3>1, LiveStill
    <3> QED
      BY <2>1, <3>2, <3>3, LiveShape
  <2>3. CASE ~ rtc.halted /\ t < rtc.updated
    <3>1. s.updated = rtc.updated
      BY <1>1, <1>2, <2>3
    <3> QED
      BY <1>2, <2>1, <3>1 DEF Live
  <2> QED
    BY <1>3, <2>2, <2>3
<1>4. CASE ~ (rtc.halted \/ t < rtc.updated)
  <2> DEFINE a == rtc.counter + (t - rtc.updated)
             b == later - t
  <2>1. a \in Nat /\ b \in Nat /\ s.updated = t /\ ~ (later < rtc.updated) /\ ~ (later < t)
    BY <1>1, <1>2, <1>4
  <2>2. s.counter = a % Period /\ s.carry = (rtc.carry \/ a >= Period)
    <3>1. /\ Live(rtc, t).counter = (rtc.counter + (t - rtc.updated)) % Period
          /\ Live(rtc, t).carry = (rtc.carry \/ rtc.counter + (t - rtc.updated) >= Period)
      BY <1>4, LiveMoves
    <3> QED
      BY <1>2, <3>1
  <2>3. /\ Live(s, later).counter = (s.counter + b) % Period
        /\ Live(s, later).carry = (s.carry \/ s.counter + b >= Period)
    <3>1. ~ (s.halted \/ later < s.updated) /\ later - s.updated = b
      BY <1>2, <1>4, <2>1
    <3>2. /\ Live(s, later).counter = (s.counter + (later - s.updated)) % Period
          /\ Live(s, later).carry = (s.carry \/ s.counter + (later - s.updated) >= Period)
      BY <1>2, <3>1, LiveMoves
    <3> QED
      BY <3>1, <3>2
  <2>4. /\ Live(rtc, later).counter = (rtc.counter + (later - rtc.updated)) % Period
        /\ Live(rtc, later).carry = (rtc.carry \/ rtc.counter + (later - rtc.updated) >= Period)
    BY <1>4, <2>1, LiveMoves
  <2>5. rtc.counter + (later - rtc.updated) = a + b
    BY <1>1
  <2>6. Live(s, later).counter = Live(rtc, later).counter
    <3> HIDE DEF a, b
    <3>1. ((a % Period) + b) % Period = (a + b) % Period
      BY <1>1, <2>1, RemainderOfSum
    <3> QED
      BY <2>2, <2>3, <2>4, <2>5, <3>1
  <2>7. Live(s, later).carry = Live(rtc, later).carry
    <3>1. CASE a >= Period
      <4>1. a + b >= Period
        BY <1>1, <2>1, <3>1
      <4> QED
        BY <2>2, <2>3, <2>4, <2>5, <3>1, <4>1
    <3>2. CASE ~ (a >= Period)
      <4>1. 0 * Period + a = a /\ a \in 0 .. Period - 1
        BY <1>1, <2>1, <3>2
      <4>2. a % Period = a
        BY <1>1, <4>1, RemainderIs
      <4> HIDE DEF a, b
      <4>3. s.counter = a /\ (s.carry <=> rtc.carry)
        BY <1>1, <2>2, <3>2, <4>2
      <4>4. Live(s, later).carry = (s.carry \/ a + b >= Period)
        BY <2>3, <4>3
      <4>5. Live(rtc, later).carry = (rtc.carry \/ a + b >= Period)
        BY <2>4, <2>5
      <4> QED
        BY <4>3, <4>4, <4>5
    <3> QED
      BY <3>1, <3>2
  <2> QED
    BY <2>6, <2>7, LiveShape
<1> QED
  BY <1>3, <1>4

LEMMA LatchKeeps ==
  ASSUME NEW rtc \in RtcState, NEW value, NEW t \in Nat
  PROVE  /\ Latch(rtc, value, t) \in RtcState
         /\ \A later \in Nat : t <= later => Live(Latch(rtc, value, t), later) = Live(rtc, later)
<1>1. ASSUME NEW r \in RtcState, NEW armed \in BOOLEAN
      PROVE  /\ [r EXCEPT !.armed = armed] \in RtcState
             /\ \A later : Live([r EXCEPT !.armed = armed], later) = Live(r, later)
  <2> DEFINE a == [r EXCEPT !.armed = armed]
  <2>1. /\ a \in RtcState /\ a.counter = r.counter /\ a.updated = r.updated
        /\ a.halted = r.halted /\ a.carry = r.carry
    BY DEF RtcState
  <2>2. \A later : Live(a, later) = Live(r, later)
    <3> HIDE DEF a
    <3> QED
      BY <2>1 DEF Live
  <2> QED
    BY <2>1, <2>2
<1>2. Sync(rtc, t) \in RtcState
  BY SyncIs
<1>3. CASE value = 0
  <2>1. Latch(rtc, value, t) = [rtc EXCEPT !.armed = TRUE]
    BY <1>3 DEF Latch
  <2> QED
    BY <1>1, <2>1
<1>4. CASE value # 0 /\ value = 1 /\ rtc.armed
  <2>1. Latch(rtc, value, t) = [Sync(rtc, t) EXCEPT !.armed = FALSE]
    BY <1>4 DEF Latch
  <2>2. /\ [Sync(rtc, t) EXCEPT !.armed = FALSE] \in RtcState
        /\ \A later : Live([Sync(rtc, t) EXCEPT !.armed = FALSE], later) = Live(Sync(rtc, t), later)
    BY <1>1, <1>2
  <2>3. \A later \in Nat : t <= later => Live(Sync(rtc, t), later) = Live(rtc, later)
    BY SyncKeepsLive
  <2> QED
    BY <2>1, <2>2, <2>3
<1>5. CASE value # 0 /\ ~ (value = 1 /\ rtc.armed)
  <2>1. Latch(rtc, value, t) = [rtc EXCEPT !.armed = FALSE]
    BY <1>5 DEF Latch
  <2> QED
    BY <1>1, <2>1
<1> QED
  BY <1>3, <1>4, <1>5

\* A write to a register of the clock leaves the others in their ranges.
LEMMA WriteRtcKeeps ==
  ASSUME NEW rtc \in RtcState, NEW t \in Nat, NEW selector \in DOMAIN RegisterValues,
         NEW value \in RegisterValues[selector]
  PROVE  WriteRtc(rtc, selector, value, t) \in RtcState
<1> DEFINE live == Live(rtc, t).counter
           seconds == IF selector = "seconds" THEN value % SecondsPerDay ELSE live % SecondsPerDay
           day == live \div SecondsPerDay
           low == IF selector = "days" THEN value % DaysLow ELSE day % DaysLow
           high == IF selector = "flags" THEN value.high ELSE day \div DaysLow
           halted == IF selector = "flags" THEN value.halted ELSE rtc.halted
           synced == Sync(rtc, t)
           carry == IF selector = "flags" THEN value.carry ELSE synced.carry
           updated == IF rtc.halted # halted \/ ~ halted THEN t ELSE synced.updated
           counter == (high * DaysLow + low) * SecondsPerDay + seconds
<1>1. Period \in Nat \ {0} /\ SecondsPerDay \in Nat \ {0} /\ DaysLow \in Nat \ {0}
  BY PeriodIs
<1>2. /\ selector = "seconds" => value \in Nat
      /\ selector = "days" => value \in Nat
      /\ selector = "flags" => value.high \in {0, 1} /\ value.halted \in BOOLEAN
                                 /\ value.carry \in BOOLEAN
  <2>1. ASSUME selector = "seconds" PROVE value \in Nat
    <3>1. value \in 0 .. SecondsPerDay
      BY <2>1 DEF RegisterValues
    <3> QED
      BY <1>1, <3>1
  <2>2. ASSUME selector = "days" PROVE value \in Nat
    <3>1. value \in 0 .. DaysLow - 1
      BY <2>2 DEF RegisterValues
    <3> QED
      BY <1>1, <3>1
  <2>3. ASSUME selector = "flags"
        PROVE  value.high \in {0, 1} /\ value.halted \in BOOLEAN /\ value.carry \in BOOLEAN
    <3>1. value \in [high : {0, 1}, halted : BOOLEAN, carry : BOOLEAN]
      BY <2>3 DEF RegisterValues
    <3> QED
      BY <3>1
  <2> QED
    BY <2>1, <2>2, <2>3
<1>3. synced \in RtcState /\ live \in Nat /\ live < Period
  <2>1. live \in 0 .. Period - 1
    BY LiveIs
  <2> QED
    BY <1>1, <2>1, SyncIs
<1>4. seconds \in 0 .. SecondsPerDay - 1
  <2>1. ASSUME NEW a \in Nat PROVE a % SecondsPerDay \in 0 .. SecondsPerDay - 1
    BY <1>1, DivMod
  <2> QED
    BY <1>2, <1>3, <2>1
<1>5. day \in Nat /\ day < 2 * DaysLow
  <2>1. Period = (2 * DaysLow) * SecondsPerDay /\ 2 * DaysLow \in Nat
    BY <1>1 DEF Period
  <2>2. day \in Nat
    BY <1>1, <1>3, DivMod
  <2> HIDE DEF live
  <2>3. live < (2 * DaysLow) * SecondsPerDay
    BY <1>3, <2>1
  <2> QED
    BY <1>1, <1>3, <2>1, <2>2, <2>3, QuotientBelow
<1>6. low \in 0 .. DaysLow - 1
  <2>1. ASSUME NEW a \in Nat PROVE a % DaysLow \in 0 .. DaysLow - 1
    BY <1>1, DivMod
  <2> QED
    BY <1>2, <1>5, <2>1
<1>7. high \in 0 .. 2 - 1
  <2>1. day \div DaysLow \in Nat /\ day \div DaysLow < 2
    <3> HIDE DEF day
    <3> QED
      BY <1>1, <1>5, DivMod, QuotientBelow
  <2> QED
    BY <1>2, <2>1
<1>8. halted \in BOOLEAN
  BY <1>2 DEF RtcState
<1> HIDE DEF live, seconds, day, low, high, halted
<1>9. counter \in 0 .. Period - 1
  <2>1. high * DaysLow + low \in 0 .. 2 * DaysLow - 1
    BY <1>1, <1>6, <1>7, ComposedBelow
  <2>2. counter \in 0 .. (2 * DaysLow) * SecondsPerDay - 1
    <3>1. 2 * DaysLow \in Nat
      BY <1>1
    <3> QED
      BY <1>1, <1>4, <2>1, <3>1, ComposedBelow
  <2> QED
    BY <2>2 DEF Period
<1>10. carry \in BOOLEAN /\ updated \in Nat
  BY <1>2, <1>3, <1>8 DEF RtcState
<1>11. WriteRtc(rtc, selector, value, t) =
         [synced EXCEPT !.counter = counter, !.halted = halted, !.carry = carry,
                        !.updated = updated]
  BY <1>3 DEF WriteRtc, RtcState, live, seconds, day, low, high, halted
<1> HIDE DEF synced, carry, updated, counter
<1> DEFINE first == [synced EXCEPT !.counter = counter, !.halted = halted]
<1>12. first \in RtcState
  BY <1>3, <1>8, <1>9 DEF RtcState
<1>13. WriteRtc(rtc, selector, value, t) = [first EXCEPT !.carry = carry, !.updated = updated]
  BY <1>11
<1> HIDE DEF first
<1> QED
  BY <1>10, <1>12, <1>13 DEF RtcState

-----------------------------------------------------------------------------
(* The cartridge that is loaded.                                            *)

RegisterState ==
  [ramEnabled : BOOLEAN, low : 0 .. 511, high : 0 .. 255, ramBanking : BOOLEAN]

\* A cartridge with a clock has a battery, and the memory that its header
\* declares.
CartOK(c) ==
  /\ c = [header |-> c.header, registers |-> c.registers, ram |-> c.ram, rtc |-> c.rtc]
  /\ c.header \in Headers /\ c.header.features \in Features
  /\ c.registers \in RegisterState
  /\ c.ram \in [0 .. c.header.rams - 1 -> Values]
  /\ IF c.header.features.timer THEN c.rtc \in RtcState ELSE c.rtc = NoClock

CartridgeInv == CartOK(cart) /\ now \in Nat

LEMMA TimersHaveBatteries ==
  ASSUME NEW features \in Features, features.timer
  PROVE  features.battery
BY DEF Features

LEMMA RegistersKept ==
  ASSUME NEW r \in RegisterState, NEW at \in {0, 2, 3, 4, 6}, NEW value \in 0 .. 255,
         NEW features, NEW rams \in Nat
  PROVE  WriteRegisters(r, at, value, features, rams) \in RegisterState
<1>1. ASSUME NEW e PROVE EnableRam(r, e) \in RegisterState
  <2> DEFINE on == e % 16 = 10
  <2>1. on \in BOOLEAN
    OBVIOUS
  <2> HIDE DEF on
  <2>2. [r EXCEPT !.ramEnabled = on] \in RegisterState
    BY <2>1 DEF RegisterState
  <2> QED
    BY <2>2 DEF EnableRam, on
<1>2. ASSUME NEW low \in 0 .. 511 PROVE [r EXCEPT !.low = low] \in RegisterState
  BY DEF RegisterState
<1>3. ASSUME NEW high \in 0 .. 255 PROVE [r EXCEPT !.high = high] \in RegisterState
  BY DEF RegisterState
<1>4. ASSUME NEW on \in BOOLEAN PROVE [r EXCEPT !.ramBanking = on] \in RegisterState
  BY DEF RegisterState
<1>5. r.low \in 0 .. 511
  BY DEF RegisterState
<1>6. WriteMbc1(r, at, value) \in RegisterState
  <2> DEFINE low == value % 32
             high == value % 4
             on == value % 2 # 0
  <2>1. low \in 0 .. 511 /\ high \in 0 .. 255 /\ on \in BOOLEAN
    OBVIOUS
  <2>2. at = 0 => WriteMbc1(r, at, value) = EnableRam(r, value)
    BY DEF WriteMbc1
  <2>3. at \in {2, 3} => WriteMbc1(r, at, value) = [r EXCEPT !.low = low]
    BY DEF WriteMbc1
  <2>4. at = 4 => WriteMbc1(r, at, value) = [r EXCEPT !.high = high]
    BY DEF WriteMbc1
  <2>5. at = 6 => WriteMbc1(r, at, value) = [r EXCEPT !.ramBanking = on]
    BY DEF WriteMbc1
  <2> HIDE DEF low, high, on
  <2>6. CASE at = 0
    BY <1>1, <2>2, <2>6
  <2>7. CASE at \in {2, 3}
    BY <1>2, <2>1, <2>3, <2>7
  <2>8. CASE at = 4
    BY <1>3, <2>1, <2>4, <2>8
  <2>9. CASE at = 6
    BY <1>4, <2>1, <2>5, <2>9
  <2> QED
    BY <2>6, <2>7, <2>8, <2>9
<1>7. WriteMbc3(r, at, value) \in RegisterState
  <2> DEFINE low == IF value % 128 = 0 THEN 1 ELSE value % 128
  <2>1. low \in 0 .. 511
    OBVIOUS
  <2>2. at = 0 => WriteMbc3(r, at, value) = EnableRam(r, value)
    BY DEF WriteMbc3
  <2>3. at \in {2, 3} => WriteMbc3(r, at, value) = [r EXCEPT !.low = low]
    BY DEF WriteMbc3
  <2>4. at = 4 => WriteMbc3(r, at, value) = [r EXCEPT !.high = value]
    BY DEF WriteMbc3
  <2>5. at = 6 => WriteMbc3(r, at, value) = r
    BY DEF WriteMbc3
  <2> HIDE DEF low
  <2>6. CASE at = 0
    BY <1>1, <2>2, <2>6
  <2>7. CASE at \in {2, 3}
    BY <1>2, <2>1, <2>3, <2>7
  <2>8. CASE at = 4
    BY <1>3, <2>4, <2>8
  <2> QED
    BY <2>5, <2>6, <2>7, <2>8
<1>8. WriteMbc5(r, at, value, features, rams) \in RegisterState
  <2> DEFINE bank == value % (IF features.rumble THEN 8 ELSE 16)
             high == IF rams = 0 THEN 0 ELSE bank % rams
             lower == (r.low \div 256) * 256 + value
             upper == (r.low % 256) + 256 * (value % 2)
  <2>1. lower \in 0 .. 511 /\ upper \in 0 .. 511
    BY <1>5
  <2>2. high \in 0 .. 255
    <3>1. bank \in 0 .. 15
      OBVIOUS
    <3>2. ASSUME rams # 0 PROVE bank % rams \in 0 .. 15
      <4> HIDE DEF bank
      <4>1. bank \div rams \in Nat /\ bank % rams \in Nat
            /\ bank = (bank \div rams) * rams + (bank % rams)
        BY <3>1, <3>2, DivMod
      <4>2. (bank \div rams) * rams \in Nat
        BY <4>1, Z3
      <4> QED
        BY <3>1, <4>1, <4>2
    <3> QED
      BY <3>2
  <2>3. at = 0 => WriteMbc5(r, at, value, features, rams) = EnableRam(r, value)
    BY DEF WriteMbc5
  <2>4. at = 2 => WriteMbc5(r, at, value, features, rams) = [r EXCEPT !.low = lower]
    BY DEF WriteMbc5, RegisterState
  <2>5. at = 3 => WriteMbc5(r, at, value, features, rams) = [r EXCEPT !.low = upper]
    BY DEF WriteMbc5, RegisterState
  <2>6. at = 4 => WriteMbc5(r, at, value, features, rams) = [r EXCEPT !.high = high]
    BY DEF WriteMbc5
  <2>7. at = 6 => WriteMbc5(r, at, value, features, rams) = r
    BY DEF WriteMbc5
  <2> HIDE DEF high, lower, upper
  <2>8. CASE at = 0
    BY <1>1, <2>3, <2>8
  <2>9. CASE at = 2
    BY <1>2, <2>1, <2>4, <2>9
  <2>10. CASE at = 3
    BY <1>2, <2>1, <2>5, <2>10
  <2>11. CASE at = 4
    BY <1>3, <2>2, <2>6, <2>11
  <2> QED
    BY <2>7, <2>8, <2>9, <2>10, <2>11
<1> QED
  BY <1>6, <1>7, <1>8 DEF WriteRegisters

\* A state of the battery is one that the cartridge accepts.
LEMMA StateIs ==
  ASSUME NEW c, CartOK(c), NEW t \in Nat, c.header.features.battery
  PROVE  LET clock == IF c.header.features.timer THEN RtcBytes(c.rtc, t) ELSE NoClock
             state == [ram |-> c.ram, clock |-> clock]
         IN  BatteryState(c, t) = {state} /\ Restorable(c.header, state)
<1> DEFINE clock == IF c.header.features.timer THEN RtcBytes(c.rtc, t) ELSE NoClock
           state == [ram |-> c.ram, clock |-> clock]
<1>1. BatteryState(c, t) = {state}
  BY DEF BatteryState
<1>2. DOMAIN state.ram = 0 .. c.header.rams - 1
  BY DEF CartOK
<1>3. c.header.features.timer => ValidBytes(clock)
  <2> SUFFICES ASSUME c.header.features.timer PROVE ValidBytes(clock)
    OBVIOUS
  <2>1. clock.counter = Live(c.rtc, t).counter /\ c.rtc \in RtcState
    BY DEF RtcBytes, CartOK
  <2>2. Live(c.rtc, t).counter \in 0 .. Period - 1 /\ Period \in Nat
    BY <2>1, LiveIs, PeriodIs
  <2> HIDE DEF clock
  <2> QED
    BY <2>1, <2>2 DEF ValidBytes
<1>4. ~ c.header.features.timer => clock = NoClock
  OBVIOUS
<1> HIDE DEF clock
<1>5. Restorable(c.header, state)
  BY <1>2, <1>3, <1>4 DEF Restorable
<1> QED
  BY <1>1, <1>5 DEF clock

\* What was read back from the bytes goes on as what was saved.
LEMMA BytesKeepLive ==
  ASSUME NEW rtc \in RtcState, NEW t \in Nat, NEW load \in Nat
  PROVE  LET loaded == FromBytes(RtcBytes(rtc, t), load)
         IN  /\ loaded \in RtcState
             /\ loaded.halted = rtc.halted
             /\ t <= load => \A later \in Nat : load <= later =>
                               Live(loaded, later) = Live(rtc, later)
<1> DEFINE s == Sync(rtc, t)
           bytes == RtcBytes(rtc, t)
           counter == bytes.counter
           updated == bytes.updated
           halted == bytes.halted
           carry == bytes.carry
           b == [counter |-> counter, updated |-> updated, halted |-> halted,
                 carry |-> carry, armed |-> FALSE]
           loaded == FromBytes(bytes, load)
<1>1. /\ s \in RtcState /\ s.counter = Live(rtc, t).counter /\ s.carry = Live(rtc, t).carry
      /\ s.updated = IF rtc.updated < t THEN t ELSE rtc.updated
      /\ s.halted = rtc.halted
  BY SyncIs
<1>2. /\ counter = Live(rtc, t).counter /\ carry = Live(rtc, t).carry
      /\ updated = (IF rtc.updated < t THEN t ELSE rtc.updated) /\ halted = rtc.halted
  BY DEF RtcBytes, Later
<1>3. loaded = Sync(b, load)
  BY DEF FromBytes
<1> HIDE DEF s, bytes, counter, updated, halted, carry, loaded
<1>4. /\ counter = s.counter /\ carry = s.carry /\ updated = s.updated
      /\ halted = s.halted
  BY <1>1, <1>2
<1>5. b \in RtcState
  <2>1. /\ s.counter \in 0 .. Period - 1 /\ s.updated \in Nat /\ s.halted \in BOOLEAN
        /\ s.carry \in BOOLEAN
    BY <1>1 DEF RtcState
  <2> QED
    BY <1>4, <2>1 DEF RtcState
<1> HIDE DEF b
<1>6. loaded \in RtcState /\ loaded.halted = b.halted
  BY <1>3, <1>5, SyncIs
<1>7. ASSUME t <= load, NEW later \in Nat, load <= later
      PROVE  Live(loaded, later) = Live(rtc, later)
  <2>1. Live(loaded, later) = Live(b, later)
    BY <1>3, <1>5, <1>7, SyncKeepsLive
  <2>2. Live(b, later) = Live(s, later)
    BY <1>4 DEF Live, b
  <2>3. Live(s, later) = Live(rtc, later)
    <3>1. t <= later
      BY <1>7
    <3> QED
      BY <3>1, SyncKeepsLive DEF s
  <2> QED
    BY <2>1, <2>2, <2>3
<1> QED
  BY <1>2, <1>6, <1>7 DEF b, loaded, bytes

LEMMA NewRtcIs ==
  ASSUME NEW t \in Nat
  PROVE  NewRtc(t) \in RtcState
BY PeriodIs DEF NewRtc, RtcState

\* A cartridge is loaded with what its battery kept.
LEMMA LoadedIs ==
  ASSUME NEW c, CartOK(c), NEW t \in Nat, NEW load \in Nat
  PROVE  LET loaded == Loaded(c.header, BatteryState(c, t), load)
         IN  /\ CartOK(loaded)
             /\ loaded.header = c.header
             /\ c.header.features.timer => loaded.rtc = FromBytes(RtcBytes(c.rtc, t), load)
<1> DEFINE features == c.header.features
           clock == IF features.timer THEN RtcBytes(c.rtc, t) ELSE NoClock
           state == [ram |-> c.ram, clock |-> clock]
           fresh == [bank \in 0 .. c.header.rams - 1 |-> CHOOSE v \in Values : TRUE]
           ram == IF features.battery THEN c.ram ELSE fresh
           rtc == IF features.timer THEN FromBytes(RtcBytes(c.rtc, t), load) ELSE NoClock
           loaded == Loaded(c.header, BatteryState(c, t), load)
<1>1. features \in Features /\ (features.timer => features.battery)
  BY TimersHaveBatteries DEF CartOK
<1>2. loaded = [header |-> c.header, registers |-> Unset, ram |-> ram, rtc |-> rtc]
  <2>1. CASE features.battery
    <3>1. BatteryState(c, t) = {state}
      BY <2>1, StateIs
    <3>2. Saved({state}) = state
      BY DEF Saved
    <3>3. {state} # NoState
      BY DEF NoState
    <3>4. state.ram = c.ram /\ state.clock = clock
      OBVIOUS
    <3> HIDE DEF state
    <3>5. CASE features.timer
      BY <2>1, <3>1, <3>2, <3>3, <3>4, <3>5 DEF Loaded
    <3>6. CASE ~ features.timer
      BY <2>1, <3>1, <3>2, <3>3, <3>4, <3>6 DEF Loaded
    <3> QED
      BY <3>5, <3>6
  <2>2. CASE ~ features.battery
    <3>1. BatteryState(c, t) = NoState
      BY <2>2 DEF BatteryState
    <3>2. ~ features.timer
      BY <1>1, <2>2
    <3> QED
      BY <2>2, <3>1, <3>2 DEF Loaded
  <2> QED
    BY <2>1, <2>2
<1>3. ram \in [0 .. c.header.rams - 1 -> Values]
  <2>1. (CHOOSE v \in Values : TRUE) \in Values
    BY CartridgeAssumption DEF CartridgeAssumption
  <2> QED
    BY <2>1 DEF CartOK
<1>4. IF features.timer THEN rtc \in RtcState ELSE rtc = NoClock
  BY BytesKeepLive DEF CartOK
<1>5. Unset \in RegisterState
  BY DEF Unset, RegisterState
<1> HIDE DEF ram, rtc, loaded
<1>6. loaded.header = c.header /\ loaded.registers = Unset /\ loaded.ram = ram /\ loaded.rtc = rtc
  BY <1>2
<1>7. CartOK(loaded)
  BY <1>1, <1>2, <1>3, <1>4, <1>5, <1>6 DEF CartOK
<1> QED
  BY <1>6, <1>7 DEF loaded, rtc

LEMMA CartridgeStarts == CartridgeInit => CartridgeInv
<1> SUFFICES ASSUME NEW header \in Headers, header.features \in Features,
                    cart = Loaded(header, NoState, now), now \in Nat
             PROVE  CartridgeInv
  BY CartridgeAssumption DEF CartridgeInit, CartridgeAssumption
<1> DEFINE fresh == [bank \in 0 .. header.rams - 1 |-> CHOOSE v \in Values : TRUE]
           rtc == IF header.features.timer THEN NewRtc(now) ELSE NoClock
<1>1. cart = [header |-> header, registers |-> Unset, ram |-> fresh, rtc |-> rtc]
  BY DEF Loaded
<1>2. fresh \in [0 .. header.rams - 1 -> Values]
  <2>1. (CHOOSE v \in Values : TRUE) \in Values
    BY CartridgeAssumption DEF CartridgeAssumption
  <2> QED
    BY <2>1
<1>3. IF header.features.timer THEN rtc \in RtcState ELSE rtc = NoClock
  BY NewRtcIs
<1>4. Unset \in RegisterState
  BY DEF Unset, RegisterState
<1> HIDE DEF fresh, rtc
<1>5. cart.header = header /\ cart.registers = Unset /\ cart.ram = fresh /\ cart.rtc = rtc
  BY <1>1
<1> QED
  BY <1>1, <1>2, <1>3, <1>4, <1>5 DEF CartridgeInv, CartOK

-----------------------------------------------------------------------------
(* Every step keeps the invariant, and every step but a write to the clock  *)
(* keeps what the clock will show.                                          *)

KeepsTime(c, d, t) ==
  c.header.features.timer =>
    \A later \in Nat : t <= later => Live(d.rtc, later) = Live(c.rtc, later)

LEMMA WriteRomKeeps ==
  ASSUME CartridgeInv, NEW write \in RomWrites, WriteRom(write[1], write[2])
  PROVE  CartridgeInv' /\ KeepsTime(cart, cart', now) /\ cart'.header = cart.header
<1> DEFINE at == write[1]
           value == write[2]
           registers == WriteRegisters(cart.registers, at, value, cart.header.features,
                                       cart.header.rams)
           rtc == IF HasClock /\ at = 6 THEN Latch(cart.rtc, value, now) ELSE cart.rtc
<1>1. at \in {0, 2, 3, 4, 6} /\ value \in 0 .. 255
  BY DEF RomWrites
<1>2. /\ cart = [header |-> cart.header, registers |-> cart.registers, ram |-> cart.ram,
                 rtc |-> cart.rtc]
      /\ cart.registers \in RegisterState /\ cart.header \in Headers /\ now \in Nat
      /\ cart.header.features.timer => cart.rtc \in RtcState
  BY DEF CartridgeInv, CartOK
<1>3. registers \in RegisterState
  <2>1. cart.header.rams \in Nat
    BY <1>2, CartridgeAssumption DEF CartridgeAssumption
  <2> HIDE DEF at, value
  <2> QED
    BY <1>1, <1>2, <2>1, RegistersKept
<1>4. /\ cart.header.features.timer => rtc \in RtcState
      /\ ~ cart.header.features.timer => rtc = cart.rtc
      /\ cart.header.features.timer =>
           \A later \in Nat : now <= later => Live(rtc, later) = Live(cart.rtc, later)
  BY <1>2, LatchKeeps DEF HasClock
<1>5. cart' = [cart EXCEPT !.registers = registers, !.rtc = rtc] /\ now' = now
  BY DEF WriteRom
<1> HIDE DEF registers, rtc
<1>6. /\ cart' = [header |-> cart.header, registers |-> registers, ram |-> cart.ram, rtc |-> rtc]
      /\ cart'.header = cart.header /\ cart'.registers = registers /\ cart'.ram = cart.ram
      /\ cart'.rtc = rtc
  BY <1>2, <1>5
<1>7. CartOK(cart')
  BY <1>3, <1>4, <1>6 DEF CartridgeInv, CartOK
<1> QED
  BY <1>4, <1>5, <1>6, <1>7 DEF CartridgeInv, KeepsTime

LEMMA WriteMemoryKeeps ==
  ASSUME CartridgeInv, NEW value \in Values, WriteMemory(value)
  PROVE  CartridgeInv' /\ KeepsTime(cart, cart', now) /\ cart'.header = cart.header
<1> DEFINE bank == RamBank(cart.registers, cart.header.features)
           ram == [cart.ram EXCEPT ![bank] = value]
<1>1. cart = [header |-> cart.header, registers |-> cart.registers, ram |-> cart.ram,
              rtc |-> cart.rtc]
  BY DEF CartridgeInv, CartOK
<1>2. cart' = [cart EXCEPT !.ram[bank] = value] /\ now' = now
  BY DEF WriteMemory
<1>3. ram \in [0 .. cart.header.rams - 1 -> Values]
  BY DEF CartridgeInv, CartOK
<1>4. cart' = [cart EXCEPT !.ram = ram]
  BY <1>2
<1> HIDE DEF ram, bank
<1>5. /\ cart' = [header |-> cart.header, registers |-> cart.registers, ram |-> ram,
                  rtc |-> cart.rtc]
      /\ cart'.header = cart.header /\ cart'.registers = cart.registers /\ cart'.ram = ram
      /\ cart'.rtc = cart.rtc
  BY <1>1, <1>4
<1>6. CartOK(cart')
  BY <1>3, <1>5 DEF CartridgeInv, CartOK
<1> QED
  BY <1>2, <1>5, <1>6 DEF CartridgeInv, KeepsTime

LEMMA WriteClockKeeps ==
  ASSUME CartridgeInv, WriteClock
  PROVE  CartridgeInv' /\ cart'.header = cart.header
<1>1. PICK value \in RegisterValues[Selected(cart)] :
        cart' = [cart EXCEPT !.rtc = WriteRtc(cart.rtc, Selected(cart), value, now)]
  BY DEF WriteClock
<1> DEFINE rtc == WriteRtc(cart.rtc, Selected(cart), value, now)
<1>2. /\ cart = [header |-> cart.header, registers |-> cart.registers, ram |-> cart.ram,
                 rtc |-> cart.rtc]
      /\ cart.header.features.timer /\ cart.rtc \in RtcState /\ now \in Nat
      /\ Selected(cart) \in DOMAIN RegisterValues /\ now' = now
  BY DEF CartridgeInv, CartOK, WriteClock, HasClock
<1>3. rtc \in RtcState
  BY <1>2, WriteRtcKeeps
<1> HIDE DEF rtc
<1>4. cart' = [cart EXCEPT !.rtc = rtc]
  BY <1>1 DEF rtc
<1>5. /\ cart' = [header |-> cart.header, registers |-> cart.registers, ram |-> cart.ram,
                  rtc |-> rtc]
      /\ cart'.header = cart.header /\ cart'.registers = cart.registers
      /\ cart'.ram = cart.ram /\ cart'.rtc = rtc
  BY <1>2, <1>4
<1>6. CartOK(cart')
  BY <1>2, <1>3, <1>5 DEF CartridgeInv, CartOK
<1> QED
  BY <1>2, <1>5, <1>6 DEF CartridgeInv

LEMMA ResetKeeps ==
  ASSUME CartridgeInv, ResetCartridge
  PROVE  CartridgeInv' /\ KeepsTime(cart, cart', now) /\ cart'.header = cart.header
<1> DEFINE synced == Sync(cart.rtc, now)
           disarmed == [synced EXCEPT !.armed = FALSE]
           rtc == IF HasClock THEN disarmed ELSE cart.rtc
<1>1. /\ cart = [header |-> cart.header, registers |-> cart.registers, ram |-> cart.ram,
                 rtc |-> cart.rtc]
      /\ now \in Nat /\ (cart.header.features.timer => cart.rtc \in RtcState)
  BY DEF CartridgeInv, CartOK
<1>2. cart' = [cart EXCEPT !.registers = Unset, !.rtc = rtc] /\ now' = now
  BY DEF ResetCartridge
<1>3. ASSUME cart.header.features.timer
      PROVE  /\ rtc \in RtcState
             /\ \A later \in Nat : now <= later => Live(rtc, later) = Live(cart.rtc, later)
  <2>1. /\ synced \in RtcState
        /\ \A later \in Nat : now <= later => Live(synced, later) = Live(cart.rtc, later)
    BY <1>1, <1>3, SyncIs, SyncKeepsLive
  <2> HIDE DEF synced
  <2>2. /\ disarmed \in RtcState /\ disarmed.counter = synced.counter
        /\ disarmed.updated = synced.updated /\ disarmed.halted = synced.halted
        /\ disarmed.carry = synced.carry
    BY <2>1 DEF RtcState
  <2>3. rtc = disarmed
    BY <1>3 DEF HasClock
  <2> HIDE DEF disarmed, rtc
  <2>4. \A later : Live(disarmed, later) = Live(synced, later)
    BY <2>2 DEF Live
  <2> QED
    BY <2>1, <2>2, <2>3, <2>4
<1>4. ~ cart.header.features.timer => rtc = cart.rtc
  BY DEF HasClock
<1>5. Unset \in RegisterState
  BY DEF Unset, RegisterState
<1> HIDE DEF rtc
<1>6. /\ cart' = [header |-> cart.header, registers |-> Unset, ram |-> cart.ram, rtc |-> rtc]
      /\ cart'.header = cart.header /\ cart'.registers = Unset /\ cart'.ram = cart.ram
      /\ cart'.rtc = rtc
  BY <1>1, <1>2
<1>7. CartOK(cart')
  BY <1>3, <1>4, <1>5, <1>6 DEF CartridgeInv, CartOK
<1> QED
  BY <1>2, <1>3, <1>6, <1>7 DEF CartridgeInv, KeepsTime

LEMMA SaveAndLoadKeeps ==
  ASSUME CartridgeInv, NEW t \in 0 .. MaxTime, SaveAndLoad(t)
  PROVE  /\ CartridgeInv'
         /\ now <= now' => KeepsTime(cart, cart', now')
         /\ cart'.header = cart.header
<1>1. CartOK(cart) /\ now \in Nat /\ t \in Nat
  BY CartridgeAssumption DEF CartridgeInv, CartridgeAssumption
<1>2. now' = t /\ cart' = Loaded(cart.header, BatteryState(cart, now), t)
  BY DEF SaveAndLoad
<1>3. /\ CartOK(cart') /\ cart'.header = cart.header
      /\ cart.header.features.timer => cart'.rtc = FromBytes(RtcBytes(cart.rtc, now), t)
  BY <1>1, <1>2, LoadedIs
<1>4. ASSUME now <= t, cart.header.features.timer, NEW later \in Nat, t <= later
      PROVE  Live(cart'.rtc, later) = Live(cart.rtc, later)
  <2>1. cart.rtc \in RtcState
    BY <1>1, <1>4 DEF CartOK
  <2> QED
    BY <1>1, <1>3, <1>4, <2>1, BytesKeepLive
<1> QED
  BY <1>1, <1>2, <1>3, <1>4 DEF CartridgeInv, KeepsTime

LEMMA CartridgeStep ==
  ASSUME CartridgeInv, [CartridgeNext]_<<cart, now>>
  PROVE  /\ CartridgeInv'
         /\ ~ WriteClock /\ now <= now' => KeepsTime(cart, cart', now')
         /\ cart'.header = cart.header
<1>1. ASSUME NEW write \in RomWrites, WriteRom(write[1], write[2]) PROVE now' = now
  BY <1>1 DEF WriteRom
<1>2. ASSUME NEW value \in Values, WriteMemory(value) PROVE now' = now
  BY <1>2 DEF WriteMemory
<1>3. ResetCartridge => now' = now
  BY DEF ResetCartridge
<1>4. CASE \E write \in RomWrites : WriteRom(write[1], write[2])
  BY <1>1, <1>4, WriteRomKeeps
<1>5. CASE \E value \in Values : WriteMemory(value)
  BY <1>2, <1>5, WriteMemoryKeeps
<1>6. CASE WriteClock
  BY <1>6, WriteClockKeeps
<1>7. CASE ResetCartridge
  BY <1>3, <1>7, ResetKeeps
<1>8. CASE \E t \in 0 .. MaxTime : SaveAndLoad(t)
  BY <1>8, SaveAndLoadKeeps
<1>9. CASE \E t \in 0 .. MaxTime : TimePasses(t)
  <2>1. cart' = cart /\ now' \in Nat
    BY <1>9, CartridgeAssumption DEF TimePasses, CartridgeAssumption
  <2> QED
    BY <2>1 DEF CartridgeInv, KeepsTime
<1>10. CASE UNCHANGED <<cart, now>>
  BY <1>10 DEF CartridgeInv, KeepsTime
<1> QED
  BY <1>4, <1>5, <1>6, <1>7, <1>8, <1>9, <1>10 DEF CartridgeNext

\* The registers, the memory and the clock of every accepted cartridge stay
\* in their ranges, and a clock that is there stays.
THEOREM CartridgeInvariant == CartridgeSpec => []CartridgeInv
<1>1. CartridgeInv /\ [CartridgeNext]_<<cart, now>> => CartridgeInv'
  BY CartridgeStep
<1> QED
  BY <1>1, CartridgeStarts, PTL DEF CartridgeSpec

\* Saving and loading, for every length of the day and every later time.
THEOREM SavesRestore == CartridgeSpec => []SaveRestores
<1>1. CartridgeInv => SaveRestores
  <2> SUFFICES ASSUME CartridgeInv, NEW state \in BatteryState(cart, now)
               PROVE  /\ Restorable(cart.header, state)
                      /\ state.ram = cart.ram
                      /\ HasClock => \A load \in now .. MaxTime : \A later \in load .. MaxTime :
                           LET loaded == FromBytes(state.clock, load)
                           IN  /\ Live(loaded, later) = Live(cart.rtc, later)
                               /\ loaded.halted = cart.rtc.halted
    BY DEF SaveRestores
  <2>1. CartOK(cart) /\ now \in Nat /\ MaxTime \in Nat
    BY CartridgeAssumption DEF CartridgeInv, CartridgeAssumption
  <2>2. cart.header.features.battery
    BY DEF BatteryState, NoState
  <2> DEFINE clock == IF cart.header.features.timer THEN RtcBytes(cart.rtc, now) ELSE NoClock
  <2>3. state = [ram |-> cart.ram, clock |-> clock] /\ Restorable(cart.header, state)
    BY <2>1, <2>2, StateIs
  <2> HIDE DEF clock
  <2>4. state.ram = cart.ram /\ state.clock = clock
    BY <2>3
  <2>5. ASSUME HasClock, NEW load \in now .. MaxTime, NEW later \in load .. MaxTime
        PROVE  /\ Live(FromBytes(state.clock, load), later) = Live(cart.rtc, later)
               /\ FromBytes(state.clock, load).halted = cart.rtc.halted
    <3>1. state.clock = RtcBytes(cart.rtc, now) /\ cart.rtc \in RtcState
      BY <2>1, <2>4, <2>5 DEF CartOK, HasClock, clock
    <3>2. load \in Nat /\ later \in Nat /\ now <= load /\ load <= later
      BY <2>1
    <3> QED
      BY <2>1, <3>1, <3>2, BytesKeepLive
  <2> QED
    BY <2>3, <2>4, <2>5
<1> QED
  BY <1>1, CartridgeInvariant, PTL

\* Only a write to the clock changes what it will show.
THEOREM ClockKeepsTheTime == CartridgeSpec => ClockKeepsTime
<1>1. CartridgeInv /\ [CartridgeNext]_<<cart, now>> =>
        [HasClock /\ now' >= now /\ ~ WriteClock =>
           \A later \in now' .. MaxTime : Live(cart'.rtc, later) = Live(cart.rtc, later)
        ]_<<cart, now>>
  <2> SUFFICES ASSUME CartridgeInv, [CartridgeNext]_<<cart, now>>,
                      HasClock, now' >= now, ~ WriteClock,
                      NEW later \in now' .. MaxTime
               PROVE  Live(cart'.rtc, later) = Live(cart.rtc, later)
    OBVIOUS
  <2>1. CartridgeInv' /\ KeepsTime(cart, cart', now')
    <3>1. now \in Nat /\ CartridgeInv'
      BY CartridgeStep DEF CartridgeInv
    <3>2. now' \in Nat
      BY <3>1 DEF CartridgeInv
    <3>3. now <= now'
      BY <3>1, <3>2
    <3> QED
      BY <3>1, <3>3, CartridgeStep
  <2>2. later \in Nat /\ now' <= later
    BY <2>1, CartridgeAssumption DEF CartridgeInv, CartridgeAssumption
  <2> QED
    BY <2>1, <2>2 DEF KeepsTime, HasClock
<1> QED
  BY <1>1, CartridgeInvariant, PTL DEF CartridgeSpec, ClockKeepsTime

-----------------------------------------------------------------------------
(* The banks that a game reaches.                                           *)

Off == FALSE

Setting(low, high, mode) ==
  [ramEnabled |-> Off, low |-> low, high |-> high, ramBanking |-> mode]

LEMMA SettingFields ==
  ASSUME NEW low, NEW high, NEW mode, NEW value
  PROVE  /\ Setting(low, high, mode).low = low
         /\ Setting(low, high, mode).high = high
         /\ Setting(low, high, mode).ramBanking = mode
         /\ [Setting(low, high, mode) EXCEPT !.low = value] = Setting(value, high, mode)
         /\ [Setting(low, high, mode) EXCEPT !.high = value] = Setting(low, value, mode)
         /\ [Setting(low, high, mode) EXCEPT !.ramBanking = value] = Setting(low, high, value)
<1>1. [Setting(low, high, mode) EXCEPT !.low = value] = Setting(value, high, mode)
  BY SMT DEF Setting
<1>2. [Setting(low, high, mode) EXCEPT !.high = value] = Setting(low, value, mode)
  BY SMT DEF Setting
<1>3. [Setting(low, high, mode) EXCEPT !.ramBanking = value] = Setting(low, high, value)
  BY SMT DEF Setting
<1> QED
  BY <1>1, <1>2, <1>3 DEF Setting

LEMMA UnsetIs == Unset = Setting(1, 0, Off)
BY DEF Unset, Setting, Off

\* The writes to the registers of each mapper.
LEMMA WritesAre ==
  ASSUME NEW features, NEW registers, NEW value, NEW rams
  PROVE  /\ features.mapper = "Mbc1" =>
              /\ WriteRegisters(registers, 2, value, features, rams)
                   = [registers EXCEPT !.low = value % 32]
              /\ WriteRegisters(registers, 4, value, features, rams)
                   = [registers EXCEPT !.high = value % 4]
              /\ WriteRegisters(registers, 6, value, features, rams)
                   = [registers EXCEPT !.ramBanking = (value % 2 # 0)]
         /\ features.mapper = "Mbc3" =>
              /\ WriteRegisters(registers, 2, value, features, rams)
                   = [registers EXCEPT !.low = IF value % 128 = 0 THEN 1 ELSE value % 128]
              /\ WriteRegisters(registers, 4, value, features, rams)
                   = [registers EXCEPT !.high = value]
              /\ WriteRegisters(registers, 6, value, features, rams) = registers
         /\ features.mapper = "Mbc5" =>
              /\ WriteRegisters(registers, 2, value, features, rams)
                   = [registers EXCEPT !.low = (registers.low \div 256) * 256 + value]
              /\ WriteRegisters(registers, 3, value, features, rams)
                   = [registers EXCEPT !.low = (registers.low % 256) + 256 * (value % 2)]
              /\ WriteRegisters(registers, 4, value, features, rams)
                   = [registers EXCEPT !.high =
                        IF rams = 0 THEN 0
                        ELSE (value % (IF features.rumble THEN 8 ELSE 16)) % rams]
              /\ WriteRegisters(registers, 6, value, features, rams) = registers
<1>1. /\ features.mapper = "Mbc1" =>
           \A at : WriteRegisters(registers, at, value, features, rams)
                     = WriteMbc1(registers, at, value)
      /\ features.mapper = "Mbc3" =>
           \A at : WriteRegisters(registers, at, value, features, rams)
                     = WriteMbc3(registers, at, value)
      /\ features.mapper = "Mbc5" =>
           \A at : WriteRegisters(registers, at, value, features, rams)
                     = WriteMbc5(registers, at, value, features, rams)
  BY SMT DEF WriteRegisters
<1>2. /\ WriteMbc1(registers, 2, value) = [registers EXCEPT !.low = value % 32]
      /\ WriteMbc1(registers, 4, value) = [registers EXCEPT !.high = value % 4]
      /\ WriteMbc1(registers, 6, value) = [registers EXCEPT !.ramBanking = (value % 2 # 0)]
  BY SMT DEF WriteMbc1
<1>3. /\ WriteMbc3(registers, 2, value)
           = [registers EXCEPT !.low = IF value % 128 = 0 THEN 1 ELSE value % 128]
      /\ WriteMbc3(registers, 4, value) = [registers EXCEPT !.high = value]
      /\ WriteMbc3(registers, 6, value) = registers
  BY SMT DEF WriteMbc3
<1>4. /\ WriteMbc5(registers, 2, value, features, rams)
           = [registers EXCEPT !.low = (registers.low \div 256) * 256 + value]
      /\ WriteMbc5(registers, 3, value, features, rams)
           = [registers EXCEPT !.low = (registers.low % 256) + 256 * (value % 2)]
      /\ WriteMbc5(registers, 4, value, features, rams)
           = [registers EXCEPT !.high =
                IF rams = 0 THEN 0
                ELSE (value % (IF features.rumble THEN 8 ELSE 16)) % rams]
      /\ WriteMbc5(registers, 6, value, features, rams) = registers
  BY SMT DEF WriteMbc5
<1>5. CASE features.mapper = "Mbc1"
  BY <1>1, <1>2, <1>5, Zenon
<1>6. CASE features.mapper = "Mbc3"
  BY <1>1, <1>3, <1>6, Zenon
<1>7. CASE features.mapper = "Mbc5"
  BY <1>1, <1>4, <1>7, Zenon
<1> QED
  BY <1>5, <1>6, <1>7, Zenon

\* A write to the bank register of the MBC1 and of the MBC3.
LEMMA LowIsSet ==
  ASSUME NEW features, NEW value \in 0 .. 255
  PROVE  /\ features.mapper = "Mbc1" =>
              WriteRegisters(Unset, 2, value, features, 0) = Setting(value % 32, 0, Off)
         /\ features.mapper = "Mbc3" =>
              WriteRegisters(Unset, 2, value, features, 0)
                = Setting(IF value % 128 = 0 THEN 1 ELSE value % 128, 0, Off)
         /\ features.mapper = "Mbc5" =>
              \A high \in {0, 1} :
                WriteRegisters(WriteRegisters(Unset, 2, value, features, 0), 3, high, features, 0)
                  = Setting(256 * high + value, 0, Off)
<1>1. ASSUME features.mapper = "Mbc1"
      PROVE  WriteRegisters(Unset, 2, value, features, 0) = Setting(value % 32, 0, Off)
  <2>1. WriteRegisters(Unset, 2, value, features, 0) = [Unset EXCEPT !.low = value % 32]
    BY <1>1, WritesAre
  <2> QED
    BY <2>1, UnsetIs, SettingFields
<1>2. ASSUME features.mapper = "Mbc3"
      PROVE  WriteRegisters(Unset, 2, value, features, 0)
               = Setting(IF value % 128 = 0 THEN 1 ELSE value % 128, 0, Off)
  <2>1. WriteRegisters(Unset, 2, value, features, 0)
          = [Unset EXCEPT !.low = IF value % 128 = 0 THEN 1 ELSE value % 128]
    BY <1>2, WritesAre
  <2> QED
    BY <2>1, UnsetIs, SettingFields
<1>3. ASSUME features.mapper = "Mbc5", NEW high \in {0, 1}
      PROVE  WriteRegisters(WriteRegisters(Unset, 2, value, features, 0), 3, high, features, 0)
               = Setting(256 * high + value, 0, Off)
  <2> DEFINE first == Setting(value, 0, Off)
  <2>1. (1 \div 256) * 256 + value = value /\ (value % 256) + 256 * (high % 2) = 256 * high + value
    BY <1>3, SMT
  <2>2. Unset.low = 1 /\ first.low = value
    BY UnsetIs, SettingFields
  <2>3. WriteRegisters(Unset, 2, value, features, 0) = [Unset EXCEPT !.low = value]
    BY <1>3, <2>1, <2>2, WritesAre
  <2>4. [Unset EXCEPT !.low = value] = first
    BY UnsetIs, SettingFields
  <2>5. [first EXCEPT !.low = 256 * high + value] = Setting(256 * high + value, 0, Off)
    BY SettingFields
  <2> HIDE DEF first
  <2>6. WriteRegisters(first, 3, high, features, 0) = [first EXCEPT !.low = 256 * high + value]
    BY <1>3, <2>1, <2>2, WritesAre
  <2> QED
    BY <2>3, <2>4, <2>5, <2>6
<1> QED
  BY <1>1, <1>2, <1>3

\* The settings of the registers that a bank of the ROM takes.
LEMMA RomSettingsAre ==
  ASSUME NEW features
  PROVE  /\ features.mapper = "Mbc1" =>
              \A low \in 0 .. 31, high \in 0 .. 3, mode \in BOOLEAN :
                Setting(low, high, mode) \in RomSettings(features)
         /\ features.mapper = "Mbc3" =>
              \A low \in 1 .. 127 : Setting(low, 0, Off) \in RomSettings(features)
         /\ features.mapper = "Mbc5" =>
              \A low \in 0 .. 511 : Setting(low, 0, Off) \in RomSettings(features)
         /\ RomSettings(features) # {}
<1> DEFINE W(registers, at, value) == WriteRegisters(registers, at, value, features, 0)
           Reached == {W(Unset, 2, value) : value \in 0 .. 255}
           Five == {W(W(Unset, 2, value), 3, high) : value \in 0 .. 255, high \in {0, 1}}
           One == {W(W(registers, 4, high), 6, mode) :
                     registers \in Reached, high \in 0 .. 3, mode \in {0, 1}}
<1>1. /\ features.mapper = "Mbc1" => RomSettings(features) = One
      /\ features.mapper = "Mbc5" => RomSettings(features) = Five
      /\ features.mapper \notin {"Mbc1", "Mbc5"} => RomSettings(features) = Reached
  BY DEF RomSettings
<1>2. ASSUME features.mapper = "Mbc1", NEW low \in 0 .. 31, NEW high \in 0 .. 3,
             NEW mode \in BOOLEAN
      PROVE  Setting(low, high, mode) \in One
  <2>1. low \in 0 .. 255 /\ low % 32 = low /\ high % 4 = high
    BY SMT
  <2>2. W(Unset, 2, low) = Setting(low, 0, Off)
    BY <1>2, <2>1, LowIsSet
  <2>3. \A registers : W(registers, 4, high) = [registers EXCEPT !.high = high]
    BY <1>2, <2>1, WritesAre
  <2> DEFINE bit == IF mode THEN 1 ELSE 0
  <2>4. bit \in {0, 1} /\ (bit % 2 # 0) = mode
    BY SMT
  <2> HIDE DEF bit
  <2>5. \A registers : W(registers, 6, bit) = [registers EXCEPT !.ramBanking = (bit % 2 # 0)]
    BY <1>2, WritesAre
  <2>6. \A registers : W(registers, 6, bit) = [registers EXCEPT !.ramBanking = mode]
    BY <2>4, <2>5
  <2>7. W(Setting(low, 0, Off), 4, high) = Setting(low, high, Off)
    BY <2>3, SettingFields
  <2>8. W(Setting(low, high, Off), 6, bit) = Setting(low, high, mode)
    BY <2>6, SettingFields
  <2>9. Setting(low, 0, Off) \in Reached
    BY <2>1, <2>2
  <2> HIDE DEF Reached, W
  <2>10. W(W(Setting(low, 0, Off), 4, high), 6, bit) \in One
    BY <2>4, <2>9
  <2> QED
    BY <2>7, <2>8, <2>10
<1>3. ASSUME features.mapper = "Mbc3", NEW low \in 1 .. 127
      PROVE  Setting(low, 0, Off) \in Reached
  <2>1. low \in 0 .. 255 /\ low % 128 = low /\ low # 0
    BY SMT
  <2>2. W(Unset, 2, low) = Setting(low, 0, Off)
    BY <1>3, <2>1, LowIsSet
  <2> QED
    BY <2>1, <2>2
<1>4. ASSUME features.mapper = "Mbc5", NEW low \in 0 .. 511
      PROVE  Setting(low, 0, Off) \in Five
  <2> DEFINE value == low % 256
             high == low \div 256
  <2>1. value \in 0 .. 255 /\ high \in {0, 1} /\ 256 * high + value = low
    BY SMT
  <2> HIDE DEF value, high
  <2>2. W(W(Unset, 2, value), 3, high) = Setting(low, 0, Off)
    BY <1>4, <2>1, LowIsSet
  <2> HIDE DEF W
  <2>3. W(W(Unset, 2, value), 3, high) \in Five
    BY <2>1
  <2> QED
    BY <2>2, <2>3
<1>5. Reached # {}
  <2>1. W(Unset, 2, 0) \in Reached
    BY SMT
  <2> QED
    BY <2>1
<1>6. features.mapper \in {"Mbc1", "Mbc5"} => RomSettings(features) # {}
  <2>1. 0 \in 0 .. 31 /\ 0 \in 0 .. 3 /\ 0 \in 0 .. 511 /\ Off \in BOOLEAN
    BY SMT DEF Off
  <2> HIDE DEF One, Five
  <2> QED
    BY <1>1, <1>2, <1>4, <2>1
<1> HIDE DEF Reached, One, Five
<1> QED
  BY <1>1, <1>2, <1>3, <1>4, <1>5, <1>6

\* The banks shown, of registers that are set.
LEMMA ShownAre ==
  ASSUME NEW features, NEW low, NEW high, NEW mode, NEW roms
  PROVE  LET registers == Setting(low, high, mode)
             raw == high * 32 + low
         IN  /\ features.mapper = "RomOnly" => SwitchBank(registers, features, roms) = 1
             /\ features.mapper = "Mbc1" =>
                  /\ SwitchBank(registers, features, roms)
                       = (IF raw % 32 = 0 THEN raw + 1 ELSE raw) % roms
             /\ features.mapper \in {"Mbc3", "Mbc5"} =>
                  /\ SwitchBank(registers, features, roms) = low % roms
                  /\ RamBank(registers, features) = high
<1> DEFINE registers == Setting(low, high, mode)
<1>1. registers.low = low /\ registers.high = high /\ registers.ramBanking = mode
  BY SettingFields
<1> HIDE DEF registers
<1>2. features.mapper = "RomOnly" => SwitchBank(registers, features, roms) = 1
  BY SMT DEF SwitchBank
<1>3. features.mapper = "Mbc1" =>
        SwitchBank(registers, features, roms)
          = (IF (high * 32 + low) % 32 = 0 THEN high * 32 + low + 1 ELSE high * 32 + low) % roms
  BY <1>1, SMT DEF SwitchBank
<1>4. features.mapper \in {"Mbc3", "Mbc5"} =>
        /\ SwitchBank(registers, features, roms) = low % roms
        /\ RamBank(registers, features) = high
  BY <1>1, SMT DEF SwitchBank, RamBank
<1> QED
  BY <1>2, <1>3, <1>4 DEF registers

LEMMA BankingShows ==
  ASSUME NEW features, NEW low, NEW high, features.mapper = "Mbc1"
  PROVE  RamBank(Setting(low, high, TRUE), features) = high
<1> DEFINE on == TRUE
           registers == Setting(low, high, on)
<1> HIDE DEF on
<1>1. registers.high = high /\ registers.ramBanking = on
  BY SettingFields
<1>2. registers.ramBanking
  BY <1>1 DEF on
<1> HIDE DEF registers
<1>3. RamBank(registers, features) = high
  BY <1>1, <1>2, SMT DEF RamBank
<1> QED
  BY <1>3 DEF registers, on

\* Each bank of the ROM but the first has a setting that shows it: of the
\* MBC1 those whose low bits are all zero in place of the first one.
LEMMA RomReached ==
  ASSUME NEW features \in Features, NEW roms \in RomBanks, ValidCapacity(features, roms, 0)
  PROVE  1 .. roms - 1 \subseteq RomShown(features, roms)
<1> SUFFICES ASSUME NEW bank \in 1 .. roms - 1
             PROVE  bank \in RomShown(features, roms)
  OBVIOUS
<1>1. roms \in Nat /\ bank \in Nat /\ bank > 0 /\ bank < roms /\ bank % roms = bank
  <2>1. roms \in Nat
    BY DEF RomBanks
  <2> QED
    BY <2>1, SMT
<1>2. /\ features.mapper \in {"RomOnly", "Mbc1", "Mbc3", "Mbc5"}
      /\ features.mapper = "RomOnly" => roms <= 2
      /\ features.mapper \in {"Mbc1", "Mbc3"} => roms <= 128
      /\ features.mapper = "Mbc5" => roms <= 512
  <2>1. features.mapper \in {"RomOnly", "Mbc1", "Mbc3", "Mbc5"}
    BY DEF Features
  <2> QED
    BY <2>1, SMT DEF ValidCapacity
<1>3. \A registers \in RomSettings(features) :
        /\ SwitchBank(registers, features, roms) \in RomShown(features, roms)
        /\ FixedBank(registers, features, roms) \in RomShown(features, roms)
  BY DEF RomShown
<1>4. CASE features.mapper = "RomOnly"
  <2>1. bank = 1
    BY <1>1, <1>2, <1>4
  <2>2. PICK registers \in RomSettings(features) : TRUE
    BY RomSettingsAre
  <2>3. SwitchBank(registers, features, roms) = 1
    BY <1>4, SMT DEF SwitchBank
  <2> QED
    BY <1>3, <2>1, <2>2, <2>3
<1>5. CASE features.mapper = "Mbc1"
  <2> DEFINE low == bank % 32
             high == bank \div 32
             on == TRUE
             registers == Setting(low, high, on)
  <2>1. low \in 0 .. 31 /\ high \in 0 .. 3 /\ high * 32 + low = bank
    BY <1>1, <1>2, <1>5, SMT
  <2>2. on \in BOOLEAN /\ on
    OBVIOUS
  <2>3. low = 0 => high * 32 = bank
    BY <2>1, SMT
  <2>4. low = 0 \/ bank % 32 # 0
    OBVIOUS
  <2> HIDE DEF low, high, on
  <2>5. registers \in RomSettings(features)
    BY <1>5, <2>1, <2>2, RomSettingsAre
  <2>6. FixedBank(registers, features, roms) = (high * 32) % roms
    <3>1. registers.high = high /\ registers.ramBanking = on
      BY SettingFields
    <3>2. registers.ramBanking
      BY <2>2, <3>1
    <3> HIDE DEF registers
    <3> QED
      BY <1>5, <3>1, <3>2, SMT DEF FixedBank
  <2>7. SwitchBank(registers, features, roms) = (IF bank % 32 = 0 THEN bank + 1 ELSE bank) % roms
    <3>1. SwitchBank(registers, features, roms)
            = (IF (high * 32 + low) % 32 = 0 THEN high * 32 + low + 1 ELSE high * 32 + low) % roms
      BY <1>5, ShownAre
    <3> QED
      BY <2>1, <3>1
  <2> HIDE DEF registers
  <2>8. CASE low = 0
    <3>1. FixedBank(registers, features, roms) = bank
      BY <1>1, <2>3, <2>6, <2>8
    <3> QED
      BY <1>3, <2>5, <3>1
  <2>9. CASE bank % 32 # 0
    <3>1. SwitchBank(registers, features, roms) = bank
      BY <1>1, <2>7, <2>9
    <3> QED
      BY <1>3, <2>5, <3>1
  <2> QED
    BY <2>4, <2>8, <2>9
<1>6. CASE features.mapper = "Mbc3"
  <2>1. bank \in 1 .. 127
    BY <1>1, <1>2, <1>6
  <2>2. Setting(bank, 0, Off) \in RomSettings(features)
    BY <1>6, <2>1, RomSettingsAre
  <2>3. SwitchBank(Setting(bank, 0, Off), features, roms) = bank
    BY <1>1, <1>6, ShownAre
  <2> QED
    BY <1>3, <2>2, <2>3
<1>7. CASE features.mapper = "Mbc5"
  <2>1. bank \in 0 .. 511
    BY <1>1, <1>2, <1>7
  <2>2. Setting(bank, 0, Off) \in RomSettings(features)
    BY <1>7, <2>1, RomSettingsAre
  <2>3. SwitchBank(Setting(bank, 0, Off), features, roms) = bank
    BY <1>1, <1>7, ShownAre
  <2> QED
    BY <1>3, <2>2, <2>3
<1> QED
  BY <1>2, <1>4, <1>5, <1>6, <1>7

\* The settings of the registers that a bank of the memory takes.
LEMMA RamSettingIs ==
  ASSUME NEW features, NEW rams \in Nat, NEW bank \in 0 .. 255
  PROVE  LET registers == WriteRegisters(WriteRegisters(Unset, 6, 1, features, rams), 4, bank,
                                         features, rams)
             places == IF features.rumble THEN 8 ELSE 16
         IN  /\ features.mapper = "Mbc1" => registers = Setting(1, bank % 4, TRUE)
             /\ features.mapper = "Mbc3" => registers = Setting(1, bank, Off)
             /\ features.mapper = "Mbc5" =>
                  registers = Setting(1, IF rams = 0 THEN 0 ELSE (bank % places) % rams, Off)
<1> DEFINE places == IF features.rumble THEN 8 ELSE 16
           value == IF rams = 0 THEN 0 ELSE (bank % places) % rams
           first == WriteRegisters(Unset, 6, 1, features, rams)
           on == TRUE
           one == Setting(1, 0, on)
<1>1. CASE features.mapper = "Mbc1"
  <2>1. on = (1 % 2 # 0)
    BY SMT
  <2> HIDE DEF on
  <2>2. first = [Unset EXCEPT !.ramBanking = on]
    BY <1>1, <2>1, WritesAre
  <2>3. first = Setting(1, 0, on)
    BY <2>2, UnsetIs, SettingFields
  <2>4. WriteRegisters(Setting(1, 0, on), 4, bank, features, rams) = Setting(1, bank % 4, on)
    <3>1. [Setting(1, 0, on) EXCEPT !.high = bank % 4] = Setting(1, bank % 4, on)
      BY SettingFields
    <3> DEFINE registers == Setting(1, 0, on)
    <3> HIDE DEF registers
    <3>2. WriteRegisters(registers, 4, bank, features, rams) = [registers EXCEPT !.high = bank % 4]
      BY <1>1, WritesAre
    <3> QED
      BY <3>1, <3>2 DEF registers
  <2>5. WriteRegisters(first, 4, bank, features, rams) = Setting(1, bank % 4, on)
    BY <2>3, <2>4
  <2> QED
    BY <1>1, <2>5 DEF on
<1>2. CASE features.mapper = "Mbc3"
  <2>1. first = Unset
    BY <1>2, WritesAre
  <2>2. WriteRegisters(Unset, 4, bank, features, rams) = [Unset EXCEPT !.high = bank]
    BY <1>2, WritesAre
  <2>3. [Unset EXCEPT !.high = bank] = Setting(1, bank, Off)
    BY UnsetIs, SettingFields
  <2> QED
    BY <1>2, <2>1, <2>2, <2>3
<1>3. CASE features.mapper = "Mbc5"
  <2>1. first = Unset
    BY <1>3, WritesAre
  <2>2. WriteRegisters(Unset, 4, bank, features, rams) = [Unset EXCEPT !.high = value]
    BY <1>3, WritesAre
  <2> HIDE DEF value
  <2>3. [Unset EXCEPT !.high = value] = Setting(1, value, Off)
    BY UnsetIs, SettingFields
  <2>4. WriteRegisters(first, 4, bank, features, rams) = Setting(1, value, Off)
    BY <2>1, <2>2, <2>3
  <2> QED
    BY <1>3, <2>4 DEF value
<1> QED
  BY <1>1, <1>2, <1>3

\* Each bank of the memory has one, and the mapper that wraps the banks shows
\* no other.
LEMMA RamReached ==
  ASSUME NEW features \in Features, NEW rams \in RamBanks, Accepted(features, 2, rams)
  PROVE  /\ 0 .. rams - 1 \subseteq RamShown(features, rams)
         /\ features.mapper = "Mbc5" /\ rams > 0 => RamShown(features, rams) \subseteq 0 .. rams - 1
<1> DEFINE W(registers, at, value) == WriteRegisters(registers, at, value, features, rams)
           Taken(bank) == W(W(Unset, 6, 1), 4, bank)
           places == IF features.rumble THEN 8 ELSE 16
<1>1. rams \in {0, 1, 4, 8, 16} /\ rams \in Nat
  BY DEF RamBanks
<1>2. /\ features.mapper \in {"RomOnly", "Mbc1", "Mbc3", "Mbc5"}
      /\ features.mapper = "RomOnly" => rams <= 1
      /\ features.mapper \in {"Mbc1", "Mbc3"} => rams <= 4
      /\ features.mapper = "Mbc5" => rams <= places
  <2>1. features.mapper \in {"RomOnly", "Mbc1", "Mbc3", "Mbc5"}
    BY DEF Features
  <2> QED
    BY <2>1, SMT DEF Accepted, ValidCapacity
<1>3. places \in {8, 16}
  OBVIOUS
<1>4. RamShown(features, rams) = {RamBank(Taken(bank), features) : bank \in 0 .. 255}
  <2>1. RamSettings(features, rams) = {Taken(bank) : bank \in 0 .. 255}
    BY DEF RamSettings
  <2> HIDE DEF Taken
  <2> QED
    BY <2>1 DEF RamShown
<1>5. ASSUME NEW bank \in 0 .. 255
      PROVE  /\ features.mapper = "RomOnly" => RamBank(Taken(bank), features) = 0
             /\ features.mapper = "Mbc1" => RamBank(Taken(bank), features) = bank % 4
             /\ features.mapper = "Mbc3" => RamBank(Taken(bank), features) = bank
             /\ features.mapper = "Mbc5" /\ rams > 0 =>
                  RamBank(Taken(bank), features) = (bank % places) % rams
  <2>1. CASE features.mapper = "RomOnly"
    BY <2>1, SMT DEF RamBank
  <2>2. CASE features.mapper = "Mbc1"
    <3>1. Taken(bank) = Setting(1, bank % 4, TRUE)
      BY <1>1, <2>2, RamSettingIs
    <3>2. RamBank(Setting(1, bank % 4, TRUE), features) = bank % 4
      BY <2>2, BankingShows
    <3> HIDE DEF Taken
    <3> QED
      BY <2>2, <3>1, <3>2, Zenon
  <2>3. CASE features.mapper = "Mbc3"
    <3>1. Taken(bank) = Setting(1, bank, Off)
      BY <1>1, <2>3, RamSettingIs
    <3>2. RamBank(Setting(1, bank, Off), features) = bank
      BY <2>3, ShownAre
    <3> HIDE DEF Taken
    <3> QED
      BY <2>3, <3>1, <3>2
  <2>4. CASE features.mapper = "Mbc5"
    <3> DEFINE value == IF rams = 0 THEN 0 ELSE (bank % places) % rams
    <3>1. Taken(bank) = Setting(1, value, Off)
      BY <1>1, <2>4, RamSettingIs
    <3>2. rams > 0 => value = (bank % places) % rams
      BY <1>1
    <3> HIDE DEF value
    <3>3. RamBank(Setting(1, value, Off), features) = value
      BY <2>4, ShownAre
    <3> HIDE DEF Taken
    <3> QED
      BY <2>4, <3>1, <3>2, <3>3
  <2> QED
    BY <1>2, <2>1, <2>2, <2>3, <2>4
<1> HIDE DEF Taken, places
<1>6. ASSUME NEW bank \in 0 .. rams - 1
      PROVE  bank \in RamShown(features, rams)
  <2>1. bank \in 0 .. 255 /\ bank < rams /\ bank \in Nat /\ rams > 0
    BY <1>1, SMT
  <2>2. RamBank(Taken(bank), features) = bank
    <3>1. CASE features.mapper = "RomOnly"
      <4>1. bank = 0
        BY <1>1, <1>2, <2>1, <3>1
      <4> QED
        BY <1>5, <2>1, <3>1, <4>1
    <3>2. CASE features.mapper = "Mbc1"
      <4>1. bank % 4 = bank
        BY <1>1, <1>2, <2>1, <3>2, SMT
      <4> QED
        BY <1>5, <2>1, <3>2, <4>1
    <3>3. CASE features.mapper = "Mbc3"
      BY <1>5, <2>1, <3>3
    <3>4. CASE features.mapper = "Mbc5"
      <4>1. bank % places = bank /\ bank % rams = bank
        BY <1>1, <1>2, <1>3, <2>1, <3>4, SMT
      <4> QED
        BY <1>5, <2>1, <3>4, <4>1
    <3> QED
      BY <1>2, <3>1, <3>2, <3>3, <3>4
  <2> QED
    BY <1>4, <2>1, <2>2
<1>7. ASSUME features.mapper = "Mbc5", rams > 0, NEW shown \in RamShown(features, rams)
      PROVE  shown \in 0 .. rams - 1
  <2>1. PICK bank \in 0 .. 255 : shown = RamBank(Taken(bank), features)
    BY <1>4
  <2>2. shown = (bank % places) % rams
    BY <1>5, <1>7, <2>1
  <2>3. bank % places \in Nat
    BY <1>3, <2>1, SMT
  <2> QED
    BY <1>1, <1>7, <2>2, <2>3, SMT
<1> QED
  BY <1>6, <1>7

\* Of every cartridge that the core accepts, whatever its type and whichever
\* of the sizes its header may declare: the checks of the header let no bank
\* through that the mapper cannot show (cartridge/header.rs:141).
THEOREM EveryBankIsReached == CartridgeSpec => []BanksAreReachable
<1>1. CartridgeInv => BanksAreReachable
  <2> SUFFICES ASSUME CartridgeInv
               PROVE  BanksAreReachable
    OBVIOUS
  <2> DEFINE features == cart.header.features
  <2>1. features \in Features
    BY DEF CartridgeInv, CartOK
  <2> HIDE DEF features
  <2>2. \A roms \in RomBanks : ValidCapacity(features, roms, 0) =>
          1 .. roms - 1 \subseteq RomShown(features, roms)
    BY <2>1, RomReached
  <2>3. \A rams \in RamBanks : Accepted(features, 2, rams) =>
          /\ 0 .. rams - 1 \subseteq RamShown(features, rams)
          /\ features.mapper = "Mbc5" /\ rams > 0 =>
               RamShown(features, rams) \subseteq 0 .. rams - 1
    BY <2>1, RamReached
  <2> QED
    BY <2>2, <2>3 DEF BanksAreReachable, features
<1> QED
  BY <1>1, CartridgeInvariant, PTL

-----------------------------------------------------------------------------
(* A line of pixels.                                                        *)

\* The rows of every tile, by either numbering of tiles, lie in the memory of
\* the tiles (ppu/render.rs:53).
THEOREM TileRowsAreInVram == TilesAreInVram
<1>1. ASSUME NEW unsigned \in BOOLEAN, NEW tile \in 0 .. 255, NEW row \in 0 .. 7
      PROVE  {TileRowAddress(unsigned, tile, row), TileRowAddress(unsigned, tile, row) + 1}
               \subseteq TileData
  <2> DEFINE address == TileRowAddress(unsigned, tile, row)
             signed == IF tile > 127 THEN tile - 256 ELSE tile
  <2>1. address = 32768 + tile * 16 + row * 2 \/ address = 36864 + signed * 16 + row * 2
    <3>1. CASE unsigned
      <4>1. address = 32768 + tile * 16 + row * 2
        BY <3>1, SMT DEF TileRowAddress
      <4> QED
        BY <4>1
    <3>2. CASE ~ unsigned
      <4>1. address = 36864 + signed * 16 + row * 2
        BY <3>2, SMT DEF TileRowAddress
      <4> QED
        BY <4>1
    <3> QED
      BY <3>1, <3>2
  <2>2. tile \in Int /\ tile >= 0 /\ tile <= 255 /\ row \in Int /\ row >= 0 /\ row <= 7
    OBVIOUS
  <2>3. signed \in Int /\ signed >= -128 /\ signed <= 127
    BY <2>2
  <2> HIDE DEF address, signed
  <2>4. address \in Int /\ address >= 32768 /\ address <= 38910
    BY <2>1, <2>2, <2>3, SMT
  <2>5. address \in TileData /\ address + 1 \in TileData
    BY <2>4, SMT DEF TileData
  <2> QED
    BY <2>5 DEF address
<1> QED
  BY <1>1 DEF TilesAreInVram

\* Where the tile under a sprite begins, from its mark: of a tile of the
\* window on the screen, of one of the background up to a turn of the map.
LEMMA LeftEdge ==
  ASSUME NEW r, r.scx \in 0 .. 255, r.wx \in 0 .. 255, NEW line,
         NEW sprite, sprite.x \in 0 .. 167
  PROVE  LET covered == CoveredTile(r, sprite, line)
         IN  /\ covered.tile \in 0 .. 63 /\ covered.column \in 0 .. 7
             /\ covered.tile >= 32 => sprite.x - covered.column = 8 * (covered.tile - 32) + r.wx + 1
             /\ covered.tile < 32 =>
                  \E turn \in {0, 1} :
                    sprite.x - covered.column = 8 * covered.tile - r.scx + 256 * turn
<1> DEFINE x == sprite.x
           wx == r.wx
           scx == r.scx
           windowX == (x - 8) - (wx - 7)
           mapX == (x + scx) % 256
           covered == CoveredTile(r, sprite, line)
           inWindow == x >= 8 /\ WindowVisible(r, line) /\ windowX >= 0
<1>1. covered = IF inWindow THEN [tile |-> 32 + windowX \div 8, column |-> windowX % 8]
                ELSE [tile |-> mapX \div 8, column |-> mapX % 8]
  BY DEF CoveredTile, WindowOrigin
<1>2. x \in 0 .. 167 /\ wx \in 0 .. 255 /\ scx \in 0 .. 255
  OBVIOUS
<1>3. inWindow => windowX >= 0
  OBVIOUS
<1> HIDE DEF inWindow, covered, x, wx, scx
<1>4. CASE inWindow
  <2>1. covered.tile = 32 + windowX \div 8 /\ covered.column = windowX % 8
    BY <1>1, <1>4
  <2>2. windowX \in 0 .. 166 /\ windowX = x - wx - 1
    BY <1>2, <1>3, <1>4, SMT
  <2> HIDE DEF windowX
  <2>3. windowX = 8 * (windowX \div 8) + (windowX % 8)
    BY <2>2, SMT
  <2>4. windowX \div 8 \in 0 .. 20 /\ windowX % 8 \in 0 .. 7
    BY <2>2, SMT
  <2>5. /\ covered.tile \in 32 .. 52 /\ covered.column \in 0 .. 7
        /\ x - covered.column = 8 * (covered.tile - 32) + wx + 1
    BY <1>2, <2>1, <2>2, <2>3, <2>4, SMT
  <2> QED
    BY <2>5, SMT DEF covered, x, wx
<1>5. CASE ~ inWindow
  <2>1. covered.tile = mapX \div 8 /\ covered.column = mapX % 8
    BY <1>1, <1>5
  <2>2. mapX \in 0 .. 255 /\ \E turn \in {0, 1} : mapX = x + scx - 256 * turn
    <3>1. CASE x + scx < 256
      <4>1. mapX = x + scx - 256 * 0
        BY <1>2, <3>1, SMT
      <4> QED
        BY <1>2, <3>1, <4>1, SMT
    <3>2. CASE x + scx >= 256
      <4>1. mapX = x + scx - 256 * 1
        BY <1>2, <3>2, SMT
      <4> QED
        BY <1>2, <3>2, <4>1, SMT
    <3> QED
      BY <1>2, <3>1, <3>2, SMT
  <2>3. PICK turn \in {0, 1} : mapX = x + scx - 256 * turn
    BY <2>2
  <2> HIDE DEF mapX
  <2>4. mapX = 8 * (mapX \div 8) + (mapX % 8) /\ mapX \div 8 \in 0 .. 31 /\ mapX % 8 \in 0 .. 7
    BY <2>2, SMT
  <2>5. /\ covered.tile \in 0 .. 31 /\ covered.column \in 0 .. 7
        /\ x - covered.column = 8 * covered.tile - scx + 256 * turn
    BY <1>2, <2>1, <2>2, <2>3, <2>4, SMT
  <2> QED
    BY <2>5, SMT DEF covered, x, scx
<1> QED
  BY <1>4, <1>5

\* Whatever the registers and the sprites are, the marks by which sprites on
\* one tile are charged once tell the tiles apart (ppu/sprite.rs:83 and 102).
THEOREM MarksTellTilesApart ==
  ASSUME NEW r, r.scx \in 0 .. 255, r.wx \in 0 .. 255, NEW line,
         NEW sprites, \A sprite \in sprites : sprite.x \in 0 .. 255
  PROVE  TilesAreCharged(r, sprites, line)
<1> SUFFICES ASSUME NEW s \in sprites, NEW t \in sprites, s.x < 168, t.x < 168
             PROVE  LET first == CoveredTile(r, s, line)
                        second == CoveredTile(r, t, line)
                    IN  /\ first.tile \in 0 .. 63
                        /\ first.tile = second.tile =>
                             s.x - first.column \in
                               {t.x - second.column + 256 * k : k \in -1 .. 1}
  BY DEF TilesAreCharged
<1> DEFINE first == CoveredTile(r, s, line)
           second == CoveredTile(r, t, line)
           left == s.x - first.column
           right == t.x - second.column
<1>1. s.x \in 0 .. 167 /\ t.x \in 0 .. 167
  OBVIOUS
<1>2. /\ first.tile \in 0 .. 63 /\ first.column \in 0 .. 7
      /\ first.tile >= 32 => left = 8 * (first.tile - 32) + r.wx + 1
      /\ first.tile < 32 => \E turn \in {0, 1} : left = 8 * first.tile - r.scx + 256 * turn
  BY <1>1, LeftEdge
<1>3. /\ second.tile \in 0 .. 63 /\ second.column \in 0 .. 7
      /\ second.tile >= 32 => right = 8 * (second.tile - 32) + r.wx + 1
      /\ second.tile < 32 => \E turn \in {0, 1} : right = 8 * second.tile - r.scx + 256 * turn
  BY <1>1, LeftEdge
<1>4. left \in Int /\ right \in Int
  BY <1>1, <1>2, <1>3
<1> HIDE DEF first, second, left, right
<1>5. ASSUME first.tile = second.tile
      PROVE  \E k \in -1 .. 1 : left = right + 256 * k
  <2>1. CASE first.tile >= 32
    <3>1. left = right + 256 * 0
      BY <1>2, <1>3, <1>4, <1>5, <2>1
    <3> QED
      BY <3>1
  <2>2. CASE first.tile < 32
    <3> DEFINE begin == 8 * first.tile - r.scx
    <3>1. PICK turn \in {0, 1} : left = begin + 256 * turn
      BY <1>2, <2>2
    <3>2. PICK other \in {0, 1} : right = begin + 256 * other
      BY <1>3, <1>5, <2>2
    <3>3. begin \in Int
      <4>1. first.tile \in Int /\ r.scx \in Int
        BY <1>2
      <4> QED
        BY <4>1
    <3> HIDE DEF begin
    <3>4. left = right + 256 * (turn - other) /\ turn - other \in -1 .. 1
      BY <3>1, <3>2, <3>3, SMT
    <3> QED
      BY <3>4
  <2> QED
    BY <1>2, <2>1, <2>2
<1> QED
  BY <1>2, <1>5 DEF first, second, left, right

\* What is drawn of a mirrored sprite is the mirror image, both tiles of a
\* tall one included (ppu/sprite.rs:51 and 54).
THEOREM MirroredSpritesAgree ==
  ASSUME NEW r, NEW sprite \in [x : 0 .. 255, y : 0 .. 255, tile : 0 .. 255, flipX : BOOLEAN,
                                flipY : BOOLEAN, behind : BOOLEAN]
  PROVE  MirrorsAgree(r, sprite)
<1> SUFFICES ASSUME NEW column \in 0 .. 7, NEW row \in 0 .. Height(r) - 1
             PROVE  SpriteColor(r, [sprite EXCEPT !.flipX = TRUE, !.flipY = TRUE],
                                sprite.x - 8 + column, Top(sprite) + row)
                      = SpriteColor(r, [sprite EXCEPT !.flipX = FALSE, !.flipY = FALSE],
                                    sprite.x - 8 + 7 - column, Top(sprite) + Height(r) - 1 - row)
  BY DEF MirrorsAgree
<1> DEFINE height == Height(r)
           x == sprite.x
           y == sprite.y
           number == sprite.tile
           mirrored == [sprite EXCEPT !.flipX = TRUE, !.flipY = TRUE]
           plain == [sprite EXCEPT !.flipX = FALSE, !.flipY = FALSE]
           Painted(shownColumn, shownRow) ==
             Color(TileRowAddress(TRUE, IF r.tall THEN 2 * (number \div 2) + shownRow \div 8
                                        ELSE number, shownRow % 8), shownColumn)
<1>1. height \in {8, 16} /\ x \in Int /\ y \in Int
  BY DEF Height
<1>2. /\ mirrored.x = x /\ mirrored.y = y /\ mirrored.tile = number
      /\ mirrored.flipX /\ mirrored.flipY
      /\ plain.x = x /\ plain.y = y /\ plain.tile = number
      /\ ~ plain.flipX /\ ~ plain.flipY
  OBVIOUS
<1> HIDE DEF mirrored, plain
<1>3. row \in 0 .. height - 1 /\ height - 1 - row \in 0 .. height - 1 /\ 7 - column \in 0 .. 7
  BY <1>1
<1>4. SpriteColor(r, mirrored, x - 8 + column, Top(sprite) + row)
        = Painted(7 - column, height - 1 - row)
  <2>1. /\ (x - 8 + column) - (mirrored.x - 8) = column
        /\ (Top(sprite) + row) - Top(mirrored) = row
    BY <1>1, <1>2, <1>3 DEF Top
  <2> HIDE DEF x, y, number, height
  <2> QED
    BY <1>2, <1>3, <2>1, Zenon DEF SpriteColor, height
<1>5. SpriteColor(r, plain, x - 8 + 7 - column, Top(sprite) + height - 1 - row)
        = Painted(7 - column, height - 1 - row)
  <2>1. /\ (x - 8 + 7 - column) - (plain.x - 8) = 7 - column
        /\ (Top(sprite) + height - 1 - row) - Top(plain) = height - 1 - row
    BY <1>1, <1>2, <1>3 DEF Top
  <2> HIDE DEF x, y, number
  <2> QED
    BY <1>2, <1>3, <2>1, Zenon DEF SpriteColor, height
<1> HIDE DEF Painted
<1>6. SpriteColor(r, mirrored, x - 8 + column, Top(sprite) + row)
        = SpriteColor(r, plain, x - 8 + 7 - column, Top(sprite) + height - 1 - row)
  BY <1>4, <1>5, Zenon
<1> QED
  BY <1>6, Zenon DEF mirrored, plain

LEMMA LessIsWellFounded == IsWellFoundedOn({p \in Nat \X Nat : p[1] < p[2]}, Nat)
  BY NatLessThanWellFounded DEF OpToRel

\* The last of a set of positions.
LEMMA LastOf ==
  ASSUME NEW n \in Nat, NEW S \in SUBSET (1 .. n), S # {}
  PROVE  \E last \in S : \A i \in S : i <= last
<1> DEFINE T == {n - i : i \in S}
           R == {p \in Nat \X Nat : p[1] < p[2]}
<1>1. T \subseteq Nat /\ T # {}
  <2>1. \A i \in S : n - i \in Nat
    BY SMT
  <2> QED
    BY <2>1
<1>2. \E x \in T : \A y \in T : ~ (<<y, x>> \in R)
  <2>1. IsWellFoundedOn(R, Nat)
    BY LessIsWellFounded
  <2> HIDE DEF T, R
  <2> QED
    BY <1>1, <2>1, WFMin
<1>3. PICK x \in T : \A y \in T : ~ (y < x)
  BY <1>1, <1>2
<1>4. PICK last \in S : x = n - last
  BY <1>3
<1>5. \A i \in S : n - i \in T
  OBVIOUS
<1> HIDE DEF T
<1>6. ASSUME NEW i \in S
      PROVE  i <= last
  <2>1. ~ (n - i < n - last)
    BY <1>3, <1>4, <1>5
  <2> QED
    BY <2>1, SMT
<1> QED
  BY <1>6

LEMMA FirstOf ==
  ASSUME NEW n \in Nat, NEW S \in SUBSET (1 .. n), S # {}
  PROVE  \E first \in S : \A i \in S : first <= i
<1> DEFINE R == {p \in Nat \X Nat : p[1] < p[2]}
<1>1. S \subseteq Nat
  OBVIOUS
<1>2. \E x \in S : \A y \in S : ~ (<<y, x>> \in R)
  <2>1. IsWellFoundedOn(R, Nat)
    BY LessIsWellFounded
  <2> HIDE DEF R
  <2> QED
    BY <1>1, <2>1, WFMin
<1>3. PICK x \in S : \A y \in S : ~ (y < x)
  BY <1>1, <1>2
<1>4. \A y \in S : x <= y
  BY <1>1, <1>3
<1> QED
  BY <1>4

\* Induction over the numbers, by a set of those for which it holds.
LEMMA SetInduction ==
  ASSUME NEW S, 0 \in S, \A n \in Nat : n \in S => n + 1 \in S
  PROVE  Nat \subseteq S
<1> SUFFICES ASSUME Nat \ S # {} PROVE FALSE
  OBVIOUS
<1> DEFINE T == Nat \ S
           R == {p \in Nat \X Nat : p[1] < p[2]}
<1>1. \E x \in T : \A y \in T : ~ (<<y, x>> \in R)
  <2>1. T \subseteq Nat /\ T # {}
    OBVIOUS
  <2>2. IsWellFoundedOn(R, Nat)
    BY LessIsWellFounded
  <2> HIDE DEF T, R
  <2> QED
    BY <2>1, <2>2, WFMin
<1>2. PICK x \in T : \A y \in T : ~ (y < x)
  BY <1>1
<1>3. x - 1 \in Nat /\ x - 1 \notin T
  BY <1>2
<1> QED
  BY <1>2, <1>3

LEMMA PositionsAreFinite ==
  ASSUME NEW n \in Nat, NEW S \in SUBSET (1 .. n)
  PROVE  IsFiniteSet(S) /\ Cardinality(S) \in Nat
<1>1. IsFiniteSet(1 .. n)
  BY FS_Interval
<1> QED
  BY <1>1, FS_Subset, FS_CardinalityType

\* However many sprites the memory has, and wherever they are, a line draws
\* ten at most (ppu/sprite.rs:14).
THEOREM TenSpritesAtMost ==
  ASSUME NEW r, NEW n \in Nat, NEW oam, DOMAIN oam = 1 .. n, NEW line
  PROVE  Cardinality(SelectedSprites(r, oam, line)) <= 10
<1> DEFINE crossed == {i \in DOMAIN oam : line - Top(oam[i]) \in 0 .. Height(r) - 1}
           selected == SelectedSprites(r, oam, line)
           Earlier(i) == {j \in crossed : j < i}
<1>1. selected = {i \in crossed : Cardinality(Earlier(i)) < 10}
  BY DEF SelectedSprites
<1>2. crossed \subseteq 1 .. n
  OBVIOUS
<1> HIDE DEF crossed, selected
<1>3. IsFiniteSet(crossed)
  BY <1>2, PositionsAreFinite
<1>4. selected \subseteq crossed
  BY <1>1
<1>5. CASE selected = {}
  BY <1>5, FS_EmptySet DEF selected
<1>6. CASE selected # {}
  <2>1. PICK last \in selected : \A i \in selected : i <= last
    BY <1>2, <1>4, <1>6, LastOf
  <2>2. last \in 1 .. n /\ Cardinality(Earlier(last)) < 10
    BY <1>1, <1>2, <1>4, <2>1
  <2>3. IsFiniteSet(Earlier(last)) /\ last \notin Earlier(last)
    BY <1>3, <2>2, FS_Subset
  <2>4. selected \subseteq Earlier(last) \cup {last}
    BY <1>2, <1>4, <2>1
  <2> HIDE DEF Earlier
  <2>5. /\ IsFiniteSet(Earlier(last) \cup {last})
        /\ Cardinality(Earlier(last) \cup {last}) = Cardinality(Earlier(last)) + 1
    BY <2>3, FS_AddElement
  <2>6. Cardinality(selected) <= Cardinality(Earlier(last) \cup {last})
    BY <2>4, <2>5, FS_Subset
  <2>7. Cardinality(Earlier(last)) \in Nat /\ Cardinality(selected) \in Nat
    BY <2>3, <2>4, <2>5, FS_Subset, FS_CardinalityType
  <2> QED
    BY <2>2, <2>5, <2>6, <2>7 DEF selected
<1> QED
  BY <1>5, <1>6

-----------------------------------------------------------------------------
(* The order of the sprites.                                                *)

Rank(oam, S, i) == Cardinality({j \in S : Before(oam, j, i)})

LEMMA RanksDiffer ==
  ASSUME NEW n \in Nat, NEW oam, \A i \in 1 .. n : oam[i].x \in 0 .. 255,
         NEW S \in SUBSET (1 .. n), NEW i \in S, NEW j \in S
  PROVE  /\ Rank(oam, S, i) \in Nat
         /\ Before(oam, i, j) => Rank(oam, S, i) < Rank(oam, S, j)
         /\ i # j => Before(oam, i, j) \/ Before(oam, j, i)
<1> DEFINE First(k) == {l \in S : Before(oam, l, k)}
<1>1. \A l \in S : l \in Int /\ oam[l].x \in Int
  <2>1. \A l \in S : l \in 1 .. n
    OBVIOUS
  <2>2. \A l \in S : oam[l].x \in 0 .. 255
    BY <2>1
  <2> QED
    BY <2>1, <2>2
<1>9. i \in Int /\ j \in Int /\ oam[i].x \in Int /\ oam[j].x \in Int
  BY <1>1
<1>2. First(i) \subseteq S /\ First(j) \subseteq S
  OBVIOUS
<1>3. /\ IsFiniteSet(First(i)) /\ IsFiniteSet(First(j))
      /\ Cardinality(First(i)) \in Nat /\ Cardinality(First(j)) \in Nat
  <2> HIDE DEF First
  <2> QED
    BY <1>2, PositionsAreFinite
<1>4. ASSUME Before(oam, i, j)
      PROVE  Cardinality(First(i)) < Cardinality(First(j))
  <2>2. \A l \in S : Before(oam, l, i) => Before(oam, l, j)
    BY <1>1, <1>4 DEF Before
  <2>3. First(i) \subseteq First(j) /\ i \in First(j) /\ i \notin First(i)
    <3>1. ~ Before(oam, i, i)
      BY <1>9 DEF Before
    <3> QED
      BY <1>4, <2>2, <3>1, Zenon
  <2> HIDE DEF First
  <2>4. Cardinality(First(i)) <= Cardinality(First(j))
    BY <1>3, <2>3, FS_Subset
  <2>5. Cardinality(First(i)) # Cardinality(First(j))
    BY <1>3, <2>3, FS_Subset
  <2> QED
    BY <1>3, <2>4, <2>5
<1>5. i # j => Before(oam, i, j) \/ Before(oam, j, i)
  <2>1. \A a, b \in Int : a = b \/ a < b \/ b < a
    OBVIOUS
  <2>2. i = j \/ i < j \/ j < i
    BY <1>9, <2>1, Zenon
  <2>3. oam[i].x = oam[j].x \/ oam[i].x < oam[j].x \/ oam[j].x < oam[i].x
    BY <1>9, <2>1, Zenon
  <2> QED
    BY <2>2, <2>3, Zenon DEF Before
<1> QED
  BY <1>3, <1>4, <1>5 DEF Rank

\* Every place in the order is taken, or the sprites would not fit in the
\* others.
LEMMA RankIsTaken ==
  ASSUME NEW n \in Nat, NEW oam, \A i \in 1 .. n : oam[i].x \in 0 .. 255,
         NEW S \in SUBSET (1 .. n)
  PROVE  /\ IsFiniteSet(S) /\ Cardinality(S) \in Nat
         /\ \A i \in S : Rank(oam, S, i) \in 0 .. Cardinality(S) - 1
         /\ \A k \in 1 .. Cardinality(S) : \E i \in S : Rank(oam, S, i) = k - 1
<1> DEFINE size == Cardinality(S)
           f == [i \in S |-> Rank(oam, S, i)]
<1>1. IsFiniteSet(S) /\ size \in Nat
  BY PositionsAreFinite
<1>2. ASSUME NEW i \in S
      PROVE  Rank(oam, S, i) \in 0 .. size - 1
  <2> DEFINE Others == {j \in S : Before(oam, j, i)}
  <2>1. Others \subseteq S /\ i \notin Others
    <3>1. oam[i].x \in Int /\ i \in Int
      OBVIOUS
    <3> QED
      BY <3>1 DEF Before
  <2> HIDE DEF Others
  <2>2. Cardinality(Others) <= size /\ Cardinality(Others) # size
    BY <1>1, <2>1, FS_Subset
  <2>3. Cardinality(Others) \in Nat
    BY <1>1, <2>1, FS_Subset, FS_CardinalityType
  <2>4. Rank(oam, S, i) = Cardinality(Others)
    BY DEF Rank, Others
  <2> HIDE DEF size
  <2> QED
    BY <1>1, <2>2, <2>3, <2>4
<1>3. \A i, j \in S : i # j => f[i] # f[j]
  <2> SUFFICES ASSUME NEW i \in S, NEW j \in S, i # j
               PROVE  Rank(oam, S, i) # Rank(oam, S, j)
    OBVIOUS
  <2>1. Rank(oam, S, i) \in Nat /\ Rank(oam, S, j) \in Nat
    BY RanksDiffer
  <2>2. Before(oam, i, j) \/ Before(oam, j, i)
    BY RanksDiffer
  <2>3. /\ Before(oam, i, j) => Rank(oam, S, i) < Rank(oam, S, j)
        /\ Before(oam, j, i) => Rank(oam, S, j) < Rank(oam, S, i)
    BY RanksDiffer
  <2> QED
    BY <2>1, <2>2, <2>3
<1>4. ASSUME NEW k \in 1 .. size, \A i \in S : Rank(oam, S, i) # k - 1
      PROVE  FALSE
  <2> DEFINE places == (0 .. size - 1) \ {k - 1}
  <2>1. /\ IsFiniteSet(0 .. size - 1) /\ Cardinality(0 .. size - 1) = size
    <3>1. 0 \in Int /\ size - 1 \in Int /\ ~ (0 > size - 1) /\ (size - 1) - 0 + 1 = size
      BY <1>1
    <3> HIDE DEF size
    <3> QED
      BY <3>1, FS_Interval
  <2>2. IsFiniteSet(places) /\ Cardinality(places) = size - 1
    <3> DEFINE all == 0 .. size - 1
    <3>1. k - 1 \in all /\ IsFiniteSet(all) /\ Cardinality(all) = size
      BY <1>1, <2>1
    <3> HIDE DEF size, all
    <3>2. IsFiniteSet(all \ {k - 1}) /\ Cardinality(all \ {k - 1}) = size - 1
      BY <3>1, FS_RemoveElement
    <3> QED
      BY <3>2 DEF all
  <2>3. f \in [S -> places]
    BY <1>2, <1>4
  <2> HIDE DEF f, places
  <2>4. Cardinality(places) < Cardinality(S)
    BY <1>1, <2>2
  <2>5. \E i, j \in S : i # j /\ f[i] = f[j]
    BY <1>1, <2>2, <2>3, <2>4, FS_PigeonHole
  <2> QED
    BY <1>3, <2>5
<1> QED
  BY <1>1, <1>2, <1>4

\* The order has every selected sprite once, at the place of its rank.
IsOrder(order, oam, S) ==
  /\ DOMAIN order = 1 .. Cardinality(S)
  /\ \A k \in 1 .. Cardinality(S) : order[k] \in S /\ Rank(oam, S, order[k]) = k - 1
  /\ \A i \in S : /\ Rank(oam, S, i) + 1 \in 1 .. Cardinality(S)
                  /\ order[Rank(oam, S, i) + 1] = i

LEMMA OrderIs ==
  ASSUME NEW n \in Nat, NEW oam, \A i \in 1 .. n : oam[i].x \in 0 .. 255,
         NEW S \in SUBSET (1 .. n)
  PROVE  IsOrder(Ordered(oam, S), oam, S)
<1> DEFINE order == Ordered(oam, S)
           size == Cardinality(S)
<1>1. order = [k \in 1 .. size |-> CHOOSE i \in S : Rank(oam, S, i) = k - 1]
  BY DEF Ordered, Rank
<1>2. size \in Nat
  BY RankIsTaken
<1> HIDE DEF order
<1>3. ASSUME NEW k \in 1 .. size
      PROVE  order[k] \in S /\ Rank(oam, S, order[k]) = k - 1
  <2>1. \E i \in S : Rank(oam, S, i) = k - 1
    BY RankIsTaken
  <2>2. order[k] = CHOOSE i \in S : Rank(oam, S, i) = k - 1
    BY <1>1
  <2> QED
    BY <2>1, <2>2, Zenon
<1>4. ASSUME NEW i \in S
      PROVE  Rank(oam, S, i) + 1 \in 1 .. size /\ order[Rank(oam, S, i) + 1] = i
  <2> DEFINE rank == Rank(oam, S, i)
             k == rank + 1
  <2>1. rank \in 0 .. size - 1
    BY RankIsTaken
  <2> HIDE DEF rank, size
  <2>2. k \in 1 .. size /\ k - 1 = rank
    BY <1>2, <2>1
  <2>3. order[k] \in S /\ Rank(oam, S, order[k]) = rank
    BY <1>3, <2>2
  <2>4. order[k] = i
    <3> SUFFICES ASSUME order[k] # i PROVE FALSE
      OBVIOUS
    <3>1. Before(oam, i, order[k]) \/ Before(oam, order[k], i)
      BY <2>3, RanksDiffer
    <3>2. Rank(oam, S, i) \in Nat /\ Rank(oam, S, order[k]) \in Nat
      BY <2>3, RanksDiffer
    <3>3. Rank(oam, S, i) # Rank(oam, S, order[k])
      <4>1. Before(oam, i, order[k]) => Rank(oam, S, i) < Rank(oam, S, order[k])
        BY <2>3, RanksDiffer
      <4>2. Before(oam, order[k], i) => Rank(oam, S, order[k]) < Rank(oam, S, i)
        BY <2>3, RanksDiffer
      <4> QED
        BY <3>1, <3>2, <4>1, <4>2
    <3> QED
      BY <2>3, <3>3 DEF rank
  <2> QED
    BY <2>2, <2>4 DEF rank
<1> QED
  BY <1>1, <1>3, <1>4 DEF order, IsOrder

\* Of the sprites that are not transparent at a place, the one that shows has
\* none to its left, and hides only behind what is drawn
\* (ppu/render.rs:139).
THEOREM FirstOpaqueSpriteShows ==
  ASSUME NEW r, NEW n \in Nat, NEW oam, DOMAIN oam = 1 .. n,
         \A i \in 1 .. n : oam[i].x \in 0 .. 255,
         NEW line, NEW x, NEW base
  PROVE  FirstOpaqueShows(r, oam, line, x, base)
<1> DEFINE selected == SelectedSprites(r, oam, line)
           order == Ordered(oam, selected)
           size == Cardinality(selected)
           Opaque(i) == SpriteColor(r, oam[i], x, line) # 0
           opaque == {k \in DOMAIN order : Opaque(order[k])}
           place == CHOOSE k \in opaque : \A l \in opaque : k <= l
           shown == ShownSprite(r, oam, line, x, base)
<1>1. selected \subseteq 1 .. n
  BY DEF SelectedSprites
<1>2. shown = IF ~ r.objects \/ opaque = {} \/ (oam[order[place]].behind /\ base # 0)
              THEN 0 ELSE order[place]
  BY DEF ShownSprite
<1> HIDE DEF selected, order, shown, Opaque
<1>3. /\ size \in Nat /\ DOMAIN order = 1 .. size
      /\ \A k \in 1 .. size : order[k] \in selected /\ Rank(oam, selected, order[k]) = k - 1
      /\ \A i \in selected : /\ Rank(oam, selected, i) + 1 \in 1 .. size
                             /\ order[Rank(oam, selected, i) + 1] = i
  <2>1. size \in Nat
    BY <1>1, PositionsAreFinite
  <2>2. IsOrder(order, oam, selected)
    BY <1>1, OrderIs DEF order
  <2> QED
    BY <2>1, <2>2 DEF IsOrder
<1>4. SUFFICES ASSUME shown # 0
      PROVE  /\ shown \in selected
             /\ oam[shown].behind => base = 0
             /\ \A i \in selected : Opaque(i) => oam[shown].x <= oam[i].x
  BY DEF FirstOpaqueShows, shown, selected, Opaque
<1>5. opaque # {} /\ shown = order[place] /\ (oam[shown].behind => base = 0)
  BY <1>2, <1>4
<1>6. opaque \subseteq 1 .. size
  BY <1>3
<1> HIDE DEF opaque
<1>7. \E k \in opaque : \A l \in opaque : k <= l
  BY <1>3, <1>5, <1>6, FirstOf
<1>8. place \in opaque /\ \A l \in opaque : place <= l
  BY <1>7, Zenon
<1> HIDE DEF place, size
<1>10. shown \in selected /\ Rank(oam, selected, shown) = place - 1 /\ place \in Int
  BY <1>3, <1>5, <1>6, <1>8
<1>11. ASSUME NEW i \in selected, Opaque(i)
       PROVE  oam[shown].x <= oam[i].x
  <2> DEFINE rank == Rank(oam, selected, i)
  <2>1. rank + 1 \in opaque /\ rank + 1 \in 1 .. size
    BY <1>3, <1>11 DEF opaque
  <2>2. place <= rank + 1
    BY <1>8, <2>1
  <2>3. rank \in Nat /\ (Before(oam, i, shown) => rank < Rank(oam, selected, shown))
    BY <1>1, <1>10, RanksDiffer
  <2> HIDE DEF rank
  <2>4. ~ Before(oam, i, shown)
    BY <1>10, <2>2, <2>3
  <2>5. oam[i].x \in Int /\ oam[shown].x \in Int
    <3>1. i \in 1 .. n /\ shown \in 1 .. n
      BY <1>1, <1>10
    <3>2. oam[i].x \in 0 .. 255 /\ oam[shown].x \in 0 .. 255
      BY <3>1, Zenon
    <3>3. \A v \in 0 .. 255 : v \in Int
      OBVIOUS
    <3> QED
      BY <3>2, <3>3, Zenon
  <2>6. \A a, b \in Int : a <= b \/ b < a
    OBVIOUS
  <2> QED
    BY <2>4, <2>5, <2>6, Zenon DEF Before
<1> QED
  BY <1>5, <1>10, <1>11

-----------------------------------------------------------------------------
(* What the sprites cost.                                                   *)

Free == [dots |-> 0, tiles |-> {}]

Charges(f, r, oam, line, order, m) ==
  f = [k \in 0 .. m |-> IF k = 0 THEN Free ELSE Charge(r, oam, line, f[k - 1], order[k])]

LEMMA ChargesGoOn ==
  ASSUME NEW r, NEW oam, NEW line, NEW order, NEW m \in Nat
  PROVE  \E f : Charges(f, r, oam, line, order, m)
<1> DEFINE Next(v, k) == Charge(r, oam, line, v, order[k])
           S == {n \in Nat : \E f : Charges(f, r, oam, line, order, n)}
<1>1. \A f, n : Charges(f, r, oam, line, order, n)
                  <=> f = [k \in 0 .. n |-> IF k = 0 THEN Free ELSE Next(f[k - 1], k)]
  BY DEF Charges
<1> HIDE DEF Next
<1>2. 0 \in S
  <2> DEFINE f == [k \in 0 .. 0 |-> Free]
  <2>1. f = [k \in 0 .. 0 |-> IF k = 0 THEN Free ELSE Next(f[k - 1], k)]
    <3>1. \A k \in 0 .. 0 : k = 0
      OBVIOUS
    <3> QED
      BY <3>1
  <2> HIDE DEF f
  <2>2. Charges(f, r, oam, line, order, 0)
    BY <1>1, <2>1
  <2> QED
    BY <2>2
<1>3. ASSUME NEW n \in Nat, n \in S
      PROVE  n + 1 \in S
  <2>1. PICK f : Charges(f, r, oam, line, order, n)
    BY <1>3
  <2>2. f = [k \in 0 .. n |-> IF k = 0 THEN Free ELSE Next(f[k - 1], k)]
    BY <1>1, <2>1
  <2> DEFINE g == [k \in 0 .. n + 1 |-> IF k = n + 1 THEN Next(f[n], n + 1) ELSE f[k]]
             h == [k \in 0 .. n + 1 |-> IF k = 0 THEN Free ELSE Next(g[k - 1], k)]
  <2>3. ASSUME NEW k \in 0 .. n + 1
        PROVE  g[k] = h[k]
    <3>1. CASE k = 0
      <4>1. g[k] = f[0] /\ f[0] = Free
        BY <2>2, <3>1
      <4> QED
        BY <3>1, <4>1
    <3>2. CASE k = n + 1
      <4>1. g[k] = Next(f[n], n + 1) /\ g[k - 1] = f[n] /\ k # 0
        BY <3>2
      <4>2. h[k] = Next(g[k - 1], k)
        BY <4>1
      <4> QED
        BY <3>2, <4>1, <4>2
    <3>3. CASE k # 0 /\ k # n + 1
      <4>1. k \in 0 .. n /\ k - 1 \in 0 .. n + 1 /\ k - 1 # n + 1
        BY <3>3
      <4>2. g[k] = f[k] /\ g[k - 1] = f[k - 1]
        BY <3>3, <4>1
      <4>3. f[k] = Next(f[k - 1], k)
        BY <2>2, <3>3, <4>1
      <4>4. h[k] = Next(g[k - 1], k)
        BY <3>3
      <4> QED
        BY <4>2, <4>3, <4>4
    <3> QED
      BY <3>1, <3>2, <3>3
  <2>4. g = h
    BY <2>3
  <2> HIDE DEF g
  <2>5. Charges(g, r, oam, line, order, n + 1)
    BY <1>1, <2>4
  <2> QED
    BY <2>5
<1> HIDE DEF S
<1>4. m \in S
  BY <1>2, <1>3, SetInduction
<1> QED
  BY <1>4 DEF S

\* One more sprite costs six dots, and one more tile five at most.
LEMMA ChargeIsBounded ==
  ASSUME NEW r, r.scx \in 0 .. 255, r.wx \in 0 .. 255, NEW line, NEW oam, NEW i,
         oam[i].x \in 0 .. 255, NEW charged, charged.dots \in Nat, IsFiniteSet(charged.tiles)
  PROVE  LET next == Charge(r, oam, line, charged, i)
         IN  /\ next.dots \in Nat /\ IsFiniteSet(next.tiles)
             /\ next.tiles \subseteq charged.tiles \cup {CoveredTile(r, oam[i], line).tile}
             /\ next.dots + 5 * Cardinality(charged.tiles)
                  <= charged.dots + 6 + 5 * Cardinality(next.tiles)
<1> DEFINE next == Charge(r, oam, line, charged, i)
           covered == CoveredTile(r, oam[i], line)
           rest == IF covered.column > 5 \/ covered.tile \in charged.tiles THEN 0
                   ELSE 5 - covered.column
           dots == charged.dots
           tiles == charged.tiles
           more == tiles \cup {covered.tile}
<1>1. next = IF oam[i].x >= 168 THEN charged ELSE [dots |-> dots + rest + 6, tiles |-> more]
  BY DEF Charge
<1>2. dots \in Nat /\ IsFiniteSet(tiles) /\ Cardinality(tiles) \in Nat
  BY FS_CardinalityType
<1>3. CASE oam[i].x >= 168
  <2>1. next = charged
    BY <1>1, <1>3
  <2>2. dots + 5 * Cardinality(tiles) <= dots + 6 + 5 * Cardinality(tiles)
    BY <1>2
  <2> QED
    BY <1>2, <2>1, <2>2
<1>4. CASE ~ (oam[i].x >= 168)
  <2>1. oam[i].x \in 0 .. 167
    BY <1>4
  <2>2. covered.column \in 0 .. 7
    BY <2>1, LeftEdge
  <2>3. /\ IsFiniteSet(more)
        /\ Cardinality(more) = IF covered.tile \in tiles THEN Cardinality(tiles)
                               ELSE Cardinality(tiles) + 1
    BY <1>2, FS_AddElement
  <2>4. rest \in 0 .. 5 /\ (covered.tile \in tiles => rest = 0)
    BY <2>2
  <2>5. next.dots = dots + rest + 6 /\ next.tiles = more
    BY <1>1, <1>4
  <2> HIDE DEF next, rest, more, covered, dots, tiles
  <2>6. next.dots \in Nat
    BY <1>2, <2>4, <2>5
  <2>7. next.dots + 5 * Cardinality(tiles) <= dots + 6 + 5 * Cardinality(more)
    <3>1. CASE covered.tile \in tiles
      BY <1>2, <2>3, <2>4, <2>5, <3>1
    <3>2. CASE covered.tile \notin tiles
      BY <1>2, <2>3, <2>4, <2>5, <3>2
    <3> QED
      BY <3>1, <3>2
  <2> QED
    BY <2>3, <2>5, <2>6, <2>7 DEF next, more, covered, dots, tiles
<1> QED
  BY <1>3, <1>4

\* The penalty is what the last of these charges has come to.
LEMMA PenaltyIs ==
  ASSUME NEW r, NEW oam, NEW line,
         Cardinality(SelectedSprites(r, oam, line)) \in Nat
  PROVE  LET selected == SelectedSprites(r, oam, line)
             size == Cardinality(selected)
         IN  \E f : /\ Charges(f, r, oam, line, Ordered(oam, selected), size)
                    /\ SpritePenalty(r, oam, line) = IF r.objects THEN f[size].dots ELSE 0
<1> DEFINE selected == SelectedSprites(r, oam, line)
           size == Cardinality(selected)
           order == Ordered(oam, selected)
           f == CHOOSE g : g = [k \in 0 .. size |->
                                  IF k = 0 THEN [dots |-> 0, tiles |-> {}]
                                  ELSE Charge(r, oam, line, g[k - 1], order[k])]
<1>1. Charges(f, r, oam, line, order, size)
  <2> HIDE DEF selected, size, order
  <2>1. size \in Nat
    BY DEF size, selected
  <2>2. \E g : Charges(g, r, oam, line, order, size)
    BY <2>1, ChargesGoOn
  <2> QED
    BY <2>2, Zenon DEF Charges, Free
<1>2. SpritePenalty(r, oam, line) = IF r.objects THEN f[size].dots ELSE 0
  BY DEF SpritePenalty
<1> QED
  BY <1>1, <1>2

\* No line is kept longer than ten sprites and the tiles under them allow,
\* whatever the registers are and wherever the sprites lie
\* (ppu/sprite.rs:102).
THEOREM PenaltyStaysBounded ==
  ASSUME NEW r, r.scx \in 0 .. 255, r.wx \in 0 .. 255, NEW line,
         NEW n \in Nat, NEW oam, DOMAIN oam = 1 .. n, \A i \in 1 .. n : oam[i].x \in 0 .. 255
  PROVE  PenaltyIsBounded(r, oam, line)
<1> DEFINE selected == SelectedSprites(r, oam, line)
           size == Cardinality(selected)
           order == Ordered(oam, selected)
           Mark(i) == CoveredTile(r, oam[i], line).tile
           tiles == {Mark(i) : i \in selected}
           penalty == SpritePenalty(r, oam, line)
<1>1. selected \subseteq 1 .. n
  BY DEF SelectedSprites
<1>2. IsFiniteSet(selected) /\ size \in Nat /\ size <= 10
  BY <1>1, PositionsAreFinite, TenSpritesAtMost
<1>3. IsFiniteSet(tiles) /\ Cardinality(tiles) \in Nat
  <2> DEFINE f == [i \in selected |-> Mark(i)]
  <2> HIDE DEF selected, Mark
  <2>1. IsFiniteSet(tiles)
    <3>1. f \in Surjection(selected, tiles)
      BY DEF Surjection
    <3> HIDE DEF f, tiles
    <3> QED
      BY <1>2, <3>1, FS_Surjection
  <2> QED
    BY <2>1, FS_CardinalityType
<1>4. PICK f : /\ Charges(f, r, oam, line, order, size)
               /\ penalty = IF r.objects THEN f[size].dots ELSE 0
  BY <1>2, PenaltyIs
<1>5. \A k \in 1 .. size : order[k] \in selected
  BY <1>1, OrderIs DEF IsOrder
<1> HIDE DEF selected, size, order, penalty, Mark
<1> DEFINE Bounded(k) == /\ f[k].dots \in Nat /\ IsFiniteSet(f[k].tiles)
                         /\ f[k].tiles \subseteq tiles
                         /\ f[k].dots <= 6 * k + 5 * Cardinality(f[k].tiles)
           S == {k \in Nat : k <= size => Bounded(k)}
<1>6. 0 \in S
  <2>1. f[0] = Free
    BY <1>2, <1>4 DEF Charges
  <2>2. f[0].dots = 0 /\ f[0].tiles = {}
    BY <2>1 DEF Free
  <2>3. IsFiniteSet({}) /\ Cardinality({}) = 0
    BY FS_EmptySet
  <2>4. Bounded(0)
    BY <2>2, <2>3
  <2> QED
    BY <2>4
<1>7. ASSUME NEW k \in Nat, k \in S
      PROVE  k + 1 \in S
  <2> SUFFICES ASSUME k + 1 <= size
               PROVE  Bounded(k + 1)
    OBVIOUS
  <2> DEFINE i == order[k + 1]
             before == f[k]
             after == f[k + 1]
  <2>1. Bounded(k)
    BY <1>2, <1>7
  <2>2. after = Charge(r, oam, line, before, i)
    <3>1. k + 1 \in 0 .. size /\ k + 1 # 0 /\ (k + 1) - 1 = k
      BY <1>2
    <3> QED
      BY <1>4, <3>1 DEF Charges
  <2>3. i \in selected
    <3>1. k + 1 \in 1 .. size
      BY <1>2
    <3> QED
      BY <1>5, <3>1
  <2>4. oam[i].x \in 0 .. 255
    BY <1>1, <2>3
  <2> HIDE DEF i, before, after
  <2>5. /\ after.dots \in Nat /\ IsFiniteSet(after.tiles)
        /\ after.tiles \subseteq before.tiles \cup {CoveredTile(r, oam[i], line).tile}
        /\ after.dots + 5 * Cardinality(before.tiles)
             <= before.dots + 6 + 5 * Cardinality(after.tiles)
    BY <2>1, <2>2, <2>4, ChargeIsBounded DEF before
  <2>6. after.tiles \subseteq tiles
    <3>1. CoveredTile(r, oam[i], line).tile \in tiles
      BY <2>3 DEF Mark
    <3> HIDE DEF tiles
    <3> QED
      BY <2>1, <2>5, <3>1 DEF before
  <2>7. after.dots <= 6 * (k + 1) + 5 * Cardinality(after.tiles)
    <3>1. /\ Cardinality(before.tiles) \in Nat /\ Cardinality(after.tiles) \in Nat
          /\ before.dots \in Nat /\ before.dots <= 6 * k + 5 * Cardinality(before.tiles)
      BY <2>1, <2>5, FS_CardinalityType DEF before
    <3> QED
      BY <2>5, <3>1
  <2> QED
    BY <2>5, <2>6, <2>7 DEF after
<1> HIDE DEF Bounded, S
<1>8. Bounded(size)
  <2>1. size \in S
    BY <1>2, <1>6, <1>7, SetInduction
  <2> QED
    BY <1>2, <2>1 DEF S
<1>9. penalty <= 6 * size + 5 * Cardinality(tiles)
  <2>1. /\ f[size].dots \in Nat /\ Cardinality(f[size].tiles) \in Nat
        /\ f[size].dots <= 6 * size + 5 * Cardinality(f[size].tiles)
        /\ Cardinality(f[size].tiles) <= Cardinality(tiles)
    BY <1>3, <1>8, FS_Subset, FS_CardinalityType DEF Bounded
  <2>2. f[size].dots <= 6 * size + 5 * Cardinality(tiles) /\ 0 <= 6 * size + 5 * Cardinality(tiles)
    BY <1>2, <1>3, <2>1
  <2> HIDE DEF tiles
  <2> QED
    BY <1>4, <2>2
<1> QED
  BY <1>2, <1>9 DEF PenaltyIsBounded, selected, size, penalty, Mark
=============================================================================
