--------------------------- MODULE AudioPumpProofs ---------------------------
(* A flush separates the sound, and the sound is never given up by mistake, *)
(* for every size of the ring, the batches and the device's requests.       *)
EXTENDS AudioPump, SequenceTheorems, TLAPS

(* The strengthened invariant.                                              *)

\* The number of the flush goes from the worker's store over what the callback
\* loads and observes back to what it reports; the ring holds sound of before
\* the last report at most, and none while a clear is being reported.
Epochs ==
  /\ flushedEpoch <= flushEpoch
  /\ callback.epoch <= flushEpoch
  /\ callback.pc # "flushed" => observed = flushedEpoch
  /\ callback.pc = "flushed" =>
       observed = callback.epoch /\ flushedEpoch < observed /\ ring = <<>>
  /\ callback.pc = "clear" => flushedEpoch < callback.epoch
  /\ \A i \in 1 .. Len(ring) : ring[i] <= flushedEpoch
  /\ ~ FlushPending => Fresh

\* After pause_and_flush, and for a callback that began after it, the sound is
\* paused; a callback that pops began before, or after play.
Quieted ==
  /\ quiet => paused
  /\ pc = "flush" => paused
  /\ callback.quiet => paused
  /\ callback.pc = "pop" => ~ callback.quiet
  /\ callback.pc = "pop" => playing \/ FlushPending
  /\ ~ paused => playing

\* From the decision to the verdict no flush begins; what health read bounds
\* the ring, and a priming grows it by a batch at least with every tick.
Priming ==
  /\ pc \in {"pump", "prime", "single", "check", "pause", "flush"} => output
  /\ pc = "pump" => Len(ring) <= queued
  /\ pc \in {"prime", "single"} => Len(ring) <= Target
  /\ pc \in {"prime", "single", "check", "start", "verdict"} /\ output => ~ FlushPending
  /\ pc \notin {"prime", "check", "start", "verdict"} => round = NoRound
  /\ pc \in {"pause", "flush"} => flushEpoch < MaxEpoch
  /\ pc \in {"prime", "check"} => queued < Low
  /\ pc = "prime" => round.ticks < MaxPrime
  /\ round.ticks > 0 => queued < Low
  /\ pc \in {"prime", "check", "start", "verdict"} /\ output /\ ~ playing /\ ~ round.mute
       => round.ticks <= Len(ring)
  /\ pc \in {"start", "verdict"} /\ output /\ ~ playing /\ round.ticks > 0
       => Len(ring) >= Target \/ round.ticks = MaxPrime

AudioInv ==
  /\ TypeOK
  /\ Epochs
  /\ Quieted
  /\ Priming
  /\ NoFalseAlarm

CallbackType ==
  [pc : {"idle", "clear", "flushed", "paused", "pop"}, epoch : 0 .. MaxEpoch, quiet : BOOLEAN]

-----------------------------------------------------------------------------
LEMMA Sizes ==
  /\ Low \in Nat /\ Target \in Nat /\ Capacity \in Nat /\ MaxPrime \in Nat /\ MaxEpoch \in Nat
  /\ 0 < Low /\ Low < Target /\ Target < Capacity /\ Low <= MaxPrime
  /\ Batch \subseteq Nat /\ Chunk \subseteq Nat \ {0}
  /\ \A frames \in Batch : Target + frames <= Capacity
  BY WatermarkAssumption, BatchAssumption, PrimingAssumption

LEMMA StartsSound == Init => AudioInv
<1> SUFFICES ASSUME Init PROVE AudioInv
  OBVIOUS
<1>1. /\ ring = <<>> /\ Len(ring) = 0 /\ ring \in Seq(0 .. MaxEpoch)
      /\ callback = [pc |-> "idle", epoch |-> 0, quiet |-> FALSE]
      /\ round = [ticks |-> 0, mute |-> FALSE]
  BY EmptySeq DEF Init, Asleep, NoRound
<1>2. TypeOK
  <2>1. callback \in CallbackType /\ round \in [ticks : 0 .. MaxPrime, mute : BOOLEAN]
    BY <1>1, Sizes DEF CallbackType
  <2>2. Len(ring) <= Capacity /\ queued \in 0 .. Capacity
    BY <1>1, Sizes DEF Init
  <2>3. 0 \in 0 .. MaxEpoch
    BY Sizes
  <2> QED
    BY <1>1, <2>1, <2>2, <2>3 DEF Init, TypeOK, CallbackType
<1>3. Epochs /\ Quieted
  BY <1>1 DEF Init, Epochs, Quieted, FlushPending, Fresh
<1>4. Priming /\ NoFalseAlarm
  BY <1>1, Sizes DEF Init, Priming, NoFalseAlarm, NoRound
<1> QED
  BY <1>2, <1>3, <1>4 DEF AudioInv

-----------------------------------------------------------------------------
(* The device.                                                              *)

LEMMA LoadFlushEpochKeeps == AudioInv /\ LoadFlushEpoch => AudioInv'
<1> SUFFICES ASSUME AudioInv, LoadFlushEpoch PROVE AudioInv'
  OBVIOUS
<1> USE DEF AudioInv, LoadFlushEpoch, runtime, control, state
<1>1. TypeOK'
  BY DEF TypeOK
<1>2. Epochs'
  BY DEF TypeOK, Epochs, FlushPending, Fresh
<1>3. Quieted'
  BY DEF TypeOK, Quieted, FlushPending
<1>4. Priming' /\ NoFalseAlarm'
  BY DEF Priming, NoFalseAlarm, FlushPending
<1> QED
  BY <1>1, <1>2, <1>3, <1>4

LEMMA ClearRingKeeps == AudioInv /\ ClearRing => AudioInv'
<1> SUFFICES ASSUME AudioInv, ClearRing PROVE AudioInv'
  OBVIOUS
<1>0. ring' = <<>> /\ Len(ring') = 0 /\ ring' \in Seq(0 .. MaxEpoch)
  BY EmptySeq DEF ClearRing
<1> USE DEF AudioInv, ClearRing, runtime, control, state
<1>1. TypeOK'
  <2>1. callback' \in CallbackType /\ observed' \in 0 .. MaxEpoch
    BY DEF TypeOK, CallbackType
  <2> QED
    BY <1>0, <2>1, Sizes DEF TypeOK, CallbackType
<1>2. Epochs'
  BY <1>0 DEF TypeOK, Epochs, FlushPending, Fresh
<1>3. Quieted'
  BY DEF TypeOK, Quieted, FlushPending
<1>4. FlushPending
  BY DEF TypeOK, Epochs, FlushPending
<1>5. Priming' /\ NoFalseAlarm'
  BY <1>0, <1>4, Sizes DEF TypeOK, Priming, NoFalseAlarm, FlushPending
<1> QED
  BY <1>1, <1>2, <1>3, <1>5

LEMMA StoreFlushedKeeps == AudioInv /\ StoreFlushed => AudioInv'
<1> SUFFICES ASSUME AudioInv, StoreFlushed PROVE AudioInv'
  OBVIOUS
<1>0. ring = <<>> /\ ring' = <<>> /\ Len(ring') = 0 /\ Len(ring) = 0
  BY EmptySeq DEF AudioInv, StoreFlushed, Epochs
<1> USE DEF AudioInv, StoreFlushed, runtime, control, state
<1>1. TypeOK'
  <2>1. callback' \in CallbackType /\ flushedEpoch' \in 0 .. MaxEpoch
    BY DEF TypeOK, CallbackType
  <2> QED
    BY <2>1 DEF TypeOK, CallbackType
<1>2. Epochs'
  BY <1>0 DEF TypeOK, Epochs, FlushPending, Fresh
<1>3. Quieted'
  BY DEF TypeOK, Quieted, FlushPending
<1>4. FlushPending
  BY DEF TypeOK, Epochs, FlushPending
<1>5. Priming' /\ NoFalseAlarm'
  BY <1>0, <1>4 DEF TypeOK, Priming, NoFalseAlarm, FlushPending
<1> QED
  BY <1>1, <1>2, <1>3, <1>5

LEMMA LoadPausedKeeps == AudioInv /\ LoadPaused => AudioInv'
<1> SUFFICES ASSUME AudioInv, LoadPaused PROVE AudioInv'
  OBVIOUS
<1>0. callback' \in CallbackType /\ callback'.pc \in {"idle", "pop"}
      /\ (callback'.pc = "pop" => ~ paused /\ callback'.quiet = callback.quiet)
      /\ (callback'.pc = "idle" => callback'.quiet = FALSE)
      /\ (callback'.epoch = 0 \/ callback'.epoch = callback.epoch)
  <2>1. callback \in CallbackType /\ 0 \in 0 .. MaxEpoch
    BY Sizes DEF AudioInv, TypeOK, CallbackType
  <2>2. CASE paused
    <3>1. callback' = [pc |-> "idle", epoch |-> 0, quiet |-> FALSE]
      BY <2>2 DEF LoadPaused, Asleep
    <3> QED
      BY <2>1, <3>1 DEF CallbackType
  <2>3. CASE ~ paused
    <3>1. callback' = [callback EXCEPT !.pc = "pop"]
      BY <2>3 DEF LoadPaused
    <3> QED
      BY <2>1, <2>3, <3>1 DEF CallbackType
  <2> QED
    BY <2>2, <2>3
<1> USE DEF AudioInv, LoadPaused, runtime, control, state
<1>1. TypeOK'
  BY <1>0 DEF TypeOK, CallbackType
<1>2. Epochs'
  BY <1>0 DEF TypeOK, Epochs, FlushPending, Fresh
<1>3. Quieted'
  BY <1>0 DEF TypeOK, Quieted, FlushPending
<1>4. Priming' /\ NoFalseAlarm'
  BY DEF Priming, NoFalseAlarm, FlushPending
<1> QED
  BY <1>1, <1>2, <1>3, <1>4

\* What is popped is the front of the ring.
LEMMA Popped ==
  ASSUME NEW S, NEW seq \in Seq(S), NEW k \in 0 .. Len(seq)
  PROVE  LET rest == SubSeq(seq, 1 + k, Len(seq))
         IN  /\ rest \in Seq(S)
             /\ Len(rest) = Len(seq) - k
             /\ \A i \in 1 .. Len(rest) : rest[i] = seq[k + i] /\ k + i \in 1 .. Len(seq)
<1>1. Len(seq) \in Nat
  BY LenProperties
<1> QED
  BY <1>1, SubSeqProperties

LEMMA PopSliceKeeps == AudioInv /\ PopSlice => AudioInv'
<1> SUFFICES ASSUME AudioInv, PopSlice PROVE AudioInv'
  OBVIOUS
<1>1. PICK k \in 0 .. Len(ring) : ring' = SubSeq(ring, 1 + k, Len(ring))
  <2>1. Len(ring) \in Nat
    BY LenProperties DEF AudioInv, TypeOK
  <2>2. PICK frames \in Chunk :
          ring' = SubSeq(ring, 1 + (IF frames < Len(ring) THEN frames ELSE Len(ring)), Len(ring))
    BY DEF PopSlice
  <2>3. frames \in Nat
    BY Sizes
  <2>4. CASE frames < Len(ring)
    BY <2>1, <2>2, <2>3, <2>4
  <2>5. CASE ~ (frames < Len(ring))
    BY <2>1, <2>2, <2>5
  <2> QED
    BY <2>4, <2>5
<1>2. /\ ring' \in Seq(0 .. MaxEpoch)
      /\ Len(ring) \in Nat /\ Len(ring') \in Nat
      /\ Len(ring') <= Len(ring)
      /\ \A i \in 1 .. Len(ring') : \E j \in 1 .. Len(ring) : ring'[i] = ring[j]
  <2>1. ring \in Seq(0 .. MaxEpoch)
    BY DEF AudioInv, TypeOK
  <2>2. /\ ring' \in Seq(0 .. MaxEpoch)
        /\ Len(ring') = Len(ring) - k
        /\ \A i \in 1 .. Len(ring') : ring'[i] = ring[k + i] /\ k + i \in 1 .. Len(ring)
    BY <1>1, <2>1, Popped
  <2>3. Len(ring) \in Nat
    BY <2>1, LenProperties
  <2> QED
    BY <2>2, <2>3
<1>3. callback' = [pc |-> "idle", epoch |-> 0, quiet |-> FALSE] /\ callback.pc = "pop"
      /\ UNCHANGED <<runtime, control, state, observed, quiet>>
  BY DEF PopSlice, Asleep
<1> USE DEF AudioInv, runtime, control, state
<1>4. TypeOK'
  <2>1. callback' \in CallbackType
    BY <1>3, Sizes DEF CallbackType
  <2>2. Len(ring') <= Capacity
    BY <1>2, Sizes DEF TypeOK
  <2> QED
    BY <1>2, <1>3, <2>1, <2>2 DEF TypeOK, CallbackType
<1>5. Epochs'
  BY <1>2, <1>3 DEF TypeOK, Epochs, FlushPending, Fresh
<1>6. Quieted'
  BY <1>3 DEF Quieted, FlushPending
<1>7. playing \/ FlushPending
  BY <1>3 DEF Quieted
<1>8. Priming' /\ NoFalseAlarm'
  BY <1>2, <1>3, <1>7, Sizes DEF TypeOK, Priming, NoFalseAlarm, FlushPending
<1> QED
  BY <1>4, <1>5, <1>6, <1>8

LEMMA ReportLostKeeps == AudioInv /\ ReportLost => AudioInv'
<1> SUFFICES ASSUME AudioInv, ReportLost PROVE AudioInv'
  OBVIOUS
<1> USE DEF AudioInv, ReportLost, runtime, control, device
<1>1. TypeOK'
  <2>1. usable' \in BOOLEAN
    BY Zenon
  <2> QED
    BY <2>1 DEF TypeOK
<1>2. Epochs' /\ Quieted'
  BY DEF Epochs, Quieted, FlushPending, Fresh
<1>3. Priming' /\ NoFalseAlarm'
  BY DEF Priming, NoFalseAlarm, FlushPending
<1> QED
  BY <1>1, <1>2, <1>3

-----------------------------------------------------------------------------
(* The output as the worker uses it.                                        *)

\* What a fresh queue is, whatever the old one was.
LEMMA FreshQueueIsQuiet ==
  ASSUME TypeOK, FreshQueue, playing' = FALSE
  PROVE  /\ Epochs' /\ Quieted' /\ ~ FlushPending' /\ Len(ring') = 0
         /\ paused' \in BOOLEAN /\ usable' \in BOOLEAN /\ quiet' \in BOOLEAN
         /\ flushEpoch' \in 0 .. MaxEpoch /\ flushedEpoch' \in 0 .. MaxEpoch
         /\ ring' \in Seq(0 .. MaxEpoch) /\ Len(ring') <= Capacity
         /\ callback' \in CallbackType /\ observed' \in 0 .. MaxEpoch
<1>1. /\ ring' = <<>> /\ Len(ring') = 0 /\ ring' \in Seq(0 .. MaxEpoch)
      /\ callback' = [pc |-> "idle", epoch |-> 0, quiet |-> FALSE]
  BY EmptySeq DEF FreshQueue, Asleep
<1>2. paused' = TRUE /\ usable' = TRUE /\ quiet' = TRUE
      /\ flushEpoch' = 0 /\ flushedEpoch' = 0 /\ observed' = 0
  BY DEF FreshQueue
<1>3. callback' \in CallbackType /\ 0 \in 0 .. MaxEpoch /\ 0 <= Capacity
  BY <1>1, Sizes DEF CallbackType
<1>4. Epochs'
  BY <1>1, <1>2 DEF Epochs, FlushPending, Fresh
<1>5. Quieted'
  BY <1>1, <1>2 DEF Quieted, FlushPending
<1>6. ~ FlushPending'
  BY <1>2 DEF FlushPending
<1>7. paused' \in BOOLEAN /\ usable' \in BOOLEAN /\ quiet' \in BOOLEAN
  BY <1>2, Zenon
<1> QED
  BY <1>1, <1>2, <1>3, <1>4, <1>5, <1>6, <1>7

LEMMA LoadUsableKeeps == AudioInv /\ LoadUsable => AudioInv'
<1> SUFFICES ASSUME AudioInv, LoadUsable PROVE AudioInv'
  OBVIOUS
<1>0. pc = "loop" /\ pc' = "dispatch" /\ UNCHANGED <<command, phase, queued, round>>
  BY DEF LoadUsable, Goto
<1>1. round = NoRound /\ round.ticks = 0
  BY <1>0 DEF AudioInv, Priming, NoRound
<1>2. CASE output /\ ~ usable
  <2>1. FreshQueue /\ output' = FALSE /\ playing' = FALSE /\ disabled' = "unusable"
    BY <1>2 DEF LoadUsable, Disable, DropOutput
  <2>2. TypeOK
    BY DEF AudioInv
  <2>3. TypeOK'
    <3>1. output' \in BOOLEAN /\ playing' \in BOOLEAN
      BY <2>1, Zenon
    <3> QED
      BY <1>0, <2>1, <2>2, <3>1, FreshQueueIsQuiet DEF TypeOK, CallbackType
  <2>4. Epochs' /\ Quieted'
    BY <2>1, <2>2, FreshQueueIsQuiet
  <2>5. Priming' /\ NoFalseAlarm'
    BY <1>0, <1>1, <2>1 DEF AudioInv, Priming, NoFalseAlarm
  <2> QED
    BY <2>3, <2>4, <2>5 DEF AudioInv
<1>3. CASE ~ (output /\ ~ usable)
  <2>1. KeepOutput
    BY <1>3 DEF LoadUsable
  <2> USE DEF KeepOutput, state, device
  <2>2. TypeOK'
    BY <1>0, <2>1 DEF AudioInv, TypeOK
  <2>3. Epochs' /\ Quieted'
    BY <1>0, <2>1 DEF AudioInv, Epochs, Quieted, FlushPending, Fresh
  <2>4. Priming' /\ NoFalseAlarm'
    BY <1>0, <1>1, <2>1 DEF AudioInv, Priming, NoFalseAlarm
  <2> QED
    BY <2>2, <2>3, <2>4 DEF AudioInv
<1> QED
  BY <1>2, <1>3

\* What every step keeps that leaves the queue and the device alone.
LEMMA KeptOutput ==
  ASSUME AudioInv, KeepOutput, pc' # "flush"
  PROVE  Epochs' /\ Quieted' /\ NoFalseAlarm'
  BY DEF AudioInv, KeepOutput, state, device, Epochs, Quieted, NoFalseAlarm, FlushPending, Fresh

LEMMA DispatchKeeps == AudioInv /\ Dispatch => AudioInv'
<1> SUFFICES ASSUME AudioInv, Dispatch PROVE AudioInv'
  OBVIOUS
<1>1. /\ pc = "dispatch" /\ pc' \in {"pump", "receive"} /\ (pc' = "pump" => output)
      /\ queued' = Len(ring) /\ UNCHANGED <<command, phase, round>> /\ KeepOutput
  BY DEF Dispatch, Goto
<1>2. round = NoRound /\ round.ticks = 0
  BY <1>1 DEF AudioInv, Priming, NoRound
<1>3. TypeOK'
  <2>1. queued' \in 0 .. Capacity
    BY <1>1, Sizes, LenProperties DEF AudioInv, TypeOK
  <2> QED
    BY <1>1, <2>1 DEF AudioInv, TypeOK, KeepOutput, state, device
<1>4. Priming'
  <2>1. Len(ring') <= queued'
    BY <1>1, LenProperties DEF AudioInv, TypeOK, KeepOutput
  <2> QED
    BY <1>1, <1>2, <2>1 DEF AudioInv, Priming, KeepOutput, state
<1> QED
  BY <1>1, <1>3, <1>4, KeptOutput DEF AudioInv

LEMMA DeadlineTickKeeps == AudioInv /\ DeadlineTick => AudioInv'
<1> SUFFICES ASSUME AudioInv, DeadlineTick PROVE AudioInv'
  OBVIOUS
<1>1. /\ pc = "dispatch" /\ pc' = "loop" /\ phase' \in {"Running", "Error"}
      /\ UNCHANGED <<command, queued, round>> /\ KeepOutput
  BY DEF DeadlineTick, Goto
<1>2. round = NoRound /\ round.ticks = 0
  BY <1>1 DEF AudioInv, Priming, NoRound
<1>3. TypeOK'
  BY <1>1 DEF AudioInv, TypeOK, KeepOutput, state, device
<1>4. Priming'
  BY <1>1, <1>2 DEF AudioInv, Priming, KeepOutput, state
<1> QED
  BY <1>1, <1>3, <1>4, KeptOutput DEF AudioInv

LEMMA PumpKeeps == AudioInv /\ Pump => AudioInv'
<1> SUFFICES ASSUME AudioInv, Pump PROVE AudioInv'
  OBVIOUS
<1>1. /\ pc = "pump" /\ pc' \in {"receive", "prime", "single", "start"}
      /\ UNCHANGED <<command, phase, queued, round>> /\ KeepOutput
      /\ pc' # "receive" => ~ FlushPending
      /\ pc' = "prime" => queued < Low
      /\ pc' = "single" => queued <= Target
  BY DEF Pump, Goto, Decision
<1>2. round = NoRound /\ round.ticks = 0 /\ output /\ Len(ring) <= queued
      /\ Len(ring) \in Nat /\ queued \in Nat /\ Len(ring') = Len(ring)
  BY <1>1, LenProperties DEF AudioInv, TypeOK, Priming, NoRound, KeepOutput
<1>3. TypeOK'
  BY <1>1 DEF AudioInv, TypeOK, KeepOutput, state, device
<1>4. FlushPending' = FlushPending /\ UNCHANGED <<output, playing>>
  BY <1>1 DEF KeepOutput, state, FlushPending
<1>5. Priming'
  BY <1>1, <1>2, <1>4, Sizes DEF Priming
<1> QED
  BY <1>1, <1>3, <1>5, KeptOutput DEF AudioInv

\* Whoever gives the output up leaves a queue that never sounded.
LEMMA DropKeeps ==
  ASSUME AudioInv, DropOutput,
         pc' \notin {"pump", "prime", "single", "check", "pause", "flush"},
         pc' \in {"loop", "dispatch", "start", "verdict", "receive", "flushed", "stopped"},
         phase' \in {"Empty", "Paused", "Running", "Error"},
         command' \in {"none", "pause", "restart"},
         disabled' \in {"no", "unavailable", "unusable", "silent"},
         queued' = queued, round' = round \/ round' = NoRound,
         pc' \in {"start", "verdict"} \/ round' = NoRound
  PROVE  AudioInv'
<1>1. FreshQueue /\ output' = FALSE /\ playing' = FALSE /\ TypeOK
  BY DEF DropOutput, AudioInv
<1>2. round' \in [ticks : 0 .. MaxPrime, mute : BOOLEAN] /\ NoRound.ticks = 0
  <2>1. NoRound \in [ticks : 0 .. MaxPrime, mute : BOOLEAN] /\ NoRound.ticks = 0
    BY Sizes DEF NoRound
  <2> QED
    BY <2>1, <1>1 DEF TypeOK
<1>3. TypeOK'
  <2>1. output' \in BOOLEAN /\ playing' \in BOOLEAN
    BY <1>1, Zenon
  <2> QED
    BY <1>1, <1>2, <2>1, FreshQueueIsQuiet DEF TypeOK, CallbackType
<1>4. Epochs' /\ Quieted'
  BY <1>1, FreshQueueIsQuiet
<1>5. Priming'
  BY <1>1, <1>2 DEF AudioInv, Priming
<1>6. NoFalseAlarm'
  BY DEF NoFalseAlarm
<1> QED
  BY <1>3, <1>4, <1>5, <1>6 DEF AudioInv

\* The queue takes every batch that the worker offers.
LEMMA NothingRefused ==
  ASSUME AudioInv, pc \in {"prime", "single"}, NEW frames \in Batch
  PROVE  /\ ~ Refuses(frames) /\ ~ FlushPending /\ output
         /\ Len(ring) \in Nat /\ frames \in Nat /\ Len(ring) + frames <= Capacity
<1>1. Len(ring) \in Nat /\ Len(ring) <= Target /\ ~ FlushPending /\ output
  BY LenProperties DEF AudioInv, TypeOK, Priming
<1>2. frames \in Nat /\ Target + frames <= Capacity /\ Target \in Nat /\ Capacity \in Nat
  BY Sizes
<1>3. Len(ring) + frames <= Capacity
  BY <1>1, <1>2
<1>4. ~ (Capacity - Len(ring) < frames)
  BY <1>1, <1>2, <1>3
<1> QED
  BY <1>1, <1>2, <1>3, <1>4 DEF Refuses

\* The sound of one batch goes behind what the ring holds.
LEMMA Appended ==
  ASSUME NEW S, NEW seq \in Seq(S), NEW x \in S, NEW n \in Nat
  PROVE  LET longer == seq \o [i \in 1 .. n |-> x]
         IN  /\ longer \in Seq(S)
             /\ Len(longer) = Len(seq) + n
             /\ \A i \in 1 .. Len(longer) :
                  \/ i \in 1 .. Len(seq) /\ longer[i] = seq[i]
                  \/ longer[i] = x
<1> DEFINE tail == [i \in 1 .. n |-> x]
<1>1. tail \in Seq(S) /\ Len(tail) = n /\ \A i \in 1 .. n : tail[i] = x
  OBVIOUS
<1>2. Len(seq) \in Nat
  BY LenProperties
<1> HIDE DEF tail
<1>3. /\ seq \o tail \in Seq(S)
      /\ Len(seq \o tail) = Len(seq) + Len(tail)
      /\ \A i \in 1 .. Len(seq) + Len(tail) :
           (seq \o tail)[i] = IF i <= Len(seq) THEN seq[i] ELSE tail[i - Len(seq)]
  BY <1>1, ConcatProperties
<1>4. \A i \in 1 .. Len(seq \o tail) :
        \/ i \in 1 .. Len(seq) /\ (seq \o tail)[i] = seq[i]
        \/ (seq \o tail)[i] = x
  <2> TAKE i \in 1 .. Len(seq \o tail)
  <2>1. CASE i <= Len(seq)
    BY <1>1, <1>2, <1>3, <2>1
  <2>2. CASE ~ (i <= Len(seq))
    <3>1. i - Len(seq) \in 1 .. n
      BY <1>1, <1>2, <1>3, <2>2
    <3> QED
      BY <1>1, <1>3, <2>2, <3>1
  <2> QED
    BY <2>1, <2>2
<1> QED
  BY <1>1, <1>3, <1>4 DEF tail

LEMMA TickTaken ==
  ASSUME AudioInv, pc \in {"prime", "single"}, NEW frames \in Batch, Enqueue(frames),
         UNCHANGED <<phase, command, queued>>,
         pc' = IF pc = "prime" /\ output' THEN "check" ELSE "start",
         round' = IF pc = "single" THEN round
                  ELSE [ticks |-> round.ticks + 1, mute |-> round.mute \/ frames = 0]
  PROVE  AudioInv'
<1>1. /\ ring' = ring \o [i \in 1 .. frames |-> flushEpoch]
      /\ UNCHANGED <<output, playing, disabled, state, device, quiet>>
  BY NothingRefused DEF Enqueue
<1>2. /\ ~ FlushPending /\ output /\ Len(ring) \in Nat /\ frames \in Nat
      /\ Len(ring) + frames <= Capacity
  BY NothingRefused
<1>3. /\ TypeOK /\ flushEpoch \in 0 .. MaxEpoch /\ ring \in Seq(0 .. MaxEpoch)
      /\ callback.pc # "flushed" /\ flushEpoch = flushedEpoch
  BY <1>2 DEF AudioInv, TypeOK, Epochs, FlushPending
<1>4. /\ ring' \in Seq(0 .. MaxEpoch)
      /\ Len(ring') = Len(ring) + frames
      /\ \A i \in 1 .. Len(ring') :
           \/ i \in 1 .. Len(ring) /\ ring'[i] = ring[i]
           \/ ring'[i] = flushEpoch
  BY <1>1, <1>2, <1>3, Appended
<1>5. pc' \in {"check", "start"} /\ (pc = "single" => pc' = "start") /\ (pc = "prime" => pc' = "check")
  BY <1>1, <1>2
<1>6. /\ round' \in [ticks : 0 .. MaxPrime, mute : BOOLEAN]
      /\ pc = "single" => round' = NoRound /\ round'.ticks = 0
      /\ pc = "prime" => /\ queued < Low
                         /\ round'.ticks <= MaxPrime
                         /\ output /\ ~ playing /\ ~ round'.mute => round'.ticks <= Len(ring')
  <2>1. CASE pc = "single"
    BY <2>1, <1>3 DEF AudioInv, TypeOK, Priming, NoRound
  <2>2. CASE pc = "prime"
    <3> DEFINE mute == round.mute \/ frames = 0
    <3>0. mute \in BOOLEAN
      BY Zenon
    <3>1. round' = [ticks |-> round.ticks + 1, mute |-> mute]
      BY <2>2
    <3> HIDE DEF mute
    <3>2. round.ticks \in 0 .. MaxPrime /\ round.ticks < MaxPrime /\ queued < Low
      BY <1>3, <2>2 DEF AudioInv, TypeOK, Priming
    <3>3. round' \in [ticks : 0 .. MaxPrime, mute : BOOLEAN] /\ round'.ticks = round.ticks + 1
          /\ round'.mute = mute
      BY <3>0, <3>1, <3>2, Sizes
    <3>4. ASSUME ~ playing, ~ mute PROVE round'.ticks <= Len(ring')
      <4>1. ~ round.mute /\ frames > 0
        BY <3>4, <1>2 DEF mute
      <4>2. round.ticks <= Len(ring)
        BY <4>1, <2>2, <3>4, <1>2 DEF AudioInv, Priming
      <4> QED
        BY <4>1, <4>2, <3>2, <3>3, <1>2, <1>4
    <3> QED
      BY <2>2, <3>2, <3>3, <3>4, Sizes
  <2> QED
    BY <2>1, <2>2
<1>7. TypeOK'
  BY <1>1, <1>2, <1>3, <1>4, <1>5, <1>6, Sizes DEF TypeOK, state, device
<1>8. Epochs'
  <2>1. \A i \in 1 .. Len(ring') : ring'[i] = flushEpoch
    BY <1>2, <1>4 DEF AudioInv, Epochs, Fresh
  <2> QED
    BY <1>1, <1>3, <2>1 DEF AudioInv, TypeOK, Epochs, FlushPending, Fresh, state, device
<1>9. Quieted'
  BY <1>1, <1>5 DEF AudioInv, Quieted, FlushPending, state, device
<1>10. Priming'
  <2>1. ~ FlushPending' /\ output' /\ UNCHANGED <<playing, queued>>
    BY <1>1, <1>2 DEF FlushPending, state
  <2>2. Len(ring') \in Nat
    BY <1>2, <1>4
  <2>3. CASE pc = "single"
    <3>1. pc' = "start" /\ round'.ticks = 0
      BY <1>5, <1>6, <2>3
    <3> QED
      BY <2>1, <2>2, <3>1 DEF Priming
  <2>4. CASE pc = "prime"
    <3>1. pc' = "check" /\ queued' < Low /\ round'.ticks <= MaxPrime
      BY <1>5, <1>6, <2>1, <2>4
    <3>2. ~ playing' /\ ~ round'.mute => round'.ticks <= Len(ring')
      BY <1>2, <1>6, <2>1, <2>4
    <3> QED
      BY <2>1, <3>1, <3>2 DEF Priming
  <2> QED
    BY <2>3, <2>4
<1> QED
  BY <1>1, <1>7, <1>8, <1>9, <1>10 DEF AudioInv, NoFalseAlarm

LEMMA RunTickKeeps == AudioInv /\ RunTick => AudioInv'
<1> SUFFICES ASSUME AudioInv, RunTick PROVE AudioInv'
  OBVIOUS
<1>1. pc \in {"prime", "single"} /\ queued' = queued
  BY DEF RunTick
<1>2. CASE /\ Goto(pc, "start") /\ phase' = "Error" /\ UNCHANGED round
           /\ \E frames \in Batch :
                IF Refuses(frames) THEN Disable("refused") ELSE DropOutput /\ UNCHANGED disabled
  <2>1. DropOutput /\ UNCHANGED disabled
    BY <1>1, <1>2, NothingRefused
  <2>2. pc' = "start" /\ command' = command
    BY <1>2 DEF Goto
  <2>3. disabled' \in {"no", "unavailable", "unusable", "silent"} /\ command' \in {"none", "pause", "restart"}
    BY <2>1, <2>2 DEF AudioInv, TypeOK, NoFalseAlarm
  <2> QED
    BY <1>1, <1>2, <2>1, <2>2, <2>3, DropKeeps
<1>3. ASSUME NEW frames \in Batch, Enqueue(frames),
             Goto(pc, IF pc = "prime" /\ output' THEN "check" ELSE "start"),
             round' = (IF pc = "single" THEN round
                       ELSE [ticks |-> round.ticks + 1, mute |-> round.mute \/ frames = 0]),
             UNCHANGED phase
      PROVE  AudioInv'
  BY <1>1, <1>3, TickTaken DEF Goto
<1> QED
  BY <1>2, <1>3 DEF RunTick

LEMMA CheckPrimedKeeps == AudioInv /\ CheckPrimed => AudioInv'
<1> SUFFICES ASSUME AudioInv, CheckPrimed PROVE AudioInv'
  OBVIOUS
<1>1. /\ pc = "check" /\ pc' \in {"start", "prime"}
      /\ UNCHANGED <<command, phase, queued, round>> /\ KeepOutput
      /\ pc' = "prime" => Len(ring) < Target /\ round.ticks # MaxPrime
      /\ pc' = "start" => Len(ring) >= Target \/ FlushPending \/ round.ticks = MaxPrime
  <2>1. Len(ring) \in Nat
    BY LenProperties DEF AudioInv, TypeOK
  <2> QED
    BY <2>1, Sizes DEF CheckPrimed, Goto
<1>2. TypeOK'
  BY <1>1 DEF AudioInv, TypeOK, KeepOutput, state, device
<1>3. /\ FlushPending' = FlushPending /\ ~ FlushPending /\ output
      /\ Len(ring) \in Nat /\ round.ticks \in 0 .. MaxPrime
  BY <1>1, LenProperties DEF AudioInv, TypeOK, Priming, KeepOutput, state, FlushPending
<1>4. Priming'
  BY <1>1, <1>3, Sizes DEF AudioInv, Priming, KeepOutput
<1> QED
  BY <1>1, <1>2, <1>4, KeptOutput DEF AudioInv

LEMMA StartPlaybackKeeps == AudioInv /\ StartPlayback => AudioInv'
<1> SUFFICES ASSUME AudioInv, StartPlayback PROVE AudioInv'
  OBVIOUS
<1>1. pc = "start" /\ pc' = "verdict" /\ UNCHANGED <<command, phase, queued, round>>
  BY DEF StartPlayback, Goto
<1>2. CASE output /\ ~ playing /\ ~ FlushPending /\ Len(ring) >= Target
  <2>1. /\ playing' = TRUE /\ paused' = FALSE /\ quiet' = FALSE
        /\ callback' = [callback EXCEPT !.quiet = FALSE]
        /\ UNCHANGED <<output, disabled, flushEpoch, flushedEpoch, usable, ring, observed>>
    BY <1>2 DEF StartPlayback
  <2>2. /\ callback' \in CallbackType /\ callback'.pc = callback.pc
        /\ callback'.epoch = callback.epoch /\ callback'.quiet = FALSE
    BY <2>1 DEF AudioInv, TypeOK, CallbackType
  <2>3. playing' \in BOOLEAN /\ paused' \in BOOLEAN /\ quiet' \in BOOLEAN
    BY <2>1, Zenon
  <2>4. TypeOK'
    BY <1>1, <2>1, <2>2, <2>3 DEF AudioInv, TypeOK, CallbackType
  <2>5. Epochs'
    BY <2>1, <2>2 DEF AudioInv, Epochs, FlushPending, Fresh
  <2>6. Quieted'
    BY <1>1, <2>1, <2>2 DEF Quieted
  <2>7. Priming' /\ NoFalseAlarm'
    BY <1>1, <1>2, <2>1 DEF AudioInv, Priming, NoFalseAlarm, FlushPending
  <2> QED
    BY <2>4, <2>5, <2>6, <2>7 DEF AudioInv
<1>3. CASE ~ (output /\ ~ playing /\ ~ FlushPending /\ Len(ring) >= Target)
  <2>1. KeepOutput
    BY <1>3 DEF StartPlayback
  <2>2. TypeOK'
    BY <1>1, <2>1 DEF AudioInv, TypeOK, KeepOutput, state, device
  <2>3. Priming'
    BY <1>1, <2>1 DEF AudioInv, Priming, KeepOutput, state, FlushPending
  <2> QED
    BY <1>1, <2>1, <2>2, <2>3, KeptOutput DEF AudioInv
<1> QED
  BY <1>2, <1>3

\* A priming whose every tick made sound ends with a longer ring: at the target
\* or after MaxPrime batches, both beyond the low watermark that health was under.
LEMMA OnlySilenceIsGivenUp ==
  ASSUME AudioInv, pc = "verdict", output, ~ playing, round.ticks > 0, Len(ring) = queued
  PROVE  round.mute
<1>1. Len(ring) \in Nat /\ queued \in Nat /\ round.ticks \in Nat
  BY LenProperties, Sizes DEF AudioInv, TypeOK
<1>2. queued < Low /\ (Len(ring) >= Target \/ round.ticks = MaxPrime)
  BY DEF AudioInv, Priming
<1>3. ~ round.mute => round.ticks <= Len(ring)
  BY DEF AudioInv, Priming
<1> QED
  BY <1>1, <1>2, <1>3, Sizes

LEMMA JudgePrimingKeeps == AudioInv /\ JudgePriming => AudioInv'
<1> SUFFICES ASSUME AudioInv, JudgePriming PROVE AudioInv'
  OBVIOUS
<1>1. /\ pc = "verdict" /\ pc' = "receive" /\ round' = NoRound
      /\ UNCHANGED <<command, phase, queued>>
  BY DEF JudgePriming, Goto
<1>2. CASE output /\ ~ playing /\ round.ticks > 0 /\ Len(ring) = queued
  <2>1. DropOutput /\ disabled' = "silent"
    BY <1>1, <1>2, OnlySilenceIsGivenUp DEF JudgePriming, Disable
  <2>2. phase' \in {"Empty", "Paused", "Running", "Error"} /\ command' \in {"none", "pause", "restart"}
    BY <1>1 DEF AudioInv, TypeOK
  <2> QED
    BY <1>1, <2>1, <2>2, DropKeeps
<1>3. CASE ~ (output /\ ~ playing /\ round.ticks > 0 /\ Len(ring) = queued)
  <2>1. KeepOutput
    BY <1>3 DEF JudgePriming
  <2>2. round' \in [ticks : 0 .. MaxPrime, mute : BOOLEAN] /\ round'.ticks = 0
    BY <1>1, Sizes DEF NoRound
  <2>3. TypeOK'
    BY <1>1, <2>1, <2>2 DEF AudioInv, TypeOK, KeepOutput, state, device
  <2>4. Priming'
    BY <1>1, <2>1, <2>2 DEF AudioInv, Priming
  <2> QED
    BY <1>1, <2>1, <2>3, <2>4, KeptOutput DEF AudioInv
<1> QED
  BY <1>2, <1>3

-----------------------------------------------------------------------------
(* The worker's commands.                                                   *)

\* The steps of the commands that leave the output alone.
LEMMA CommandKeeps ==
  ASSUME AudioInv, KeepOutput, UNCHANGED <<queued, round>>,
         pc \in {"receive", "flushed"},
         pc' \in {"loop", "pause", "flushed"},
         pc' = "pause" => output /\ flushEpoch < MaxEpoch,
         phase' \in {"Empty", "Paused", "Running", "Error"},
         command' \in {"none", "pause", "restart"}
  PROVE  AudioInv'
<1>1. round = NoRound /\ round.ticks = 0
  BY DEF AudioInv, Priming, NoRound
<1>2. TypeOK'
  BY DEF AudioInv, TypeOK, KeepOutput, state, device
<1>3. Priming'
  BY <1>1 DEF AudioInv, Priming, KeepOutput, state
<1> QED
  BY <1>2, <1>3, KeptOutput DEF AudioInv

LEMMA ReceiveTimeoutKeeps == AudioInv /\ ReceiveTimeout => AudioInv'
  BY CommandKeeps DEF ReceiveTimeout, Goto, AudioInv, TypeOK

LEMMA HandleStartKeeps == AudioInv /\ HandleStart => AudioInv'
<1> SUFFICES ASSUME AudioInv, HandleStart PROVE AudioInv'
  OBVIOUS
<1>1. phase' \in {"Empty", "Paused", "Running", "Error"} /\ command' \in {"none", "pause", "restart"}
  BY DEF HandleStart, Goto, AudioInv, TypeOK
<1> QED
  BY <1>1, CommandKeeps DEF HandleStart, Goto

LEMMA HandleFlushKeeps ==
  ASSUME AudioInv, NEW op \in {"pause", "restart"}, HandleFlush(op)
  PROVE  AudioInv'
<1>1. /\ pc = "receive" /\ pc' \in {"pause", "flushed"} /\ (pc' = "pause" => output)
      /\ flushEpoch < MaxEpoch /\ command' \in {"none", "pause", "restart"}
      /\ UNCHANGED <<phase, queued, round>> /\ KeepOutput
  BY DEF HandleFlush
<1>2. phase' \in {"Empty", "Paused", "Running", "Error"}
  BY <1>1 DEF AudioInv, TypeOK
<1> QED
  BY <1>1, <1>2, CommandKeeps

LEMMA FinishFlushKeeps == AudioInv /\ FinishFlush => AudioInv'
<1> SUFFICES ASSUME AudioInv, FinishFlush PROVE AudioInv'
  OBVIOUS
<1>1. /\ pc = "flushed" /\ pc' = "loop" /\ command' = "none"
      /\ UNCHANGED <<queued, round>> /\ KeepOutput
  BY DEF FinishFlush
<1>2. phase' \in {"Empty", "Paused", "Running", "Error"}
  BY DEF FinishFlush, Loaded, AudioInv, TypeOK
<1> QED
  BY <1>1, <1>2, CommandKeeps

LEMMA HandleCloseKeeps == AudioInv /\ (HandleClose \/ HandleShutdown) => AudioInv'
<1> SUFFICES ASSUME AudioInv, HandleClose \/ HandleShutdown PROVE AudioInv'
  OBVIOUS
<1>1. /\ pc = "receive" /\ pc' \in {"loop", "stopped"} /\ phase' = "Empty" /\ DropOutput
      /\ UNCHANGED <<command, disabled, queued, round>>
  BY DEF HandleClose, HandleShutdown, Goto
<1>2. /\ round' = NoRound
      /\ disabled' \in {"no", "unavailable", "unusable", "silent"}
      /\ command' \in {"none", "pause", "restart"}
  BY <1>1 DEF AudioInv, TypeOK, Priming, NoFalseAlarm
<1> QED
  BY <1>1, <1>2, DropKeeps

LEMMA HandleOpenRomKeeps == AudioInv /\ HandleOpenRom => AudioInv'
<1> SUFFICES ASSUME AudioInv, HandleOpenRom PROVE AudioInv'
  OBVIOUS
<1>1. /\ pc = "receive" /\ pc' = "loop" /\ FreshQueue /\ playing' = FALSE
      /\ UNCHANGED <<command, queued, round>> /\ TypeOK
  BY DEF HandleOpenRom, Goto, AudioInv
<1>2. /\ disabled' \in {"no", "unavailable", "unusable", "silent"}
      /\ phase' \in {"Paused", "Error"}
  BY DEF HandleOpenRom, AudioInv, TypeOK, NoFalseAlarm
<1>3. output' \in BOOLEAN /\ playing' \in BOOLEAN
  <2>1. output' \in BOOLEAN \/ output' = FALSE
    BY DEF HandleOpenRom
  <2> QED
    BY <1>1, <2>1, Zenon
<1>4. round = NoRound /\ round.ticks = 0
  BY <1>1 DEF AudioInv, Priming, NoRound
<1>5. TypeOK'
  BY <1>1, <1>2, <1>3, FreshQueueIsQuiet DEF TypeOK, CallbackType
<1>6. Epochs' /\ Quieted'
  BY <1>1, FreshQueueIsQuiet
<1>7. Priming' /\ NoFalseAlarm'
  BY <1>1, <1>2, <1>4 DEF Priming, NoFalseAlarm
<1> QED
  BY <1>5, <1>6, <1>7 DEF AudioInv

LEMMA StorePausedKeeps == AudioInv /\ StorePaused => AudioInv'
<1> SUFFICES ASSUME AudioInv, StorePaused PROVE AudioInv'
  OBVIOUS
<1>1. /\ pc = "pause" /\ pc' = "flush" /\ command' = command /\ paused' = TRUE
      /\ UNCHANGED <<phase, output, playing, disabled, queued, round, flushEpoch,
                     flushedEpoch, usable, ring, callback, observed, quiet>>
  BY DEF StorePaused, Goto, runtime, device
<1>2. TypeOK'
  <2>1. paused' \in BOOLEAN
    BY <1>1, Zenon
  <2> QED
    BY <1>1, <2>1 DEF AudioInv, TypeOK
<1>3. Epochs' /\ Quieted'
  BY <1>1 DEF AudioInv, Epochs, Quieted, FlushPending, Fresh
<1>4. Priming' /\ NoFalseAlarm'
  BY <1>1 DEF AudioInv, Priming, NoFalseAlarm, FlushPending
<1> QED
  BY <1>2, <1>3, <1>4 DEF AudioInv

LEMMA BumpFlushEpochKeeps == AudioInv /\ BumpFlushEpoch => AudioInv'
<1> SUFFICES ASSUME AudioInv, BumpFlushEpoch PROVE AudioInv'
  OBVIOUS
<1>1. /\ pc = "flush" /\ pc' = "flushed" /\ command' = command
      /\ flushEpoch' = flushEpoch + 1 /\ playing' = FALSE /\ quiet' = TRUE
      /\ UNCHANGED <<phase, output, disabled, queued, round, paused, flushedEpoch, usable,
                     ring, callback, observed>>
  BY DEF BumpFlushEpoch, Goto, device
<1>2. flushEpoch \in 0 .. MaxEpoch /\ flushEpoch < MaxEpoch /\ flushedEpoch \in 0 .. MaxEpoch
      /\ flushedEpoch <= flushEpoch /\ paused /\ MaxEpoch \in Nat
  BY <1>1, Sizes DEF AudioInv, TypeOK, Priming, Epochs, Quieted
<1>3. flushEpoch' \in 0 .. MaxEpoch /\ FlushPending'
  BY <1>1, <1>2 DEF FlushPending
<1>4. TypeOK'
  <2>1. playing' \in BOOLEAN /\ quiet' \in BOOLEAN
    BY <1>1, Zenon
  <2> QED
    BY <1>1, <1>3, <2>1 DEF AudioInv, TypeOK
<1>5. Epochs'
  BY <1>1, <1>2, <1>3 DEF AudioInv, TypeOK, Epochs
<1>6. Quieted'
  BY <1>1, <1>2, <1>3 DEF AudioInv, Quieted
<1>7. Priming' /\ NoFalseAlarm'
  BY <1>1 DEF AudioInv, Priming, NoFalseAlarm, NoRound
<1> QED
  BY <1>4, <1>5, <1>6, <1>7 DEF AudioInv

-----------------------------------------------------------------------------
\* Every step of the sound keeps the strengthened invariant.
THEOREM AudioInductive == AudioInv /\ [Next]_vars => AudioInv'
<1> SUFFICES ASSUME AudioInv, [Next]_vars PROVE AudioInv'
  OBVIOUS
<1>1. CASE WorkerStep
  BY <1>1, LoadUsableKeeps, DispatchKeeps, PumpKeeps, RunTickKeeps, CheckPrimedKeeps,
     StartPlaybackKeeps, JudgePrimingKeeps, ReceiveTimeoutKeeps, StorePausedKeeps,
     BumpFlushEpochKeeps, FinishFlushKeeps
     DEF WorkerStep
<1>2. CASE CallbackStep
  BY <1>2, LoadFlushEpochKeeps, ClearRingKeeps, StoreFlushedKeeps, LoadPausedKeeps,
     PopSliceKeeps
     DEF CallbackStep
<1>3. CASE \/ DeadlineTick \/ HandleOpenRom \/ HandleStart \/ HandleClose \/ HandleShutdown
           \/ ReportLost \/ \E op \in {"pause", "restart"} : HandleFlush(op)
  BY <1>3, DeadlineTickKeeps, HandleOpenRomKeeps, HandleStartKeeps, HandleCloseKeeps,
     ReportLostKeeps, HandleFlushKeeps
<1>4. CASE UNCHANGED vars
  <2>1. UNCHANGED <<phase, output, playing, disabled, pc, command, queued, round, paused,
                    flushEpoch, flushedEpoch, usable, ring, callback, observed, quiet>>
    BY <1>4 DEF vars, runtime, control, state, device
  <2>2. TypeOK'
    BY <2>1 DEF AudioInv, TypeOK
  <2>3. Epochs' /\ Quieted' /\ Priming' /\ NoFalseAlarm'
    BY <2>1 DEF AudioInv, Epochs, Quieted, Priming, NoFalseAlarm, FlushPending, Fresh
  <2> QED
    BY <2>2, <2>3 DEF AudioInv
<1> QED
  BY <1>1, <1>2, <1>3, <1>4 DEF Next

\* What the ring holds and what a callback sounds, under the invariant.
LEMMA SoundIsSeparated == AudioInv => FlushSeparatesSound
<1> SUFFICES ASSUME AudioInv PROVE FlushSeparatesSound
  OBVIOUS
<1>1. callback.pc = "clear" => Stale
  <2> SUFFICES ASSUME callback.pc = "clear", NEW i \in 1 .. Len(ring)
               PROVE  ring[i] # flushEpoch
    BY DEF Stale
  <2>1. ring \in Seq(0 .. MaxEpoch)
    BY DEF AudioInv, TypeOK
  <2>2. ring[i] \in 0 .. MaxEpoch
    BY <2>1, ElementOfSeq
  <2> QED
    BY <2>2 DEF AudioInv, TypeOK, Epochs
<1> QED
  BY <1>1 DEF AudioInv, Epochs, Quieted, FlushSeparatesSound

\* The queue's atomics, the ring and the worker's bookkeeping stay in range: above
\* all, the ring never outgrows its capacity and no priming exceeds MAX_PRIME_BATCHES.
THEOREM AudioTypeCorrect == Spec => []TypeOK
<1>1. AudioInv => TypeOK
  BY DEF AudioInv
<1> QED
  BY StartsSound, AudioInductive, <1>1, PTL DEF Spec

\* pause_and_flush and fill_output: a flush separates the sound before it from
\* the sound after it, for every interleaving of their loads and stores.
THEOREM FlushSeparates == Spec => []FlushSeparatesSound
  BY StartsSound, AudioInductive, SoundIsSeparated, PTL DEF Spec

\* enqueue and pump_audio_runtime: the worker never offers a batch that its own
\* queue refuses, and never takes what the device does for a silent core.
THEOREM NoFalseAlarms == Spec => []NoFalseAlarm
<1>1. AudioInv => NoFalseAlarm
  BY DEF AudioInv
<1> QED
  BY StartsSound, AudioInductive, <1>1, PTL DEF Spec
=============================================================================
