------------------------------ MODULE AudioPump ------------------------------
(***************************************************************************)
(* The sound of the desktop: the emulator worker, which runs the core to   *)
(* fill a ring buffer, and the device's callback, which empties it.        *)
(* audio/queue.rs, audio/policy.rs, and RuntimeAudio, pump_audio_runtime   *)
(* and the audio part of run_worker and handle_command in                  *)
(* emulator/runtime.rs.                                                    *)
(*                                                                         *)
(* The two sides share atomics only: every load and store that the other   *)
(* side can notice is a step.  A sample is represented by the flush epoch  *)
(* in which it was queued, and a unit of the ring is the sound of one      *)
(* batch at most.  Gain and telemetry counters are left out.               *)
(***************************************************************************)
EXTENDS Naturals, Sequences

CONSTANTS
  Low, Target, Capacity,  \* AudioWatermarks; high changes no decision
  Batch,       \* amounts of sound that the core makes in one tick
  Chunk,       \* amounts of sound that the device asks for
  MaxPrime,    \* MAX_PRIME_BATCHES
  MaxEpoch     \* bound: flushes of one output

ASSUME WatermarkAssumption ==
  /\ {Low, Target, Capacity, MaxPrime, MaxEpoch} \subseteq Nat
  /\ 0 < Low /\ Low < Target /\ Target < Capacity
ASSUME BatchAssumption ==
  /\ Batch \subseteq Nat /\ Chunk \subseteq Nat \ {0}
  /\ \A frames \in Batch : Target + frames <= Capacity
\* Four batches of 17 ms last longer than the low watermark of 40 ms.
ASSUME PrimingAssumption == Low <= MaxPrime

VARIABLES
  phase,        \* RuntimeModel.snapshot.phase
  output,       \* RuntimeAudio.output is there
  playing,      \* RuntimeAudio.playing
  disabled,     \* the kind of RuntimeAudio.disabled_reason
  pc,           \* where the worker stands
  command,      \* the pause or restart that flushes the output
  queued,       \* the length of the ring that health read first
  round,        \* the priming in progress
  paused,       \* QueueState.paused
  flushEpoch,   \* QueueState.flush_epoch
  flushedEpoch, \* QueueState.flushed_epoch
  usable,       \* QueueState.usable
  ring,         \* the ring buffer
  callback,     \* where the device's callback stands
  observed,     \* AudioQueueConsumer.observed_epoch
  quiet         \* pause_and_flush returned, and play was not called since

runtime == <<phase, output, playing, disabled>>
control == <<pc, command, queued, round>>
state   == <<paused, flushEpoch, flushedEpoch, usable>>
device  == <<callback, observed>>
vars == <<runtime, control, state, ring, device, quiet>>

Asleep == [pc |-> "idle", epoch |-> 0, quiet |-> FALSE]
\* Its ticks, and whether one of them made no sound.
NoRound == [ticks |-> 0, mute |-> FALSE]

Init ==
  /\ phase = "Empty"
  /\ output = FALSE
  /\ playing = FALSE
  /\ disabled \in {"no", "unavailable"}
  /\ pc = "loop"
  /\ command = "none"
  /\ queued = 0
  /\ round = NoRound
  /\ paused = TRUE
  /\ flushEpoch = 0
  /\ flushedEpoch = 0
  /\ usable = TRUE
  /\ ring = <<>>
  /\ callback = Asleep
  /\ observed = 0
  /\ quiet = TRUE

FlushPending == flushEpoch # flushedEpoch

-----------------------------------------------------------------------------
(* The device: fill_output, step by step, and the stream's error callback. *)

LoadFlushEpoch ==
  /\ output /\ callback.pc = "idle"
  /\ callback' = [pc    |-> IF flushEpoch # observed THEN "clear" ELSE "paused",
                  epoch |-> flushEpoch,
                  quiet |-> quiet]
  /\ UNCHANGED <<runtime, control, state, ring, observed, quiet>>

\* Mutant: the ring keeps what it holds.
KeepRing ==
  /\ callback.pc = "clear"
  /\ observed' = callback.epoch
  /\ callback' = [callback EXCEPT !.pc = "flushed"]
  /\ UNCHANGED <<runtime, control, state, ring, quiet>>

ClearRing ==
  /\ callback.pc = "clear"
  /\ ring' = <<>>
  /\ observed' = callback.epoch
  /\ callback' = [callback EXCEPT !.pc = "flushed"]
  /\ UNCHANGED <<runtime, control, state, quiet>>

\* Mutant: flushes are counted one by one.
CountFlushed ==
  /\ callback.pc = "flushed"
  /\ flushedEpoch' = flushedEpoch + 1
  /\ callback' = [callback EXCEPT !.pc = "paused"]
  /\ UNCHANGED <<runtime, control, paused, flushEpoch, usable, ring, observed, quiet>>

StoreFlushed ==
  /\ callback.pc = "flushed"
  /\ flushedEpoch' = callback.epoch
  /\ callback' = [callback EXCEPT !.pc = "paused"]
  /\ UNCHANGED <<runtime, control, paused, flushEpoch, usable, ring, observed, quiet>>

LoadPaused ==
  /\ callback.pc = "paused"
  /\ callback' = IF paused THEN Asleep ELSE [callback EXCEPT !.pc = "pop"]
  /\ UNCHANGED <<runtime, control, state, ring, observed, quiet>>

\* An empty ring is an underrun: the rest of the output is silence.
PopSlice ==
  /\ callback.pc = "pop"
  /\ \E frames \in Chunk :
       ring' = SubSeq(ring, 1 + (IF frames < Len(ring) THEN frames ELSE Len(ring)),
                      Len(ring))
  /\ callback' = Asleep
  /\ UNCHANGED <<runtime, control, state, observed, quiet>>

\* AudioQueueErrorReporter::report of a device that is gone.
ReportLost ==
  /\ output /\ usable
  /\ usable' = FALSE
  /\ UNCHANGED <<runtime, control, paused, flushEpoch, flushedEpoch, ring, device, quiet>>

-----------------------------------------------------------------------------
(* The output as the worker uses it.                                       *)

\* shutdown_output stops the stream and drops it: no callback is left, and
\* the next output comes with a queue of its own.
FreshQueue ==
  /\ paused' = TRUE
  /\ flushEpoch' = 0
  /\ flushedEpoch' = 0
  /\ usable' = TRUE
  /\ ring' = <<>>
  /\ callback' = Asleep
  /\ observed' = 0
  /\ quiet' = TRUE

DropOutput == FreshQueue /\ output' = FALSE /\ playing' = FALSE
Disable(reason) == DropOutput /\ disabled' = reason

KeepOutput == UNCHANGED <<output, playing, disabled, state, ring, device, quiet>>

-----------------------------------------------------------------------------
(* The worker's loop.                                                      *)

Goto(here, there) == pc = here /\ pc' = there /\ UNCHANGED command

\* disable_if_unusable
LoadUsable ==
  /\ Goto("loop", "dispatch")
  /\ IF output /\ ~ usable THEN Disable("unusable") ELSE KeepOutput
  /\ UNCHANGED <<phase, queued, round>>

\* With an output the pump runs, and health reads the length of the ring;
\* without one the core runs at frame deadlines, and now is not one.
Dispatch ==
  /\ Goto("dispatch", IF output /\ phase = "Running" THEN "pump" ELSE "receive")
  /\ queued' = Len(ring)
  /\ UNCHANGED <<phase, round>>
  /\ KeepOutput

DeadlineTick ==
  /\ ~ output /\ phase = "Running"
  /\ Goto("dispatch", "loop")
  /\ phase' \in {"Running", "Error"}
  /\ UNCHANGED <<queued, round>>
  /\ KeepOutput

Decision == IF ~ usable THEN "receive"
            ELSE IF queued < Low THEN "prime"
            ELSE IF queued <= Target THEN "single"
            ELSE "start"

\* Mutant: the pump does not look at flush_pending.
PumpAtOnce ==
  /\ Goto("pump", Decision)
  /\ UNCHANGED <<phase, queued, round>>
  /\ KeepOutput

\* pacing_decision, with what health read.
Pump ==
  /\ Goto("pump", IF FlushPending THEN "receive" ELSE Decision)
  /\ UNCHANGED <<phase, queued, round>>
  /\ KeepOutput

\* enqueue takes a batch whole or refuses it, which disables the output.
Refuses(frames) == frames > 0 /\ (FlushPending \/ Capacity - Len(ring) < frames)

Enqueue(frames) ==
  IF Refuses(frames)
    THEN Disable("refused")
    ELSE /\ ring' = ring \o [i \in 1 .. frames |-> flushEpoch]
         /\ UNCHANGED <<output, playing, disabled, state, device, quiet>>

\* run_tick; a core that fails takes the output with it, and its last batch.
RunTick ==
  /\ pc \in {"prime", "single"}
  /\ \/ /\ Goto(pc, "start")
        /\ phase' = "Error"
        /\ \E frames \in Batch :
             IF Refuses(frames) THEN Disable("refused")
                                ELSE DropOutput /\ UNCHANGED disabled
        /\ UNCHANGED round
     \/ \E frames \in Batch :
          /\ Enqueue(frames)
          /\ Goto(pc, IF pc = "prime" /\ output' THEN "check" ELSE "start")
          /\ round' = IF pc = "single" THEN round
                      ELSE [ticks |-> round.ticks + 1,
                            mute  |-> round.mute \/ frames = 0]
          /\ UNCHANGED phase
  /\ UNCHANGED queued

CheckPrimed ==
  /\ Goto("check", IF \/ Len(ring) >= Target
                      \/ FlushPending
                      \/ round.ticks = MaxPrime
                     THEN "start" ELSE "prime")
  /\ UNCHANGED <<phase, queued, round>>
  /\ KeepOutput

\* start_playback_if_primed; a callback that already runs may now be heard.
StartPlayback ==
  /\ Goto("start", "verdict")
  /\ IF output /\ ~ playing /\ ~ FlushPending /\ Len(ring) >= Target
       THEN /\ playing' = TRUE
            /\ paused' = FALSE
            /\ quiet' = FALSE
            /\ callback' = [callback EXCEPT !.quiet = FALSE]
            /\ UNCHANGED <<output, disabled, flushEpoch, flushedEpoch, usable,
                           ring, observed>>
       ELSE KeepOutput
  /\ UNCHANGED <<phase, queued, round>>

\* A priming that left the ring as long as it was gives the output up.
JudgePriming ==
  /\ Goto("verdict", "receive")
  /\ round' = NoRound
  /\ IF output /\ ~ playing /\ round.ticks > 0 /\ Len(ring) = queued
       THEN Disable(IF round.mute THEN "silent" ELSE "stolen")
       ELSE KeepOutput
  /\ UNCHANGED <<phase, queued>>

ReceiveTimeout ==
  /\ Goto("receive", "loop")
  /\ UNCHANGED <<phase, queued, round>>
  /\ KeepOutput

-----------------------------------------------------------------------------
(* The worker's commands.                                                  *)

\* A core that failed keeps its ROM, but is not loaded.
Loaded == phase \in {"Paused", "Running"}

\* The old output goes; the ROM gets a new one, or none that can be used.
HandleOpenRom ==
  /\ Goto("receive", "loop")
  /\ FreshQueue
  /\ playing' = FALSE
  /\ \/ /\ phase' = "Paused"
        /\ output' \in BOOLEAN
        /\ disabled' = IF output' THEN "no" ELSE "unavailable"
     \/ /\ phase' = "Error"
        /\ output' = FALSE
        /\ disabled' \in {disabled, "no", "unavailable"}
  /\ UNCHANGED <<queued, round>>

HandleStart ==
  /\ Goto("receive", "loop")
  /\ phase' = IF Loaded THEN "Running" ELSE phase
  /\ UNCHANGED <<queued, round>>
  /\ KeepOutput

HandleClose ==
  /\ Goto("receive", "loop")
  /\ phase' = "Empty"
  /\ DropOutput
  /\ UNCHANGED <<disabled, queued, round>>

HandleShutdown ==
  /\ Goto("receive", "stopped")
  /\ phase' = "Empty"
  /\ DropOutput
  /\ UNCHANGED <<disabled, queued, round>>

\* Pause and Restart flush the output first, whatever the phase.
HandleFlush(op) ==
  /\ pc = "receive"
  /\ flushEpoch < MaxEpoch
  /\ pc' = IF output THEN "pause" ELSE "flushed"
  /\ command' = op
  /\ UNCHANGED <<phase, queued, round>>
  /\ KeepOutput

\* pause_and_flush is two stores; the callback may run between them.
StorePaused ==
  /\ Goto("pause", "flush")
  /\ paused' = TRUE
  /\ UNCHANGED <<runtime, queued, round, flushEpoch, flushedEpoch, usable, ring,
                 device, quiet>>

BumpFlushEpoch ==
  /\ Goto("flush", "flushed")
  /\ flushEpoch' = flushEpoch + 1
  /\ playing' = FALSE
  /\ quiet' = TRUE
  /\ UNCHANGED <<phase, output, disabled, queued, round, paused, flushedEpoch, usable,
                 ring, device>>

\* The phase follows; a reset that fails leaves it.
FinishFlush ==
  /\ pc = "flushed" /\ pc' = "loop"
  /\ command' = "none"
  /\ \/ ~ Loaded /\ UNCHANGED phase
     \/ Loaded /\ command = "pause" /\ phase' = "Paused"
     \/ Loaded /\ command = "restart" /\ phase' \in {"Running", phase}
  /\ UNCHANGED <<queued, round>>
  /\ KeepOutput

-----------------------------------------------------------------------------
WorkerStep ==
  \/ LoadUsable
  \/ Dispatch
  \/ Pump
  \/ RunTick
  \/ CheckPrimed
  \/ StartPlayback
  \/ JudgePriming
  \/ ReceiveTimeout
  \/ StorePaused
  \/ BumpFlushEpoch
  \/ FinishFlush

CallbackStep ==
  \/ LoadFlushEpoch
  \/ ClearRing
  \/ StoreFlushed
  \/ LoadPaused
  \/ PopSlice

Next ==
  \/ WorkerStep
  \/ DeadlineTick
  \/ HandleOpenRom
  \/ HandleStart
  \/ \E op \in {"pause", "restart"} : HandleFlush(op)
  \/ HandleClose
  \/ HandleShutdown
  \/ CallbackStep
  \/ ReportLost

\* The worker's waits are all timed and its frame deadlines pass; the device
\* keeps calling back.
Fairness ==
  /\ WF_vars(WorkerStep)
  /\ SF_vars(DeadlineTick)
  /\ WF_vars(CallbackStep)

Spec == Init /\ [][Next]_vars
FairSpec == Spec /\ Fairness

-----------------------------------------------------------------------------
(* Properties.                                                             *)

\* The values each variable ranges over.
TypeOK ==
  /\ phase \in {"Empty", "Paused", "Running", "Error"}
  /\ output \in BOOLEAN
  /\ playing \in BOOLEAN
  /\ disabled \in {"no", "unavailable", "unusable", "refused", "silent", "stolen"}
  /\ pc \in {"loop", "dispatch", "pump", "prime", "single", "check", "start", "verdict",
             "receive", "pause", "flush", "flushed", "stopped"}
  /\ command \in {"none", "pause", "restart"}
  /\ queued \in 0 .. Capacity
  /\ round \in [ticks : 0 .. MaxPrime, mute : BOOLEAN]
  /\ paused \in BOOLEAN
  /\ flushEpoch \in 0 .. MaxEpoch
  /\ flushedEpoch \in 0 .. MaxEpoch
  /\ usable \in BOOLEAN
  /\ ring \in Seq(0 .. MaxEpoch) /\ Len(ring) <= Capacity
  /\ callback \in [pc    : {"idle", "clear", "flushed", "paused", "pop"},
                   epoch : 0 .. MaxEpoch,
                   quiet : BOOLEAN]
  /\ observed \in 0 .. MaxEpoch
  /\ quiet \in BOOLEAN

Fresh == \A i \in 1 .. Len(ring) : ring[i] = flushEpoch
Stale == \A i \in 1 .. Len(ring) : ring[i] # flushEpoch

\* A flush separates the sound before it from the sound after it, however the
\* worker's stores and the callback's loads interleave: once it is over the
\* ring holds none of the old sound, what it clears is never new, and once
\* pause_and_flush has returned a callback that begins is silent until play.
FlushSeparatesSound ==
  /\ ~ FlushPending => Fresh
  /\ callback.pc = "clear" => Stale
  /\ callback.pc = "pop" => ~ callback.quiet

\* The sound is given up only if the device is lost or the core makes none: the
\* worker never offers a batch that its own queue refuses, and never takes
\* what the device does to the ring for a silent core.
NoFalseAlarm == disabled \notin {"refused", "stolen"}

\* The game never stands still for the sound's sake: while it runs the core is
\* run again and again, with a full ring, with a flush pending, with a device
\* that was lost, and without one.
GameKeepsRunning ==
  \/ []<>(phase # "Running")
  \/ []<><<RunTick \/ DeadlineTick>>_vars
=============================================================================
