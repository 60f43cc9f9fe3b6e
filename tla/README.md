# Pockiva: TLA+ models, checks and proofs

Pockiva is a Game Boy emulator for the desktop (Tauri: a Rust process and a React page) that a phone on the same network can play: the desktop shows a QR code, the phone opens the page behind it and becomes the controller.
This directory models the parts of it in which order matters: threads, tasks, callbacks and messages that meet in small pieces of shared state, and the emulator core, in which devices that are clocked together keep copies of each other's state.
TLC checks the models on small instances; TLAPS proves the theorems of the `...Proofs` modules for every instance.

Paths below are relative to the repository; `runtime.rs`, `manager.rs`, `video/` and `audio/` are under `apps/desktop/src-tauri/src/`, `server.rs` and `session.rs` under `crates/gb-network/src/`, and `cpu/`, `bus/`, `ppu/`, `apu/`, `cartridge/`, `timer.rs` and `machine.rs` under `crates/gb-core/src/`.

## 1. The system

### Components, their state and how they meet

| Component | State | Operations | Meets |
|---|---|---|---|
| Emulator runtime (`emulator/runtime.rs`) | one worker thread owning the core, the phase, the remote inputs, the frame slots and the audio output; one bounded command channel (32); `ControllerGenerations` under a mutex and an atomic | commands with a reply channel each; remote events; ticks | page (commands, events, frames), session manager (remote events), audio callback |
| Session manager (`remote/manager.rs`) | three mutexes, taken one at a time: model, delivery, lifecycle (with a condition variable) | `start`, `end`, `subscribe`, `snapshot`; the event sink | page, controller server, runtime |
| Controller server (`server.rs`, `session.rs`) | atomics for the seat, the token and the socket count; a watch channel; a `Notify`; a session machine per socket | upgrade, hello, messages, cleanup, shutdown | phones, session manager (sink, shutdown) |
| Phone session (`apps/remote-controller/.../controller-session.ts`) | status, wanted buttons, connection generation, three timers | `connect`, `disconnect`, `setActive`, `setButton`; socket events; timers | server, page of the phone |
| Video delivery (`video/queue.rs`, `FrameCanvas.tsx`) | one frame in flight, one pending; the page's latest frame | offer, acknowledge, clear; draw | worker, page |
| Audio output (`audio/`) | a lock-free ring, flush epochs, `paused`, `usable` | enqueue, play, pause and flush, health; the device callback | worker, audio device |
| Core: CPU and interrupts (`cpu/`, `interrupts.rs`, `machine.rs`) | registers, IME and its delay, mode, the halt bug, IE and IF | `step`, `run_cycles`, `load_rom`, `reset` | worker; the bus, M-cycle by M-cycle |
| Core: bus, DMA, joypad (`bus/`, `joypad.rs`) | the transfer, the joypad's rows and two input sources, the divider that the sound keeps | clocked reads and writes, `tick_m_cycle`, `set_joypad` | every device |
| Core: timer (`timer.rs`) | divider, TIMA, TMA, TAC, a pending reload | a tick per T-cycle, register writes | bus, interrupts |
| Core: picture (`ppu/`) | mode, dot, line, LY, STAT line, the picture being drawn | a tick per dot, LCDC, STAT and LYC writes, memory access | bus, interrupts, frames |
| Core: sound (`apu/`) | power, frame sequencer, per channel: DAC, length, sweep, pitch | clocks of the sequencer, register writes | bus, audio output |
| Core: cartridges (`cartridge/`) | bank registers, memory, the clock of the MBC3 | bank selection, access, `save`, `load` | bus, the host's time |
| Desktop page, phone page, updater, settings, scripts | React state and small stores | hooks and components | commands above |

### What is hard

- A remote event is given up by its caller after a time, but its command stays queued; the channel can be full just when a controller leaves. Buttons that stay pressed for ever are the failure to fear. The code's answer is a number, `cancelled_through`, that the worker drains before and after it receives.
- The session manager takes three locks one after the other, so anything can come between a check and the update it justifies.
- The server's shutdown races sockets that subscribe, authenticate and finish; it is joined, so what it forgets hangs the exit of the program.
- Frame numbers start again with each game while acknowledgements of the last game are still on their way.
- The audio callback and the worker share nothing but atomics, and a flush is two stores.
- The phone's timers, socket events and page visibility come in any order.
- The core is one thread, but its devices advance together with every M-cycle of every instruction. Some registers are written before that cycle and some after it; a step's length is predicted before the step; the sound, the STAT line and the joypad's lines are copies that every change of the original has to reach.

`PROJECT.json` lists each hazard at its line, with the properties that cover it.

## 2. Modules

| Module | Models | Actions |
|---|---|---|
| `RemotePad` | what the player is promised: the game's remote buttons belong to one connection at a time and are released with it | abstract |
| `RemoteInput` | `ControllerGenerations`, `apply_controller_event` of the handle and of the worker, the command channel, the worker's loop and every command as far as it touches input | publisher: `PublishX`, `SendCommand`, `SendFails`, `ResponseTimeout`, `Return`; worker: `WorkerDrain`, `WorkerReceive`, `HandleX`, one per command |
| `RemoteSession` | `manager.rs`: one step per critical section or outward call | callers: `Start`, `End`, `Subscribe`, `SignalServer` to `Complete`; sockets: `Knock`, `ClaimSeat`, `CheckPhase` to `FailSession` |
| `ControllerFeed` | what the server promises its sink: one controller at a time, each taken back once before the next | abstract |
| `ControllerServer` | `handle_socket` and `run_server_thread`: one step per access to shared state | socket: `Upgrade` to `FinishTask`, `NotifyServer`; thread: `ReceiveRequest` to `Await` |
| `ControllerClient` | `ControllerSession` over connections that can be cut, and the server's sockets as a phone sees them | user, timers, socket events, server steps |
| `FrameDelivery` | the two slots, the worker's commands that touch them, the page that draws and acknowledges | `Tick`, `HandleX`, `ReceiveFrame`, `Draw`, `Reload` |
| `AudioPump` | `fill_output` load by load; `RuntimeAudio` and `pump_audio_runtime` health read by health read | callback: `LoadFlushEpoch` to `PopSlice`; worker: `LoadUsable` to `ReceiveTimeout`, the commands |
| `Machine` | `machine.rs`, `cpu/`, `bus/`: a step of the CPU, its accesses in order and the M-cycle of each; DMA; the budget's prediction | `LoadRom`, `Reset`, `SetInput`, `ClearInputSource`, `RunCycles` |
| `Instructions`, `Interrupts`, `Timer`, `Joypad` | the shape of every instruction (accesses, jumps, cycles), IE and IF, `timer.rs` T-cycle by T-cycle, the joypad's lines; operators that `Machine` is built from | pure |
| `Arithmetic` | the ALU, DAA, rotations, words of two registers, with an accumulator that a program adds to and subtracts from | one per operation |
| `Ppu` | modes, LY, STAT line, screen switch, frames, access to the two memories, dot by dot | ticks and register writes |
| `Scanline` | `render.rs` and `sprite.rs`: which tile, sprite and priority a pixel has, and what the sprites cost in dots | pure |
| `Apu` | power, frame sequencer, lengths, DACs, triggers, sweep | sequencer clocks, register writes |
| `Cartridge` | headers, capacities, the four mappers, memory, the clock, saving and loading | writes, time, save, load, reset |
| `RemoteInputProofs`, `ControllerServerProofs`, `RemoteSessionProofs`, `ControllerClientProofs`, `AudioPumpProofs`, `FrameDeliveryProofs`, `MachineProofs` | theorems on the module of that name, the last with those on the modules that `Machine` is built from and on `Arithmetic` | |
| `DeviceProofs` | theorems on `Apu`, `Ppu`, `Scanline` and `Cartridge` | |
| `MC...` | instances for TLC; `MCCore` puts the units of the core side by side | |

`RemoteInput`, `FrameDelivery` and `AudioPump` are three views of the same worker thread. They share the phase and the commands and nothing else: input never decides about frames or sound, and each module keeps the full set of commands that its own state depends on. `RemoteSession` contains the server as far as the manager can see it (`status`, `knock`, `socket`), `ControllerServer` contains the manager as the sink it publishes to, and `ControllerClient` reduces the server to what one phone can tell.

In the core, `Machine` composes the CPU, the bus, the timer, DMA, interrupts and the joypad: they act on each other within an instruction. The picture, the sound and the cartridge reach the CPU only through interrupts (inputs of a step of `Machine`) and the values of reads (inputs as well), so each has a module of its own. What an instruction reads is an input: the next program bytes, the regions they lie in (memory that keeps them, the high memory, IE, or a device, with what it shows in their place an M-cycle later), the flags a condition finds, the values it stores. That makes one model of every program. `MCCore` puts the units side by side and explores one at a time, named by its variable `unit`; the others stay as they started (the cartridge, when it is not the one explored, at time 1 and on one board). The pixel lines and the decoder have no state: `RowsAreSound` and `InstructionsFitTheDecoder` are assumptions that TLC evaluates, over registers and sprites at the edges of the screen and over every opcode.

In every module the names of variables and actions are those of the code where TLA+ allows; a comment at each variable names the field it stands for. Definitions under a `Mutant:` comment are deliberate bugs; nothing uses them, and each one shows that some property notices when the code it changes is wrong.

### What the models leave out, and why it does not matter

- *Mutex poisoning*: every poisoned lock turns into an error or a no-op; no panicking path is known that could poison one.
- *Latency values, gain, telemetry, wording of errors*: they decide nothing.
- *Concurrent callers of the manager*: Tauri runs these commands on one thread today, but `manager.rs` is written and tested for several; the model has two or three.
- *Time*: a timeout may pass whenever what it waits for is not there. This allows more than the clock does.
- *A server thread that panics* (`RemoteSession`): its socket tasks vanish at an `await`, without a `Disconnected`.
- *`WebSocket.send` that throws, a constructor that throws* (`ControllerClient`): both need a malformed URL or a socket that is not open yet, and the session sends only after `open`.
- *The rate limiter*: a frame it refuses is a rejected frame in `ControllerServer`; `ControllerClient` leaves it out. It leaves out as well a sink that fails, after which the server closes with 1011 (`server.rs:461-465`, `534-537`): for the phone that is a cut connection, which `ControllerServer` models from the server's side.
- *The contents of memory and most register values* (`Machine`): what is read is an input. A read that the model allows and no memory gives is a program that does not exist; the properties hold for it as well.
- *Envelopes, waveforms, mixing* (`Apu`): floating point, and none of it decides whether a channel plays.
- *Palettes, and the rules under which the CPU writes picture memory* (`Ppu`, `Scanline`): look-ups, and rules of their own: a write gets through where a read does, and besides at the dot at which mode 2 ends and, for the sprite memory, in the first 4 dots of a line (`ppu/mod.rs:276-282`, `303-309`). Nothing that is checked depends on them.
- *The latched copy of the cartridge's clock*: it is only read.

## 3. What is checked

| Run | Instance | Shows |
|---|---|---|
| `remote_input` | 2 identifiers, 1 button, channel of 1, generations up to 2 | `RetainedMatchesCore`: core and retained snapshot agree. `LiveControllerReachesGame`: an open session with nothing under way has exactly its buttons in the game. `AnsweredDisconnectIsComplete`: a disconnect answered "done" left nothing. `PadSpec`: all of it implements `RemotePad`. `ClosingReleasesGame`: whatever times out, a closing connection leaves the game. |
| `remote_session` | 2 callers, 2 observers, 2 identifiers, 4 operations, 6 revisions | A playing phone is on the URL shown (`OpenSocketIsShown`); between operations the phase tells the truth (`IdlePhaseIsTrue`); one listener at a time, and a successful `end` left nothing (`EndedSessionIsOver`); the last snapshot is the one seen (`ObserverConverges`). |
| `remote_session_live` | 3 callers, 3 operations | `CallsReturn`: no caller waits for ever. |
| `frame_delivery` | 2 games of 2 frames, 2 pages, 2 requests | `SlotsFollowTheGame`: slots hold pictures of the running game, and in the first game one is unacknowledged at most. `PictureMovesForward`: no picture again, none backwards. `SlotIsReleased`: a frame in flight is released. |
| `frame_stale_ack` | 2 games, 1 page | a violation, see below. |
| `controller_server` | 3 sockets | `SeatIsExclusive`; a seated socket hears the shutdown (`SeatedSocketListens`); `ExitedServerIsQuiet`; `FeedSpec`: it implements `ControllerFeed`; `ShutdownReturns`. |
| `controller_client` | 3 connections, 1 retry, sequences modulo 3 | `OneConnection`; recovery and heartbeat never forgotten (`RecoveryIsPending`); sequence numbers as the server expects them (`NeverOutOfSequence`); the game gets the buttons the phone shows (`ButtonsAgree`); an explicit disconnect is final (`StaysDisconnected`); attempts end and held buttons are released (`SessionSettles`). |
| `controller_client_recovery` | 3 connections, 2 retries | a violation, see below. |
| `audio_pump` | watermarks 2 and 5 of 9, 3 flushes | `FlushSeparatesSound`: no sound of before a flush after it. `NoFalseAlarm`: the worker never gives up a sound that works. `GameKeepsRunning`: the game never waits for the sound for ever. |
| `core`, machine | 4 small games, timer of 5 bits with a counter modulo 3, DMA of 3 bytes, joypad of 2 by 2 | `DividersAgree`: timer and sound clock keep step. `BudgetIsExact`: a step takes the cycles that were predicted, unless the second byte of a prefixed instruction may change between the peek and the fetch, and then 8 more or less at most. `JoypadShowsInputs`: the register shows both sources, from the load on. `DmaIsExclusive`: no write gets through to what a transfer copied. `HaltedTimerWakes`: a running timer requests the interrupt that ends HALT within the cycles of its full count. |
| `core`, picture | 4 lines of 40 dots, 2 visible | `StatLineIsCurrent`: the kept line is what its sources say. `FrameIsComplete`: a published picture has every visible line, drawn since the frame before. `ModeLocksMemory`: the memories, whose locks are computed from the dots, are locked while the mode that the game reads says so. |
| `core`, sound | 4 channels, lengths of 2 and 3, pitches of 2 bits | `ChannelsAreSound`: what plays can be stopped and has a pitch in range. |
| `core`, cartridge | 5 boards with every mapper, days of 2 seconds, 2-day counter, host time to 5 | `BanksAreReachable`: of any size a header may declare every bank can be selected. `SaveRestores`: a save is one that the cartridge accepts, and what is loaded from it at any later time goes on as the saved one would have. `ClockKeepsTime`: whatever is latched, saved, loaded and reset, also after the host's clock was set back, the clock shows at every later time what it would have shown. |
| `core`, arithmetic | operands at nibble, sign and decimal edges | `ArithmeticIsExact`: decimal adjustment gives decimal sums; words and bits agree with bytes. |
| `core`, assumptions | registers at the edges of the screen; every opcode | `RowsAreSound`, `InstructionsFitTheDecoder`. |
| `machine_budget` | code at the end of the address space | a violation, see below. |
| `ppu_stat` | as `core`, picture | a violation, see below. |

### Why the bounds are enough

- *Channel of 1* (`RemoteInput`): full whenever one command waits, so every order of "full", "timed out but queued" and "overtaken" happens; longer channels add commands of the same kinds in between. Generations up to 2 give a stale command of controller 1 while controller 2 plays, and the overflow of the counter at the third.
- *Three sockets* (`ControllerServer`): one seated, one past the token check, one arriving during shutdown. The races are pairwise.
- *Two games, two pages* (`FrameDelivery`): a stale acknowledgement needs one boundary.
- *Ring in units of a batch* (`AudioPump`): 40, 80 and 160 ms at about 17 ms a batch are 2, 5 and 9 batches, independent of the sample rate; a tick makes one batch or none, and the device takes less or more than one.
- *Sequences modulo 3, three connections* (`ControllerClient`): the wrap is met at once and from any message; one connection can be lost, another refused, and a third follow.
- `MaxEpoch`, `MaxRevision` (`RemoteSession`) count calls and updates that begin; the epoch bound keeps room for calls that wait already (`EpochLeft`).
- *Timer of 32 T-cycles, TIMA modulo 3* (`Timer`): two of the four selected bits are kept, of weight 16 and 8, one falling every 32 and one every 16 T-cycles, so that an edge falls in any M-cycle of an instruction; the reload takes its real four T-cycles. *DMA of 3 bytes*: a first, a middle and a last one.
- *One game per device* (`MCMachine`): each has the instructions and stores that concern it, and instructions of one to six M-cycles around them; `interrupts` requests VBlank in any of the first M-cycles of a step, and has a prefixed instruction whose first or second byte lies in a device that shows another one an M-cycle later.
- *4 lines of 40 dots* (`Ppu`): a first, a last visible, a VBlank and a last line; each mode is longer than one M-cycle, and lines with and without the extra dots of scrolling and sprites meet every boundary.
- *Lengths of 2 and 3, sweep of one bit* (`Apu`): the counter meets its full value, its last and zero next to each clock of the sequencer. The theorems of section 4 do not depend on them.
- *Days of 2 seconds* (`Cartridge`): the carry of the day counter is reached within the time bound. Sizes are the real ones of the headers that are accepted.

Runs that say `CHECK_DEADLOCK FALSE` are those in which the system really stops (the server thread exits, the worker shuts down) or comes to the end of a bound on connections.

### Fairness and why the code justifies it

- *Worker* (all runtime modules): `recv_timeout` always has a timeout, so the loop goes on by itself: weak fairness of its steps. Core runs end after a fixed cycle budget.
- *Publisher calls*: each wait in `apply_controller_event` has a deadline. A socket task that leaves its loop always runs `cleanup_connection`.
- *Server*: weak fairness of each task (tokio), strong fairness of hearing the shutdown, because `select!` polls its branches in random order and a busy phone could otherwise win for ever. Assumed: a send to a phone ends, and `axum::serve` returns after its graceful shutdown.
- *Page*: a visible page drains its channel and runs animation frames. Nothing makes the user act.
- *Audio*: the device calls back; frame deadlines pass each time they are waited for (strong fairness of `DeadlineTick`). A device that stops calling back *without* reporting an error while a flush is pending does stop the game: that is outside the assumption and listed as a hazard.
- *Phone*: timers fire, events are delivered, the browser notices a dead socket in the end.
- *Core*: none. What must happen there must happen within a number of cycles, and is stated so (`HaltedTimerWakes`).

### Disagreements with the documents, and one with an assertion

1. `frame_stale_ack`: `docs/architecture/core-contracts.md:47` says one frame may be in flight. `FrameQueue::acknowledge` compares numbers only, and numbers start again with every game. An acknowledgement of the last game's frame 1 that reaches the worker after a restart releases the new game's frame 1, and a second frame goes out. The excess is one frame, and `SlotsFollowTheGame` shows that within a session's first game the bound holds.
2. `controller_client_recovery`: `docs/superpowers/plans/2026-08-27-ped-38-mobile-controller.md:23` says that an unexpected close reconnects automatically. If the server was not told of the close, its socket keeps the seat until its own deadline of 18 s. The first retry comes after 0 ms, is answered `controller-already-connected`, and that answer is final for the phone. The same plan makes a rejection final (lines 331, "without retrying", and 422, "suppress retries"): each rule alone is implemented, together they cannot both hold.
3. `machine_budget`: `run_cycles` asserts in debug builds that a step takes the cycles predicted for it (`machine.rs:98`). `next_step_t_cycles` peeks the second byte of a prefixed instruction before the step, which fetches it an M-cycle later. When the prefix lies at FFFE and a DMA transfer is running, the byte at FFFF (IE) can change its visibility in between, and an instruction on `(HL)` is taken for one on a register or the reverse. The run checks the assertion as it stands (`PredictionIsTaken`) and shows the case of IE, which follows from the model's own state. It is not the only one: the fetch reads the picture memories and the registers again too, so that code there can be locked or can move in between (with `CB 46` in the VRAM when mode 3 begins, 12 cycles are predicted for `BIT 0,(HL)` and `CB FF` is executed in 8). `BudgetIsExact` says where the prediction is exact, which is everywhere else, and that it is never wrong by more than 8 cycles.
4. `ppu_stat`: `docs/superpowers/plans/2026-08-27-ped-36-ppu.md:304` says that switching the screen off clears `stat_line_high`. `write_lcdc` (`ppu/mod.rs:184`) leaves it, so that a line that was high suppresses the first edge after the screen comes on again. `StatLineIsCurrent` shows that while the screen is on the kept line is right.

Three more things a reader may want to know. In `manager.rs`, `finish_start` cannot be superseded and `complete_lifecycle` cannot mismatch: a start holds the lifecycle until it completes. An acknowledgement refused by a full command queue is never repeated (`SlotIsReleased` excludes that case by its history variable `refused`). And when EI is directly followed by HALT with an interrupt pending, the halt bug is noted although the interrupt is served first, so that the first byte of its handler is the one read twice (`cpu/execute.rs:351`, `service_interrupt` leaves `halt_bug` as it is).

## 4. What is proved

Everything below holds for every value of the constants that satisfies the module's named assumptions, and from these only.

### The remote input path (`RemoteInputProofs`)

| Theorem | Statement |
|---|---|
| `TypeCorrect` | `Spec => []TypeOK` |
| `InductiveInvariant` | `Spec => []IInv` |
| `CoreShowsRetainedInput` | `Spec => []RetainedMatchesCore` |
| `DisconnectBarrier` | `Spec => []AnsweredDisconnectIsComplete` |
| `LiveButtonsReachTheGame` | `Spec => []LiveControllerReachesGame` |
| `ImplementsRemotePad` | `Spec => PadSpec` |

None of the properties is inductive. A worker about to apply a button message must know that the message is not older than what was cancelled, which depends on when the publisher drew the number, which depends on who had the seat. `IInv` therefore orders the generations along the path: the publisher's `current` and `nextGeneration` bound everything; commands in the channel are in the order of their generations; the worker's `owner` is the first generation it has not cleared; the awaited call is the newest of the channel. `InvNext` goes through the actions in groups (publisher, channel, user commands, worker steps, shutdown), each group a lemma.

That the game has the buttons of the phone needs the content of the channel besides its order, which `LiveInv` adds. While a connection is live, every command in the channel or in hand but one is of an earlier generation (`LiveChannel`): such a command is cancelled by the time the worker looks at it, however late its caller gave up on it. The one is the command that the caller waits for, and `LiveButtons` says what it will do: applied to the retained buttons it gives those of the phone, which `PublishMessage` has already noted; and a connection that was only accepted finds a snapshot older than itself. A call that ended with an error carries no such promise, but it closes the connection. `LiveNext` goes through the same groups of actions as `InvNext`.

The refinement maps the worker's `owner`, snapshot and barrier to the holder, pad and released generation of `RemotePad`.

### The controller server (`ControllerServerProofs`)

| Theorem | Statement |
|---|---|
| `TypeCorrect` | `Spec => []TypeOK`, so `socket_tasks` never goes below zero |
| `SeatSafety` | `Spec => []SeatIsExclusive` |
| `SeatedHear` | `Spec => []SeatedSocketListens` |
| `ExitSafety` | `Spec => []ExitedServerIsQuiet` |
| `Refinement` | `Spec => FeedSpec` |

They follow from one inductive invariant (`Invariance`). `TypeOK` alone is not inductive: that the count stays in range needs `Counting` (the count is the number of tasks between their upgrade and their end), and the same fact turns a count of zero into "nobody is left" when the thread exits (`Quiet`). `SeatedSocketListens` needs the order in which the thread acts: the token is invalid before the sockets are told, so a socket that subscribed too late is stopped at the token (`Listening`). That each controller is taken back once, and before the next is announced, needs the session machines (`Machines`) and the seat together (`Announcing`). Each conjunct has a lemma of its own with the steps in groups: `Outside` the seat, `Playing` in it, the steps that change it, and `Elsewhere`.

### The pairing session (`RemoteSessionProofs`)

| Theorem | Statement |
|---|---|
| `SessionTypeCorrect` | `Spec => []TypeOK` |
| `SessionInductive` | `Spec => []SessionInv` |
| `SnapshotsConverge` | `Spec => []ObserverConverges` |
| `PlayingPhoneIsShown` | `Spec => []OpenSocketIsShown` |
| `PhaseIsTrue` | `Spec => []IdlePhaseIsTrue` |
| `EndIsFinal` | `Spec => []EndedSessionIsOver` |

`SessionInv` has three parts. `Typed` adds to the types that a waiting end finds an epoch. `Delivering` says that the latest snapshot has arrived or is on its way in a delivery newer than all others, so that one overtaken is one rightly dropped; it stands apart from the rest. `Session` says that one call has the lifecycle (`Governed`) and what that call knows of the server it took out of the lifecycle (`Knows`), that a running server is the installed one or held by that call (`Listening`), that a socket belongs to a server whose URL was shown and is still shown (`Attached`), and that what the socket task read before its next lock still holds then (`Remembers`). The lemma that carries the proof is `NoneServes`: from the launch of the next server on, and after an end, no server serves, hence no socket exists that could see the model change under it. `WhileServed` is its counterpart: a socket of the installed server finds nobody in the session, so the phase is true. `CallerSession` and `SocketSession` go through the actions.

### The phone's session (`ControllerClientProofs`)

| Theorem | Statement |
|---|---|
| `TypeCorrect` | `Spec => []TypeOK` |
| `OneConnectionAtMost` | `Spec => []OneConnection` |
| `RecoveryNeverLost` | `Spec => []RecoveryIsPending` |
| `DisconnectedForGood` | `Spec => StaysDisconnected` |
| `NumbersAccepted` | `Spec => []NeverOutOfSequence` |
| `ButtonsReachTheGame` | `Spec => []ButtonsAgree` |

The invariant has two layers. `PhoneAndLinks` is the phone's: which of its fields go together (`PhoneInv`: a connection excludes a retry, a heartbeat runs exactly while it is connected and shown), that the one deadline is that of the awaited pong, and for every connection that only the phone's own is open (`Linked`), that a hello is sent once (`Greeted`) and a welcome is read once (`Welcomed`). Each method of the session has a lemma, each action keeps the first layer, and says what kind of step it is: `Opening` a connection, `Staying` with it, or `Closing` it.

`Agreement` is the second layer and goes by kind of step. `Silent` says which connections have nothing on the way; `Waiting` that until the phone reads the welcome nothing but the hello is on the way, which is why the server's `last` and `held` are still empty when the first numbers arrive; `Numbered` that the numbers on the way continue the server's last one and the phone's next number continues them; `Seat` that one socket at most plays. What messages do to a set of buttons is stated by position (`WillBeHeld`) rather than as a fold, so that adding a message at the end (`HeldAdded`) and reading one at the front (`HeldRead`) are lemmas without induction.

### The audio output (`AudioPumpProofs`)

| Theorem | Statement |
|---|---|
| `AudioTypeCorrect` | `Spec => []TypeOK`, so the ring never outgrows its capacity |
| `AudioInductive` | `AudioInv /\ [Next]_vars => AudioInv'` |
| `FlushSeparates` | `Spec => []FlushSeparatesSound` |
| `NoFalseAlarms` | `Spec => []NoFalseAlarm` |

`AudioInv` has three parts besides the types. `Epochs` follows the number of a flush on its way: the worker's store, what the callback loaded, what it observed, what it reports; the ring holds no sound younger than the last report, because the worker makes none while a flush is pending. `Quieted` follows the pause: a callback that began after `pause_and_flush` returned finds `paused`. `Priming` is the worker's bookkeeping: between the decision of the pump and its verdict no flush begins, the device can only shorten the ring that health measured, and each tick of a priming adds at least one batch. The last makes "the ring did not grow" mean that the core was silent, and needs the one assumption that relates two constants of the code, `PrimingAssumption`: four batches last longer than the low watermark.

### The video (`FrameDeliveryProofs`)

| Theorem | Statement |
|---|---|
| `FrameTypeCorrect` | `Spec => []TypeOK` |
| `FrameInductive` | `FrameInv /\ [Next]_vars => FrameInv'` |
| `SlotsFollow` | `Spec => []SlotsFollowTheGame` |
| `PictureGoesForward` | `Spec => []PictureMovesForward` |

That the queue to the page is in order is preserved only if what is appended is newer than all that is in it. `Ordered` therefore says of every frame between the worker and the canvas that the core has made it, and that it is no newer than the frame in flight of the same game (`Sent`). `Slots` relates the slots to the core's counter, and `FirstGame` says that without a restart a sequence number tells a frame apart, for which `Ordered` keeps that acknowledgements are of games that were played.

### The machine (`MachineProofs`)

| Theorem | Statement |
|---|---|
| `MachineInvariant` | `Spec => []MachineInv` |
| `DividersNeverPart` | `Spec => []DividersAgree` |
| `JoypadFollowsInputs` | `Spec => []JoypadShowsInputs` |
| `DmaKeepsItsCopy` | `Spec => []DmaIsExclusive` |
| `BudgetChargesTheStep` | `Spec => []BudgetIsExact` |
| `HaltEndsWithTheTimer` | `Spec => []HaltedTimerWakes` |
| `ComputationIsExact` | `AccSpec => []ArithmeticIsExact` |

Everything that can happen is one action, the step of the CPU, and that is a composition of up to seven functions. The invariant must therefore hold not only between steps but after every M-cycle. `MachineInv` says of the bus (`BusInv`) that both dividers are equal, that a running transfer has a byte left and that what it copied is there (`Copied`; the index bound is what makes the property inductive), and that the lines are those of the buttons and the rows (`Shown`). `OnTrack` carries it through a step: tick, access, `Perform`, padding, control. What it needs of the timer is proved T-cycle by T-cycle: whatever a falling edge or a reload does, the divider moves by one, and four times one is what the mirror adds.

That the prediction is exact has two halves. The accesses of an opcode, which `execute_base` decides, must fit in the cycles of the decoder table: `InstructionFits` goes through the quarters of the opcode space by the fields of the opcode, with at most five accesses behind the first fetch and the rest idle cycles. And the branch that the prediction takes from a list of opcodes must be the one that execution takes from a condition code: `BranchIsTaken`, which is false for illegal opcodes and needs that `Fails` excludes them. What remains is the second byte of a prefixed instruction, peeked before the first fetch and read after it. What it finds then is the input `AfterFetch`: in a device any byte, elsewhere the byte of before. `PeekStays` shows that under `SecondByteStays`, the exception that the property names, it is the same byte although the fetch can end a transfer: a prefix was read, so the transfer does not hide the code, unless the prefix is in the high memory and the second byte outside. Behind the high memory is IE, which `SecondByteStays` excludes, as it excludes a second byte in a device. Where it fails the opcode that was peeked and the one that is executed may be any two, but every prefixed opcode takes 8, 12 or 16 cycles, whence the bound of 8. The theorem has no hypothesis: it holds for games with code anywhere, those of `machine_budget` included.

*The wait in HALT.* The bound, on when the timer requests the interrupt, is one number for every state of it: the T-cycles in which the selected bit falls as often as the counter has values, and one M-cycle for the reload. What goes down with each M-cycle is the distance to the request: the falls still missing, times the period of the bit, less what of the present period is over; after an overflow, the delay of the reload. A fall and the count can meet anywhere in an M-cycle, so one M-cycle is unfolded into its four T-cycles, and the distance shrinks by one in each. `CyclesFollow` gives what `AfterCycles`, a recursive function, is after one more cycle; the induction over the cycles is on sets of numbers and uses the well-foundedness of the order from the library (`SetInduction`), because a predicate cannot be passed to its induction theorems. Once requested, the flag stays: nothing acknowledges it while the CPU waits. The divider may stand anywhere when HALT begins, and a write before it may have left a reload pending.

*Arithmetic.* `ArithmeticIsExact` is about the accumulator and flags of the moment, so its invariant is their type only; what is proved under it is arithmetic, for every byte in the accumulator and all flags: that adding two decimals and adjusting gives the decimal of the sum, its carry and its zero flag, and the same for subtraction; that the additions of words are those of their two bytes with the carry between them (the word has the accumulator as its low byte, and its other bytes and the operand's are at the edges of a byte, as the property says); that rotations undo each other, and that setting, testing and counting agree. `NoProgram` stands for the time before the first load, in which nothing computes.

`TimerAssumption` and `MachineAssumption` ask for a divider of more than four values (one M-cycle moves it by four: 65536 in the code), a counter with a value, for each clock select a bit above the lowest and in the divider, transfers of a byte at least, and of the program only that bytes are bytes, that its code lies where two bytes of the address space can follow each other (`Neighbours`), and that what it stores has the width of the place it stores to. `ArithmeticAssumption` asks that operands are bytes and that `NoProgram` is no content of the registers.

### The devices (`DeviceProofs`)

| Theorem | Statement |
|---|---|
| `ApuTypeCorrect` | the sound's registers keep their types |
| `SoundInductive` | `ApuSpec => []ApuInv` |
| `SoundIsSound` | `ApuSpec => []ChannelsAreSound` |
| `PpuInvariant` | `PpuSpec => []PpuInv` |
| `StatLineStaysCurrent` | `PpuSpec => []StatLineIsCurrent` |
| `FramesAreComplete` | `PpuSpec => []FrameIsComplete` |
| `ModeLocksTheMemory` | `PpuSpec => []ModeLocksMemory` |
| `CartridgeInvariant` | `CartridgeSpec => []CartridgeInv` |
| `SavesRestore` | `CartridgeSpec => []SaveRestores` |
| `ClockKeepsTheTime` | `CartridgeSpec => ClockKeepsTime` |
| `EveryBankIsReached` | `CartridgeSpec => []BanksAreReachable` |
| `TileRowsAreInVram` | every row of every tile lies in the memory of the tiles |
| `MarksTellTilesApart` | two sprites are charged for one tile only if it is the same |
| `MirroredSpritesAgree` | a mirrored sprite is drawn as the mirror image |
| `TenSpritesAtMost` | a line has ten sprites at most, of any number in memory |
| `FirstOpaqueSpriteShows` | the sprite that shows is opaque, of the line, and has no opaque one to its left |
| `PenaltyStaysBounded` | the sprites of a line cost six dots each and five for each tile at most |

*Sound.* `ApuInv` gives every register its range and says of every channel that while it plays its DAC is on and its counter above zero (`Stoppable`) and the unit has power, and of the sweep that after a subtraction was used, subtraction stays selected (`Kept`). Of the pitch the hard part is arithmetic: one put together from its two registers, and one that a sweep adds to or subtracts from, stay within their bits (`Composed`, `HighPart`). The proof goes write by write, as `apu/mod.rs` does.

*Picture.* The code keeps as state what is a function of the beam: the mode, the coincidence bit, the rows drawn. `PpuInv` writes these functions down. `Placed` says where dot, line and phase can be (the line after the switch starts at dot 8), `Timed` when this line's drawing ends (the shortest line until drawing starts, then what was computed from scrolling and sprites), `ModeOf` which mode each dot has, `Compared` which LY the comparison used, in the dots before a line in which the next one shows already and in those after it in which it does not yet, and `Drawn` which rows are drawn. `Level` says that the kept STAT line is that of the sources. The three properties are then consequences at a single moment; the work is that a tick, which moves a dot, maybe a line, a mode, a comparison and then the line, preserves all of it. `PpuAssumption` orders the times of a line (OAM scan, the start after the switch, the longest drawing and four dots of the next LY fit in it, in this order), which is what the constants in `ppu/timing.rs` do.

*Cartridge.* Of the clock the code keeps a counter and when it was current, and everything computes the time from both. `KeepsTime` therefore compares not two states but what two states show at any later time. The arithmetic is that adding elapsed time in one go or in parts gives the same day, carry and second (`SyncKeepsLive`), and that the bytes of a save put together again are the counter they were taken from (`BytesKeepLive`). `SavesRestore` follows for a load at any time from the save on, `ClockKeepsTheTime` for every action but a write to the clock. `CartridgeAssumption` asks only for days with seconds and for declared sizes that are numbers.

*Banks.* For each bank of each accepted size `RomReached` and `RamReached` name the writes that show it. Most banks are the two halves of their number in the two registers. The exceptions are where a bug would be: a bank of an MBC1 whose low five bits are zero cannot be in the upper window, because zero is taken for one, and is reached through the lower window in the second mode; an MBC5 needs the ninth bit of its own register; and where a rumble motor takes a bit from the banks of memory, the checks of the header leave few enough banks.

*A line of pixels.* `Scanline` has no state, so its theorems speak of every set of registers, line and table of sprites directly. The code sorts; the model puts at place *k* the sprite that has *k* - 1 before it. That such a sprite exists and is only one (`RankIsTaken`, `RanksDiffer`) is a counting argument: ranks of different sprites differ, and there are as many ranks as sprites. From that `OrderIs`: every selected sprite has a place, and the places are in order. What the sprites cost is a recursive function over these places; `ChargesGoOn` and `PenaltyIs` unfold it, and the bound goes by induction over the sprites with the set of tiles already charged. The marks by which the code notices a tile it has charged are 64 numbers, 32 for the background and 32 for the window; `LeftEdge` says where the tile of a mark begins, so that equal marks mean equal tiles.

### Only model-checked

- Every liveness property: `ClosingReleasesGame`, `CallsReturn`, `SlotIsReleased`, `ShutdownReturns`, `SessionSettles` and `GameKeepsRunning`. Fairness and ENABLED are out of the prover's reach.
- `InstructionsFitTheDecoder`: TLC evaluates it over every opcode and every set of flags, which is all there is. The part that the budget needs is the lemma `InstructionFits`.
- That the runs in which a document or an assertion is contradicted do so.

`RowsAreSound` is evaluated by TLC at the edges of the screen; each of its parts is a theorem.

## 5. Not modelled, and the plan

Every component is in `PROJECT.json` with its status. Worth doing next, in this order:

1. The hooks of the desktop page (`use-emulator-runtime.ts`, `use-remote-session.ts`), where replies and events on different channels overtake each other, and `use-keyboard-input.ts`, `use-updater.ts`. Their hazards are listed without a property.
2. The phone's controls: pointers that share a button (`pointer-button-tracker.ts`) joined to `ControllerClient`'s `SetButton` and `ReleaseAll`.
3. The token bucket of `rate_limit.rs`, with its saturating arithmetic, and a phone that meets it.
4. Envelopes of the sound unit, and the rules for writes to picture memory.

Left out for good: waveforms and mixing, palettes, URL parsing and JSON shapes, settings storage, the release scripts and the components that only draw.
