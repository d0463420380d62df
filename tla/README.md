# Samogon heater controller: TLA+ models and proofs

The program is the firmware of a heater controller on an Atmel SAM D21
(`Samogon-mcu/src`): a push button and a rotary encoder set a power switch and
a power level, a solid-state relay drives a heater in bursts of whole mains
half-waves, two thermocouple converters are sampled and shown on a small TFT
together with the switch and the level, and a USB serial port answers a few
one-letter commands. It runs on FreeRTOS 8.0.1 and the Atmel Software
Framework, both vendored under `ASF/`.

Paths below are relative to `src/Samogon-mcu/src` unless they begin with `src/`.

## 1. Inventory

### The parts, their state and their operations

| Part | Code | State | Operations |
|---|---|---|---|
| relay drive | `main.c` `callbackZeroCross` | `s_moduloCounter`, `s_ssrOn`, `zeroCrossCount`, the pin `CONF_BOARD_SSR_OUT` (active low) | one per mains zero crossing |
| panel interrupts | `main.c` `configureGpioInterrupts`, `queueMessageFromCallback` and the three callbacks; `EIC_Handler` | interrupt flags, a `s_initialSignalTicks` per channel, `hControlQueue` (10) | an edge; the handler |
| encoder decoding | `UserTasks.c:96-131`, `clampUInt32` | `lastTimeChannelA`, `lastTimeChannelB` | one per channel message |
| control task | `UserTasks.c` `taskControlProcessLoop`, priority 2 | local `powerOn`, `powerLevel`; the shared words `g_appData.powerOn`, `powerPercent`; `nvmUserConfig.power` | start, press (looked at again 1 ms later), edge, completed step, save, announce |
| sensor task | `UserTasks.c` `taskPullSensorDataLoop`, priority 3; `tempSampleCallback` of the timer service | `hTickQueue` (1), `tempData1/2`, the last readings sent | tick, read first, read second, send data, send error |
| display task | `UserTasks.c` `taskDisplayLoop`, priority 1 | `hDisplayChangeQueue` (10), the screen | receive, draw, print |
| CDC task | `UserTasks.c` `taskCdcLoop`, priority 1; `utils.c` `printfToCdc` | `bAutorizeCdcTransfer`, `g_enableDebugPrintToCdc`, the port's two buffers | wait, get a character, reply, fill the screen |
| configuration | `NvmUserConfig.c` over `nvm.c` | the last row of the flash, its copy in RAM, the controller's page buffer | read at the start, erase and write |
| start-up | `main.c` `main` | | the order of pins, configuration, interrupts, queues, tasks, scheduler |
| USB CDC class | `ASF/common/services/usb/class/cdc/device/udi_cdc.c`, `udd_ep_run` of `usb_device_udd.c` | two buffers in each direction, their selectors, flags and positions, shared by tasks and USB interrupt; the endpoints' jobs | start of frame, transfer sent, transfer received, getc, write, open, close |
| SPI driver | `ASF/sam0/drivers/sercom/spi/spi.c`, `spi.h` | data register, shift register, two bytes of receive buffer | write, read, wait; two users per port |
| MAX31855 driver | `Max31855.c` | one SPI slave per converter | select, transfer, deselect, decode |
| TFT driver, graphics | `Sitronix7735.c`, `AdafruitGfx/` | data/command and chip-select pins, text cursor | windows, pixels, rectangles, text |
| formatting | `utils.c` | | `intToStr`, `formatFloat`, `appendString` |
| FreeRTOS queues | `ASF/thirdparty/freertos/freertos-8.0.1/Source/queue.c` | a ring of messages, positions, lock counts, two lists of waiting tasks | send, receive, send from an interrupt |
| FreeRTOS scheduler | `tasks.c`, `list.c`, `portable/GCC/ARM_CM0/port.c` | ready, delayed, overflow, suspended and pending lists, tick count, flags for switches held back | tick, suspend, resume, block, time out, switch |
| other drivers, CRC | `ASF/` | | pins, clocks, delays, checksum: external, from how the code uses them |

### How they interact

    contacts --EIC_Handler--> hControlQueue --> control task --> powerOn, powerPercent --> callbackZeroCross --> relay
                                                  |     |
                                                  |     +--> configuration row in flash
                                                  v
    timer --> hTickQueue --> sensor task --> hDisplayChangeQueue --> display task --> screen
                                                                       |
                                      host <--> USB port <-------------+---- CDC task ('f' fills the screen)

    sensor task --SPI 1-- two converters          display task --SPI 2-- TFT
          CDC task ('t') --+                              CDC task ('f') --+

Queues are the only synchronisation. Both SPI ports have a second user, the
CDC task, and no lock. The USB port has two writers and no lock but short
stretches with interrupts off. The two shared words are stored by the
control task and read by the zero-cross interrupt without a lock; each is one
aligned word, so each store is atomic but the pair is not. No task waits for
ever for room in a queue: the control and the sensor task give up after ten
ticks and ignore the result.

### What is hard, and what makes each part correct

- *Relay drive.* The settings change between any two half-waves. Correct: the
  relay is never driven on settings older than the last crossing; it closes at
  the start of a window only and opens at most once in it; a steady level is
  driven for exactly its share, with no debt from an earlier one; off ends in
  off, on ends in driving.
- *Panel interrupts.* Contacts bounce, the 32-bit tick counter wraps, the
  interrupts are enabled before the queue they send to exists. Correct: one
  message per channel and debounce interval in real time; no send to a null
  queue; no message lost to a full queue.
- *Encoder.* Two edges, in order, make a step; `0` means "no edge" and is also
  a tick. Correct: the level follows the hand.
- *Control task.* Three copies of the switch and of the level, a flash that
  may refuse, a display that may be stuck. Correct: the copies agree between
  messages; never on without a level; only a confirmed press turns on; it
  always comes back for the next message.
- *Configuration.* Two loops that give up, a page the controller programs after
  the function returned, a supply that may fail anywhere. Correct: the level of
  the last accepted write, or none, and never an older one.
- *SPI ports.* Two tasks use one byte register in turns nobody arranged, one of
  them preempting the other or sharing its time slices. Correct: a transfer
  nobody disturbed is exact, whatever was disturbed before it; a collision
  leaves no byte behind and no busy-wait waiting.
- *USB port.* The interrupt swaps buffers between any two steps of a task that
  fills or empties them, and the host opens and closes the port at any time.
  Correct: the buffers are one pipe, characters come once and in order,
  reception is never left unasked for, opening works.
- *Kernel.* A task decides to sleep in one critical section and goes to sleep
  in another; interrupts send to queues that are locked; timeouts cross a wrap
  of the tick count. Correct: queues are lines of whole messages, no wake-up is
  lost, the most urgent ready task runs, a wait is as long as it was asked for.
- *Sensor and display tasks.* Results ignored, messages dropped, a host that
  stops reading blocks the display task. Correct: unless an announcement was
  dropped, the screen ends up showing the last of them; a lasting fault is
  shown; the heater can be switched off whatever the display does.

`PROJECT.json` lists each of these hazards at its line, with the properties
that watch it.

## 2. The modules

| Module | Models | State and actions |
|---|---|---|
| `SsrPwm` | `callbackZeroCross` | one action `ZeroCross` for the whole handler; `StorePowerOn`, `StorePowerPercent` are the control task's stores; `PowerFailure` a restart |
| `SsrDuty` | what a window amounts to | extends `SsrPwm` with history: half-waves driven, whether the settings were left alone, what the last crossing found |
| `Debounce` | contacts to control queue | `EicHandler` is one run of `EIC_Handler` with the callbacks of every raised flag; `CreateQueues`, `StartScheduler` are steps of `main`; `TickInterrupt` wraps after `MaxTick`; `Receive` is the control task's |
| `Rotary` | the decoding of two edges into a step | operators with the wrap of `uint32_t` and the clamp |
| `Encoder` | `Debounce` and `Rotary` under a turning hand | `TurnFirst`, `TurnSecond`, `GiveUp`, `Bounce` are the hand and the contacts |
| `ControlTask` | `taskControlProcessLoop` | one action per stretch of code between two points where an interrupt or task can see a difference: send, store, receive, confirm, persist |
| `NvmConfig` | `readNvmUserConfig`, `writeNvmUserConfig` | one action per call into the driver, and the controller's own `Programmed` |
| `SensorTask` | `tempSampleCallback`, `taskPullSensorDataLoop` | one action per stretch between two blocking calls; used by `Samogon` only |
| `DisplayTask` | `taskDisplayLoop`, `taskCdcLoop`, `printfToCdc` | receive, draw, print; check, get a character, reply, fill; the host; used by `Samogon` only |
| `Reading` | `max31855ReadData`, `formatFloat`, `intToStr`, the value lines of `taskDisplayLoop` | the four bytes a converter sends, what is unpacked from them, and the character cells of two value lines; `ReadData`, `DrawData`, `DrawError`, `DrawLevel` |
| `Samogon` | the whole controller | `INSTANCE`s of `ControlTask`, `SsrPwm`, `SensorTask` and `DisplayTask` over shared variables; every step is a step of one of them and the environment actions of each are replaced by its neighbours |
| `SpiPort` | a SERCOM as an SPI master, as `spi.h` uses it | `Write`, `Read` and the two moves of the hardware, `Load` and `Complete`; a full data register refuses, a full receive buffer drops |
| `ConverterBus` | `max31855ReadData` by the sensor and the CDC task on one `SpiPort` | select, wait, write a dummy byte, wait, read, deselect, unpack, one byte at a time; the converters shift out their words while selected |
| `DisplayBus` | `Sitronix7735_drawPixel`, `Sitronix7735_fillRect` by the display and the CDC task on one `SpiPort` | a drawing is a script of selections, commands and blocks of data through `spi_write_buffer_wait`; `Switch` ends a time slice anywhere |
| `SharedBuses` | both ports with the CDC task in command `t` or `f` | `INSTANCE`s of `ConverterBus` and `DisplayBus` |
| `UsbCdc` | the data interface of `udi_cdc.c` | the interrupt's handlers are one step each, a task's function is cut wherever the interrupt may come; `Enable` and `Disable` are the host's |
| `SerialPipe` | what the port promises its writers | one pipe: accept, deliver, open; `UsbCdc` implements it |
| `Scheduler` | `tasks.c`, `list.c` and the port as functions of the scheduler's state | event lists, delayed lists and their change at the wrap, timeouts, suspension and what is pended during it, context switches |
| `Kernel` | `queue.c` under `Scheduler`, with the five tasks' calls, the panel's sends, SysTick and PendSV | the loops of `xQueueGenericSend` and `xQueueGenericReceive` cut at every point where an interrupt may come |
| `MessageQueues` | what the queues promise | lines of at most `Length` messages: put, get; `Kernel` implements it |
| `MCSamogon`, `MCReading`, `MCSharedBuses`, `MCUsbCdc` | | what the converters measure, what is drawn and how much is sent in the runs |
| `*Proofs` | | the theorems: one module per component, those of `Reading` at the end of `SharedBusesProofs` |

The levels fit together like this. `Kernel` implements the bounded queues
(`MessageQueues`) that `Debounce`, `ControlTask`, `SensorTask`, `DisplayTask`
and `Samogon` use as sequences, and the waiting they leave to "some time".
`UsbCdc` implements the pipe that `DisplayTask` counts in lines. `ConverterBus`
is the transfer behind `SensorTask`'s reading and `Reading` the four bytes in
it. `NvmConfig` is the inside of `ControlTask!Persist`. `Samogon` joins
`ControlTask`, `SsrPwm`, `SensorTask` and `DisplayTask`, and every one of its
steps is a step of `SsrPwm` and of `ControlTask` (both proved).

Within the modules, the definitions headed "Fault" are plausible mistakes in
the definition below them. No specification uses one; substituting it must
make a property fail, which is how `PROJECT.json` ("mutants") shows that each
property can.

Abstractions, and why they lose nothing the properties need:

- A message carries its type and the data a property tells apart. A reading is
  a model value for the pair of temperatures a converter returns; `Reading`
  has the bytes and the characters, in quarters of a degree, which a `float`
  holds exactly, as it does the 25, 50 and 75 that `formatFloat` multiplies
  their fraction out to.
- `ControlTask!Persist` is one step with three outcomes (written, not erased,
  left blank). `NvmConfig` is the detail: it shows that these are the outcomes
  (`NeverAnOlderLevel`), with the programming of the page in the background.
- `ControlTask!Send` gives up at any time when the queue is full: how long ten
  ticks are depends on who runs meanwhile, and every length is covered.
- In `DisplayTask` the drawing of one message is one step and the serial port a
  number of lines its buffers have room for, which is what decides whether
  `printfToCdc` waits. `DisplayBus` and `UsbCdc` have the bytes.
- `ConverterBus` lets a task be preempted between any two accesses of the port.
  It rests on two facts of the target's speed: unpacking (two divisions of
  doubles in software) outlasts a byte at 1 MHz, so a byte under way is shifted
  before the task reads again; in `DisplayBus`, a task switch outlasts a byte
  at 10 MHz.
- `UsbCdc`: when the host opens the port while a task is in the middle of
  `udi_cdc_getc`, the function goes on with positions of the session before and
  may skip characters; `stale` marks those sessions and `CharactersInOrder`
  leaves them out. Characters of nine bits and the communication interface are
  left out. The CDC task's replies are a writer of their own, which allows more
  than the program does.
- `Scheduler` keeps a list as the set of its tasks. The kernel's lists are
  sorted by priority or wake time, and no two tasks of one priority wait for the
  same event, so only the order among ready tasks of one priority is lost:
  which of them is next is nondeterministic.
- `Kernel` leaves out `xRxLock` (no interrupt receives), the idle task (the CDC
  task never blocks, so it never runs) and the entry time of waits without end,
  which is never read. A slot that was read is blanked, which makes states
  equal that only differ in old bytes. The timer service sleeps for a period
  from its turn; its own lists and commands are not modelled.
- The checksum is perfect: it stands for what it was calculated from, with the
  order of its calculation and of the store to `magic` kept.
- `SsrPwm` starts, and starts again after a failure of the supply, with the pin
  high. The code makes the pin an output (`main.c:136`) one call before it sets
  it high (`main.c:137`); for less than a microsecond the output register's
  reset value, low, may be on the active-low output. No property is about that
  pulse: what `Driven` says begins behind it.
- `sampled` in `SensorTask`, `confirmed`, `overlapped`, `missed`, `stale`,
  `waited` and `got` are histories: actions write them, and no guard of the
  code's reads them (`waited` is read by the bound `MaxLate`).
- Priorities are left out of the interleavings: every order of the tasks' steps
  is allowed, which includes those the scheduler produces. Where timing matters
  (`Debounce`), it is a bound on the ticks until the control task takes a
  message, `ServiceTicks`.

## 3. The runs

| Run | Question | States, bounds and why they are enough |
|---|---|---|
| `ssr_duty` | which half-waves a level drives, what a change in mid-window does, and that settled settings win in the end | the real window of 40 and the levels 5, 50, 95, 100, so every store is tried at every count; `CountWrap` 2, as nothing reads the count |
| `debounce` | at most one message per interval, none lost, none to a queue that is not there | interval 3 in a counter of 10: several intervals between two wraps, edges of three channels at every tick |
| `encoder` | the level follows the hand | three levels, so both ends of the clamp are hit; interval 3, counter of 12, skew 2, bounces as long as the interval |
| `control_task` | the control task against any messages, displays, flash and supply | queues of 1 and 2, both full and empty happen at every step; two stamps, one pair recent and one not |
| `nvm_config` | saving the level | three tries, so a first, a middle and a last one; three levels |
| `host` | the composition with a host that may stop reading, the CDC task and a supply that fails at any time; the relay's part is `SsrPwm` | 255,904 states; one level and a window of one half-wave (windows are `ssr_duty`'s question), a port of one line, queues of 1 so that full is the common case |
| `sensors` | the composition with converters that change and fail | 357,480 states; the first converter changes at any time among two readings and a fault, the second stays at a reading that its buffer does not start with; both orders of readings and faults occur, and a second buffer that was not read in a sampling is told from one that was by the history `sampled` |
| `reading` | what is drawn can be read back as what was measured, whatever was on the line before | temperatures next to every change of sign, of the number of digits and of the bit field's ends, with every combination of flags; each drawn over each other one |
| `shared_buses` | what a collision on either SPI port can do, and that it ends | 153,887 states; words of the real four bytes; windows of two bytes a side and rectangles of two blocks, so that a slice may end before, inside and after each kind of call |
| `usb_port` | the double buffers under two writers, a reader, the interrupt and the host | 437,018 states; buffers of 2 and three bytes out or six in, so that both buffers fill, swap and fill again; the empty transfer due after 2 frames; one direction at a time, as the two share no state but the session |
| `kernel` | the queues and the scheduler step by step | 1,656,396 states; a tick count of 4, so that every wait meets the wrap; queues of 1, 1 and 2; a send waits 2 ticks and the timer 1, so that the timer meets a full tick queue; one tick may come during a suspension (`MaxPended`), and a task is back in its call when its time is up (`MaxLate` 0) |
| `sensor_collision` | violation: the finding below | as `shared_buses` |

Runs of `Samogon` choose by `Acts` which parts of the world act; the question
of each is about those, and the guard is on the world's action, never on the
tasks'. `"Knob"` (the turning of the knob) and `"Fill"` (command `f`) act in
neither run, for the state space: what they do is in `encoder`, `control_task`
and `shared_buses`, and the theorems about `Samogon` hold with them.
Queues of length 1 make "full" the common case; a longer queue only makes it
rarer, and the theorems about `Samogon` and `Kernel` hold for every length.

In `kernel` the second branch of `xTaskCheckForTimeOut`, for a task that is a
whole turn of the counter late, is reached only with a larger `MaxLate`.

### Fairness

Safety runs assume none. The liveness properties assume:

- the mains keeps crossing zero (`ZeroCross`) and the sampling timer, which is
  periodic, keeps firing;
- every task that can take a step takes one at some time. The sensor task
  (priority 3), the control task and the timer service (2) block after a
  bounded piece of work; the display and the CDC task (1) share what is left by
  time slices (`configUSE_TIME_SLICING` is on unless it is set to 0), so that a
  display task that busy-waits for the host costs the CDC task every other
  slice and nobody else anything.

- SPI hardware shifts what is in it; the sensor task, once it reads, goes on;
  the CDC task, which it preempts again and again, gets its turns (`SF`);
  a time slice ends as long as something is drawn, and a drawing task that gets
  slices takes steps in them (`SF`);
- in `UsbCdc` only that frames start while there is a host (`WF` of
  `StartOfFrame`): written bytes must leave although no task runs again.

`Kernel` assumes nothing; its run checks safety and a refinement.

Nothing is assumed of the hand, the host, the converters, the flash and the
supply: they may act for ever or never.

## 4. What the checks show

- Relay: a window on a steady level p < 100 is driven for floor(40 p / 100) + 1
  half-waves, beginning with its first, and at 100 for all 40. Changing the
  settings in mid-window shortens the burst or leaves it, and never splits or
  restarts it.
- Panel: the debounce test, on a tick counter that stands still until the
  scheduler runs, is what keeps an early edge from sending to the null queue.
- Control: a stuck display costs the control task ten ticks per message and
  never the control; switching off always reaches the relay.
- Screen: each field ends up showing its last announcement unless that very
  announcement was dropped (queue full for ten ticks) or wiped off by `f`.
- Sensors: every data message that enters the display queue carries what both
  converters returned since the tick it answers, though the buffers outlive the
  sampling and the second is not read after a fault of the first; it is news;
  and every error message answers to a fault of its own sampling
  (`SendsFreshData`). A lasting fault ends up on the screen.
- Values: the screen reads as the temperature measured, to its last hundredth
  (0.25 as `.25`, -0.25 as `-.25`: `intToStr` gives 0 no digits). A value is
  drawn over the last one with three blanks behind it. That covers every
  temperature between -99.75 and 999.75; the end of a longer one may stay
  behind a text of three characters, which takes a jump of a hundred degrees
  or more, to less than one, without an error in between.
- SPI: a collision can make a reading or a drawing wrong and costs nothing
  beyond it. The answers in the port always number the tasks waiting for one
  (`BytesBalance`), so the next reading starts on an empty port. The sensor
  task may read a byte the CDC task was waiting for, and leaves one of its own
  in its place: that makes words wrong, but no wait endless, and
  `spi_read_buffer_wait` never comes to give up for a byte that is gone
  (`spi.c:713`; the branch is in `ConverterBus!ReadByte` and is not reached).
- USB: the buffers are one pipe for the two writers. A host that opens the port
  in the middle of `udi_cdc_getc` may lose characters of the new session. A
  host that closes it between the test of `udi_cdc_rx_start` and `udd_ep_run`
  leaves the endpoint's job busy, and the next opening is refused, once; no
  other way to a refusal exists (`OpensUnlessDenied`).
- Kernel: no wake-up is lost between the decision to sleep and the sleep. The
  panel's callbacks pass NULL and never ask for a switch; the control task they
  wake is noted and runs at the next tick (`RightTaskRuns`). A message is only
  dropped when its sender has waited all its ticks, over all the turns of the
  loop, and there is no room at the end.

### Finding

`SensorReadsWord` (`sensor_collision`): command `t` reads the converters from
the CDC task (`UserTasks.c:34`) without a lock, and the sensor task preempts it.
The converter then goes on in the middle of its word, or the sensor task takes
the byte the CDC task waits for and leaves its own last one behind, and what the sensor task is given as "measured
temperature in C" (`Max31855.h:14`) is a word no converter sent. It sends it to
the display like any other.

Two observations that no line of the repository contradicts outright: the
half-wave of count 0 is driven whatever the level, so 5% drives 3 half-waves of
40; and readings that come back unchanged after a sensor error are not sent
again, so "Sensor error" stays on the screen until one changes.

## 5. What is proved

The theorems hold for every value of the constants that the named `ASSUME`s
allow: any window length and set of levels in 1..100, any debounce interval
shorter than the tick counter, any queue lengths, any number of tries. Two
definitions appear as a hypothesis of a theorem, because the property is only
meant where they hold: `KeepsUp` (`DebounceProofs`: the control queue has a place
for each of the three channels, and the control task takes one message of each
within a debounce interval; the code has ten places and an interval of 200
ticks) and `LongTurn` (`KernelProofs`: the tick counter does
not turn within one wait; it has 32 bits and the wait is ten ticks).

- `SsrDutyProofs`. `TypeCorrect`, then `DutyInv`, inductive. The properties
  alone are not: that a change never splits a burst needs `BurstSoFar` (what is
  driven has gone by, and a heater still driven never paused), and that a
  steady level is met exactly needs `SteadyRelay` (the relay stands as the
  last half-wave's duty has it), which uses that the duty of half-wave k+1
  implies that of k. From it: `PinAlwaysFollowsFlag`, `DriveAlwaysJustified`,
  `AlwaysOneBurst`, `SteadyAlwaysDuty`, `AlwaysClosesAtWindowStart` and
  `AlwaysWindowLength`, for which `DutyIsInterval` turns the duty into an
  interval whose size the library knows.
- `DebounceProofs`. `DebounceInv` adds to the properties `AgesOK`, which ties
  the stamp a callback keeps to the real age of the channel's last message
  across wraps of the counter, and `TickStandsStill`. From it:
  `SignalsOncePerInterval`, `NeverSendsToNoQueue`, `StampsAlwaysNonzero`,
  `TypeCorrect`.
  `NothingEverLost` (under `KeepsUp`): a queue with no room is not excluded by
  its length alone, so `LineInv` says of every message waiting that its
  channel's age, the ticks until the task takes the next message and the
  messages ahead of it come to no more than the interval (`TakenInTime`). Hence
  a channel that may signal again has none waiting, and three places do.
  `LevelAlwaysFollowsHand` (under `KeepsUp`): `EncoderInv` is a case for each of
  nothing, the first, the second or both edges on their way from the contacts
  to the task (`LevelIn`). The level, with what those messages and the edge
  remembered will add, is what the hand meant. Its stamps are the ages, modulo
  the counter (`StampsExact`), which is what lets the unsigned difference in the
  code stand for time across a wrap (`MinusTicks`).
- `ControlTaskProofs`. `ControlInv` says, place by place, which copies agree
  (`Agreement`), that nothing is on before the loop is entered (`Boot`), and
  that whatever is on was pressed (`Pressed`). From it:
  `PoweredAlwaysHasLevel`, `OnlyPressesTurnOn`, `CopiesAlwaysAgree`,
  `OneEdgeAlwaysWaits`, `TypeCorrect`. Its assumption `StampsAssumption`, that
  no stamp is 0, is `DebounceProofs!StampsAlwaysNonzero`.
- `NvmConfigProofs`. `NvmInv` follows the configuration from the seal to the
  page (`Sealed`), keeps row and page at the level accepted last (`RowsAgree`)
  and says what a result of TRUE promises (`Returned`). From it:
  `NeverRestoresAnOlderLevel`, `SavedIsAlwaysRestored`, `PagesMeetErasedRows`,
  `TypeCorrect`.
- `SamogonProofs`. `Inv` holds the types of the queues and words, that nothing
  is on before the control loop is entered (`Booted`) and only after a press
  (`Pressed`), and that the sensor task's buffers hold at each place what the
  converters returned since the tick (`Fresh`); beside it every step is shown
  to be one of the parts (`Simulates`). From it: `ControllerTypeCorrect`,
  `OnlyPressesDrive`, `DataAlwaysFresh`, and the two that carry the results
  about the parts over to the whole, `RelayInCompany` and `ControlInCompany`:
  the controller implements `SsrPwm` and `ControlTask`, so that the theorems of
  `SsrDutyProofs` and `ControlTaskProofs` are about it.
  `ScreenAlwaysCatchesUp` and `SensorsAlwaysCatchUp` are about states in which
  nothing is left to do, and say nothing of the way there. `ToldInv` does: at
  every place of the three tasks, a field on the screen is up to date, or its
  news is in the display queue or the message in hand, or its announcement is
  still to come at that place, or was dropped. `LastNews` reads the queue field
  by field, so that a message taken changes nothing of what will be shown.
- `SharedBusesProofs`. `BytesAlwaysBalance`, for words, windows and drawings of
  every length. The balance alone is not inductive: a task that found the data
  register empty must still find it so when it writes, and one that found a
  byte must still find one when it reads. `ConverterInv` and `TftInv` add what
  the running task has found out and still holds; a task that is put away
  between test and access comes back to a port at rest, or looks again.
  `ReadingsGenuineWhenAlone`: `GenuineInv` follows a reading nobody overlapped
  byte by byte, between the converter's position in its word, the byte on the
  port and the buffer (`WordSoFar`); it needs the balance, which is what makes
  the port empty at its start whatever happened before.
  `LoneDrawingsAreExact`: `LoneInv` says that a lone drawing has sent exactly
  the bytes of its script up to the call it is in, with the D/C line each one
  calls for, for windows and blocks of every size.
- In the same module, `DataAlwaysMatches`: over all 2^14 temperatures, 2^12
  internal ones and the flags, unpacking undoes the converter's packing. The
  argument is arithmetic of the two half words (`UpperFields`, `LowerFields`)
  and of their bytes (`HalfWord`).
- Also there, `ScreenAlwaysReads`: what is measured is what is read on the
  screen, for all temperatures and levels in every order. `digits` and `Number`
  are recursive functions, so first they are shown to exist and to satisfy
  their equations (`DigitsOf`, `ValuesOf`), then by induction that the digits of
  a number say it (`DigitsSay`) and how many there are (`FewDigits`); with that
  `FormatTempIs` and `LevelTextIs` say what the texts are. `ReadingInv` says what
  the lines hold: behind the longest value drawn since the last error, and
  behind the error's six cells, nothing but blanks.
- `UsbCdcProofs`, for buffers of every size. `TxInv` says which of the two
  buffers is full, under transmission or being filled for every setting of the
  flags (`TxFlags`); `RxInv` ties the endpoint's job to the flags
  (`EndpointInv`) and each place of getc to what it has read (`GetcInv`). From
  them: `SendingImplementsPipe`, `TypesOK`, `CharactersStayInOrder`,
  `ReceptionStaysArmed`, `OpeningWorks`.
- `KernelProofs`, in three layers.
  `QueueInv` leaves the scheduler's functions unexpanded, so `QueuesAlwaysFifo`
  (the rings implement `MessageQueues` for every length of every queue) holds
  whatever the scheduler does. It says that the write position is as far from
  the read position as messages are waiting and that each task is in a call it
  makes. `WriteAhead` and `ReadAhead` are the arithmetic (the slot written next
  is none of those waiting; a step of the read position moves all others one
  nearer), `PutLine` and `GetLine` what that makes of the line of messages.
  `KernelInv` adds the scheduler. Neither `RightTaskRuns` nor `NobodySleepsOnWork`
  is inductive: a task that found its queue empty is not yet asleep, may be
  woken before it is, and the wake-up may be pending, counted in the queue's
  lock or still to be made by another task's call. `TasksFit` says in which
  lists a task may be at each place of its call, `Held` and `Locks` that the
  suspension and the queue's lock are those of the current task's call,
  `Running` that a ready task that outranks the current one has been noticed,
  and `Works` that for every task waiting at a queue with work there is someone
  who will wake it. From it: `KernelInvariant`, `KernelTypes`,
  `RightTaskAlwaysRuns`, `NobodyEverSleepsOnWork`.
  `TimeInv` adds the time: the ticks a task has waited are those its turns of
  the loop have used up and those since its time of entry, and its alarm is set
  for no more than the rest. From it, under `LongTurn`: `AllWakeInTime`,
  `AllGiveUpOnTime`.
  The loops of `tasks.c` and `queue.c` over woken tasks and pended ticks are
  recursive functions and folds in `Scheduler`; that they do their part from any
  state is shown first, by induction.

The library's induction theorems take an operator as a parameter, which the
provers at hand cannot instantiate. Where a proof needs induction it uses a
set: if it holds 0, and n + 1 with every n below k, it holds k; otherwise n + 1
would be a one-to-one map of a finite set into a smaller one, itself without 0
(`ClimbsTo`, from the library's pigeon-hole theorem). A recursive function is a `CHOOSE`, about which
nothing is known until one that satisfies the equation is shown to exist; the
same induction does it, one argument at a time.

Some properties are held by a theorem alone, without a run of their own:
`DutyTypeOK`, `PinFollowsFlag`, `ClosesAtWindowStart` and `WindowLength` of
`SsrDuty`, `StampsNonzero` of `Debounce`, `OneEdgeWaits` of `ControlTask`, and
the type invariants of `Debounce`, `NvmConfig`, `ControlTask`, `Samogon` and
`Reading` (`ReadingTypeCorrect`: no text runs over its line's end).

Only model-checked: the liveness properties, which need fairness and ENABLED,
both outside the prover's reach. Every safety property of a passing run is the
statement of a theorem.

## 6. What is not modelled

- Of the kernel: the lists and the command queue of the timer service, mutexes,
  queue sets, event groups, task deletion and the heap, of which the program
  uses the first two or three calls before the scheduler starts.
- `delay_ms`, which restarts the SysTick timer that is also the kernel's tick.
  The modules count ticks and leave their length open; how far a tick is
  stretched is a matter of clock cycles.
- The CRC service, whose result is taken to identify what it was calculated
  from, and the register access of the other ASF drivers, the USB device
  controller and the board's set-up.
- The shapes of the fonts, lines and rotations of the graphics library: they
  compute what is drawn and keep no state another part reads.
- The encoder is turned slowly: what two edges closer together than the debounce
  interval decode to is not stated anywhere, so there is nothing to hold the
  code to.

Most of the repository's 150,000 lines are vendored headers of registers, of
signal-processing tables and of drivers the program does not call, or sets up
once: the share of lines that could be modelled is small, and the program's own
two thousand lines and the vendored code that runs concurrently with them are.

## 7. Plan

In the order of importance:

1. The timer service of `timers.c` with its two lists and their change at the
   wrap, under `Kernel`.
2. `NvmConfig` implements the three outcomes of `ControlTask!Persist`; a panel
   specification (a switch and a level) that `ControlTask` implements.
3. Theorems: the refinements of 2; the readings of `ConverterBus` as the bytes
   that `Reading` unpacks.
4. Algorithms with reference definitions: the clipping of rectangles, the text
   cursor's wrap, the CRC.
5. The communication interface of the CDC class.
