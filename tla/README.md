# Verification of the ESP32 platform firmware

TLA+ modules of the concurrent parts of the badge.team firmware, TLC runs over
small instances of them and TLAPS proofs for instances of every size. All paths
below are relative to `src/firmware/`.

Run a check with `tlc -config <cfg> <module>` (the pairs are in
`PROJECT.json`), a proof with `tlapm <Component>Proofs.tla`.

## 1. Inventory

The firmware is MicroPython on FreeRTOS with C drivers under `components/`, the
glue that shows them to Python under `components/micropython/esp32`, boot and
update code in `main/`, and Python applications under `python_modules/`. Most
drivers are sequential: one caller, one bus, one device. The parts with a logic
of their own that several tasks, interrupts or machines share are these.

| component | state | operations | interacts by | hard behaviour |
|---|---|---|---|---|
| sound mixer, `driver_sndmixer/sndmixer.c` | channel table, last id, command queue, beat counter | API calls of any thread; one task that handles commands, mixes samples, refills buffers | compare-and-set on the id, FreeRTOS queue, callbacks, decoders | commands racing, reused channels, eviction, failed inits, a task that must not stall |
| microphone, `driver_microphone/`, `modmicrophone.c` | two-index ring of malloc'ed frames, running flag, task handle | recording task puts; Python takes, starts, stops | shared memory between two cores without a lock | stale index reads, a task deleted anywhere, ownership of frames, failed starts |
| FS over bus, `driver_fsoverbus/` | ring of received bytes, parser, timeout, open upload, flash | SPI task fetches, helper task parses, executes and answers, timer gives up | ring, notification, mutex, one-shot timer, host | timeouts against late data, replies that fetch data, power cuts, copies in place |
| MicroPython scheduler, `micropython/py/scheduler.c` | state word, ring of callbacks, pending exception | interrupts, tasks and threads schedule; the machine runs callbacks; finalisers lock and unlock | masked sections on one core, the GIL, Ctrl-C | wake-ups lost between two accesses, nested locks, callbacks that give the GIL away |
| Python threads, `mpthreadport.c`, `modthread.c` | linked list of nodes with flags, message queues, notifications, the GIL | create, suspend, resume, notify, wait, send, end; the idle task unlinks ended nodes; collections mark stacks | mutexes, task notifications, queues, vTaskSuspend | tasks suspended anywhere, a thread that ends with messages unread, a wait in two halves |
| YModem, `modymodem.c` | packet numbers, error counters, the file | `ymodem.send` and `ymodem.recv` at the two ends of a serial line | packets, ACK, NAK, C, CA, EOT | lost and garbled packets and answers, repeats, aborts, timeouts at both ends |
| I/O expander, `driver_io_pca9555/`, `modpca9555.c` | copies of the chip's registers, handler table, last state | interrupt task, calls of Python that write one pin | edge interrupt, semaphore, I2C | lost edges, reads that clear the interrupt, failed writes, a chip that outlives a restart |
| touch and coprocessors, `driver_input_mpr121`, `driver_io_*` | handler tables | interrupt task, API calls | edge interrupt, semaphore | as the I/O expander |
| LoRa, `driver_radio_lora` | mode of the radio | send, receive, interrupt | SPI, semaphore | wait loops on a flag register |
| boot and update, `main/` , `driver_rtcmem` | boot partition, RTC memory | OTA update, factory reset, magic values | flash, deep sleep, reset | power cut between steps |
| HUB75 compositor, `driver_display_hub75` | linked list of animations | Python adds and clears, a task renders | shared list | render against change |
| frame buffer and displays | frame buffer, window list, dirty rectangle | drawing, flush | one caller | none beyond arithmetic |
| buses, LEDs, sensors, SD card, FPGA | device registers | wrappers of ESP-IDF | one caller | none beyond I/O |
| virtual timers, `python_modules/shared/virtualtimers.py` | list of tasks | new, update, delete, stop, tick | callbacks run between bytecodes of the program | a tick's callbacks change the list it walks through, a tick interrupts a loop |

What makes them correct: **mixer** - an id names one sound for ever, commands
find their sound, nothing is mixed out of a buffer that was not filled, sounds
leave only with a reason, play what was asked, end, start on the beat, and every
call returns. **Microphone** - the ring is a bounded FIFO, frames are owned and
freed once and read whole. **FS over bus** - a file is never half an upload,
every message is answered once and in order, what was acknowledged stays, a
message that stops coming is given up. **Scheduler** - what was accepted runs
once, in order, never inside another callback or a finaliser, and no wake-up is
lost. **Threads** - the list holds every thread once, no suspended thread can
block the others, notifications and copies of strings are accounted for, a
collection frees nothing that is in use. **YModem** - the file that arrives is
the one that was sent, and both ends return. **I/O expander** - a callback knows
what its pin reads, a pin holds what it was set to. **Virtual timers** - the list
holds the tasks that are to go on, each once, and none is overdue.

## 2. Modules

| module | models |
|---|---|
| `Sndmixer`, `MCSndmixer`, `SndmixerProofs` | `sndmixer.c`, calls and task; instances; theorems |
| `Microphone`, `MicrophoneProofs` | `driver_microphone.c`, `driver_microphone_buffer.c`, `modmicrophone.c`; theorems, the refinement among them |
| `FrameFifo` | what the microphone's ring promises: an abstract bounded queue |
| `FsOverBus`, `MCFsOverBus` | `backend.c`, the SPI tasks of `driver_fsoverbus.c`, `filefunctions.c`, `execfile`, replies; messages of the runs |
| `FsOverBusProofs` | theorems on types and answers, then on whole files, then on acknowledged uploads, each built on the one before |
| `MpSched`, `MCMpSched`, `MpSchedProofs` | `py/scheduler.c` and who calls it; an instance on one core; theorems |
| `MpThread`, `MCMpThread`, `MpThreadProofs` | `mpthreadport.c`, the calls of `modthread.c`, the stacks `gccollect.c` marks; theorems |
| `YModem`, `YModemProofs` | `modymodem.c`, both ends and the line between them; theorem |
| `Pca9555`, `Pca9555Proofs` | `driver_pca9555.c`, `modpca9555.c` and what the chip does; theorems |
| `VirtualTimers`, `VirtualTimersProofs` | `virtualtimers.py`, with the places at which callbacks run; theorems |

The components are checked one by one. They do meet - the callbacks of the mixer
and the interrupts reach Python through the scheduler, whose callbacks run in
the threads - and each module has the other side as an environment that may do
anything the code lets it do: a callback in `Sndmixer` is an event, a source in
`MpSched` schedules at any moment, a thread in `MpSched` blocks wherever Python
code may.

A module holds, right before a definition, the mutants of it: the bug-shaped
variants each checked property is known to catch. They take no part in `Next`.

### Sndmixer

State: the channel table (`channel`, with the fields of `sndmixer_channel_t`
that matter), `curr_id`, the FreeRTOS queue `cmd_queue`, the beat counter, the
position of each client thread in `new_id`/`sndmixer_queue_*`, and the mixer
task's position. Histories: callbacks run by the last step, the last request for
the sound in each channel, the last chunk heard.

A queueing call is three steps - `ReadId`, `CasId` (with its retry) and
`SendQueue` - because other threads run in between; every other call is the one
step that sends its command (`Post`). Python may pass any int as an id. Of the
ids no call returned, 0 alone finds a channel, the first free one, so the
commands of `ZeroOps` are also sent for 0, and `FREQ` (with `WAVEFORM`) then
follows that channel's null source: `Panic`, a restart. Left out is a script that
guesses the id of a call still under way: its command is dropped, or handled
before the call has returned. The mixer task is sequential, so one step
stands for what it does between two looks at shared state: a beat test, one
command (`HandleCmd`: with eviction, failing decoders and failing `malloc`),
one channel's sample (`SkipChannel`, `PlaySample`, `NeedChunk`), one pass of the
refill loop (`Refill`, `RefillShort`, `Rewind`, `EndOfSound`).

Abstractions: a sound is a number of chunks; the fixed-point accumulator is the
flag `exhausted`, which `PlaySample`/`NeedChunk` may set at any sample, so every
sample rate is covered (a `dds_rate` of zero, a sound without a sample rate, is
not); ticks are dropped, so a beat may fall on any round. WAV and MP3 rewind,
Opus and MOD do not, the synthesizer does not end.

### Microphone

Each action is one access to memory the two cores share: `PutCheck` reads
`g_tail`, `PutAlloc`, `PutCopy`, `PutPublish` follow; `GetCheck` reads `g_head`,
`GetTake`, `GetClear`, `GetAdvance` follow. `Start` frees what an earlier
recording left, resets the ring and creates the task, or fails on the way;
`Stop` deletes the task wherever it is. `Frames` are addresses `malloc` may hand
out again once they are freed; `leaked` is a history. Accesses happen in program
order.

### FsOverBus

A unit is what one SPI transaction carries. `stm32_task` (`SpiBegin` to
`SpiEnd`) holds the mutex while it fetches units and stores them in the ring.
`fsob_task` is `Wake`, `ReadHeader`, `AwaitHeader`, `ReadPacket`, `ReadNothing`,
a function's steps, and `ReturnItem`; a reply (`ReplyBegin` to `ReplyEnd`) takes
the mutex and may fetch units itself. An upload writes `.tmp`, answers, and then
closes, removes and renames, each a step of its own. `duplfile` and `mvfile` are
`cpyfile`: refused for equal names (`CopyRefused`), the target emptied and the
source opened (`CopyOpen`), the target written (`CopyWrite`), the source of a
move removed (`Unlink`). `execfile` answers, sleeps a second and restarts the
badge (`DeepSleep`). `heartbeat` also stands for `makedir`, `getdir` and
`readfile`, which change none of the files. The timer callback is two steps
(`TimerFires`, `TimerClears`): the timer task has priority 1 and runs only while
both other tasks on its core are blocked (`CoreIdle`), and either may come in
between. A ring deleted under a held item ends in the assertion of
`vRingbufferReturnItem`, a restart (`Abort`). `Crash` is a power cut: an
unclosed upload keeps any prefix, a copy that was not finished is `Torn`. The
host begins messages, waits for the answer or gives up at any point, and never
sends a payload that looks like a header.

### MpSched

The state word, the stack of items and its pointer, the pending exception, and
for every caller where it stands inside `scheduler.c`. The macros that guard the
sections mask the interrupts of the calling core and nothing else, so a section
is one step for each write (`Schedule`, `Store`, `Count`; `Take`, `Shift`,
`Call`) during which sources of other cores still run. `Raise` and `Take` are
`mp_handle_pending`, `Lock` and `Return` the lock of a finaliser and the unlock
after it or a callback, `KeyboardInterrupt` the interrupt handler of the UART.
`SwitchThreads` is the machine's bounce of the GIL, `BlockingCall` any call that
gives it away, callbacks' calls included. A callback and its arguments are the
number of the call; `accepted` and `started` are histories.

### MpThread

The linked list (`list`), the flags of the nodes, the message queues, the
notification of each task, the GIL, and where each task stands in
`mpthreadport.c`. A creation links the node and starts the task; the task takes
the GIL at its entry; a thread that ends gives the GIL back (`Exit`),
frees the messages it has not read (`Finish`) and deletes its task (`Delete`);
the idle task then unlinks and frees the node (`CleanUp`), after which the
address may be used again (a member of `Threads` is an address). `Suspend` is
`vTaskSuspend` at any point at which the flags permit it. A wait is five steps,
from `Wait` to `SetNotBlocked`: it takes the value (`Woken`) and throws away
what is pending (`Clear`) in two calls, and notifications may come between any
of them. A FreeRTOS notification is a pending state (`pending`), which wakes, and
a value (`value`), which is read. `Sleep` is `mp_hal_delay_ms`; its `Poll` takes
the pending state, leaves value and flag, and ends the sleep. `Collect` takes
what `mp_thread_gc_others` would not mark; it and the depth of the stacks are
part of `CollectingSpec` only, since they multiply the states and change nothing
else.

### YModem

A packet is one item of the line with the outcome of its checks: intact, failing
its check (`bad`), or unrecognizable (`garbage`). `SenderReads` and
`SenderTimesOut` are a call of `Ymodem_WaitResponse` and what `Ymodem_Transmit`
makes of it; `ReceiverReads` and `ReceiverTimesOut` a round of `Ymodem_Receive`.
The line loses (`Lose`) and garbles (`Garble`) as often as it likes; an answer
misread for another, or an `a` typed at a keyboard (`Spoil`), is counted,
because it may end a transfer in disagreement.

### Pca9555

Sets of pins stand for bits of registers: `level` and `chip` for the chip,
`cache` for `reg_config`, `reg_polarity` and `reg_output`. The chip is external:
its interrupt line is low (`Asserted`) while an input differs from what was read
last, and reading a port settles that port alone. Whatever makes the line fall
gives the semaphore (`EdgeTriggers`). The task is `Take`, the reads of the two
ports, `ReadFails`, one `ReportPin` for each changed pin and `AllReported`. The
calls come one at a time, under the GIL (or from the start-up code), and their
transfers wait for the task's (`BusFree`); a failing write may have reached a part of
the registers. A restart keeps the chip's registers and writes all but the
outputs. `unheard` is the history of changes no edge tells of, `told` and `want`
those of what callbacks were scheduled with and pins were set to. The scheduler
may refuse a report at any time, since its stack of eight is everybody's; the
driver does not notice, and `dropped` names the pins whose callback is out of
date by that, until their next change is reported. That what the scheduler took
runs in the end, in its order, is `MpSched`'s.

### VirtualTimers

Python runs scheduled callbacks between two bytecodes of the program, at a jump,
and never inside one another (`MpSched`). So callbacks are whole: a tick is
`TickBegin`, an `Advance` for each task, what the task's function calls
(`TaskCalls`), `TaskReturns` and `TickEnd`, and nothing comes in between; calls
of other callbacks are one step (`ScheduledCallback`). The program's `delete` and
`update` are a step from each jump to the next: `Find`, `Filter`, `Store`,
`Compare`, `Assign`; its `new` has no jump. `Stop` and `Begin` may be called by
the program, by a callback, and by a task inside the tick that called it. A list
comprehension is `Collected`, a recursive function of how far its loop has come,
because `Filter` stops on the way. Time is counted in periods. A task whose
callback returned no new time, or that was deleted, is `ended`; an update before
the end of the tick revives it, as in the code. A callback that raises counts as
one that returns -1. `meddled` is a history: whether a callback has deleted a
task or stopped during a tick, or the list has changed during a call of the
program.

## 3. Runs

| run | shows | bounds |
|---|---|---|
| `sndmixer_alloc` | ids unique while two threads race in `new_id`; no unfilled buffer is used, and a null source only by `FREQ` for id 0; no command overtakes its sound; no sound leaves without a reason | 2 threads, 2 channels, queue of 2, 3 ids: a third sound needs eviction, two threads make a failed compare-and-set, a queue of two can reorder; `FREQ` for id 0 |
| `sndmixer_heard` | what plays is what was asked for last, a callback never runs while its own sound exists, chunks come in order | 3 sounds over 2 channels, so that the third evicts or follows an ended one, 3 chunks each: looping, pausing, resuming and reusing a channel; callbacks and stops for id 0; one thread and a queue of one, as threads race and commands pile up in the other runs |
| `sndmixer_live` | armed sounds start, playing sounds end; STOP takes effect and queueing calls return, but for a trapped mixer | 2 threads on a queue of one, one channel used twice by sounds of one chunk (which trap the mixer when they loop), of two, and of one that cannot be rewound, a period of 2 sub-notes; sounds start by the beat |
| `microphone_ring` | the ring refines `FrameFifo`; no decision goes stale; frames whole, owned and freed once; at most one frame lost for each stop; `read` returns | 3 slots (so the wrap and a middle slot), 5 addresses (ring, one in each hand, one leaked), 2 starts |
| `fsoverbus` | no partial file, each message answered once and in order, acknowledged uploads stay or are where they were moved, undisturbed requests are answered but for those dropped in silence | 2 messages of 12 shapes over 2 files, a ring of 4 units, headers of 2, packets of 3, a name's end among the first 2, one give-up, one power cut: a message that overtakes another's end, every split of a header, uploads that one packet brings whole and too long, or fails and then answers, a copy or move after an upload and into it |
| `mp_sched` | accepted items start once and in order; the counter counts the open regions; no wake-up is lost; nothing preempts; every accepted item is started | 2 threads, an interrupt source, 2 slots (full, and one that moves down), 4 calls, 2 finalisers, one Ctrl-C |
| `mp_thread` | types; the list stays whole; a suspended thread is parked and resumable; notifications, polled by a sleep or not, and strings are accounted for | main and 2 threads in either order (symmetric), 2 creations (a middle node that ends, a node freed and used again), a queue of one, 2 strings |
| `mp_thread_live` | a notified thread leaves its wait; an ended one is unlinked | main and one address used three times |
| `mp_thread_locals` | violated: see findings | |
| `ymodem` | no block out of place or twice; success means the whole file; both ends return | files of 0, 1, 3 and too many (4) blocks, numbers modulo 4 so that they wrap, limits of 2 to 3, one spoilt answer |
| `pca9555` | a callback knows what its pin reads, but for changes no edge tells of and reports that a full scheduler drops; outputs hold what they were set to; the task comes to rest | 2 pins of port 0, one of them an output, and an input of port 1 (the task reads the ports one after the other), 2 changes, 2 calls, one failed transfer, one restart |
| `virtualtimers` | the list holds the tasks that go on, no loop runs past its end, nobody overdue; whoever stays listed is served, also after calls have meddled with each other's loops | 2 tasks with 2 callbacks and 3 times, 2 calls from tasks, other callbacks and the program |

VOLUME is issued in no run: it sets a field nothing else reads.

`CHECK_DEADLOCK FALSE` stands where the system may rest or end: a microphone
client that deleted itself, a host without further messages, threads that have
all ended or wait, two ends that returned, an expander whose pins rest.

### Fairness

The mixer task has its own priority and waits for nothing but the I2S DMA: weak
fairness of its steps. Its accumulator grows with every sample and shrinks with
every chunk, so a chunk is exhausted again and again (strong fairness of
`NeedChunk`) and the mixer does not pass over short chunks for ever (strong
fairness of `Refill`); ticks grow, so sub-notes keep passing (strong fairness of
`Beat`). FreeRTOS wakes the longest-waiting of the highest-priority senders
blocked on a full queue: strong fairness of `SendQueue`. Nothing makes a client
call. `ArmedSoundStarts` and `SoundEnds` are claimed while rounds complete
(`RoundsComplete`): the drain loop of `sndmixer_task` ends only on an empty
queue, and clients that send without a break do keep samples from being mixed, as does a
trapped mixer.

The recording task has a core and priority 20; a thread inside `read` spins: weak
fairness of each. In FS over bus FreeRTOS runs every ready task: weak fairness of
each. `RequestAnswered` is claimed for behaviours without a timeout, a crash or a
host that gives up, since each of them loses messages by design, and for requests
that the functions do answer (`Answerable`).

In `MpSched` a section, being masked, ends; the thread with the GIL reaches the
opcodes that check and that switch; callbacks and finalisers end; the GIL is a
FreeRTOS mutex, given to the longest-waiting of its waiters. `ScheduledRuns`
needs one thing the machine does not do by itself (`Cooperative`): it bounces the GIL only while the scheduler is idle
(`py/vm.c:1340`), so once a callback has given the GIL away in a call that
blocks, a thread that never blocks keeps the scheduler locked for ever.

In `MpThread` the tasks that are not suspended and the idle task run: weak
fairness of the steps after a wait, of an ending thread's steps and of the
clean-up. That the idle task runs is an assumption on the programs: it has the
lowest priority, and a thread that never blocks keeps it, and so every clean-up,
from running. In `YModem` reading a byte returns a byte or, after a second, none:
weak fairness of each end; nothing is assumed of the line. In `Pca9555` the task,
of priority 10, runs and transfers end: weak fairness of `Task`; levels change a
bounded number of times, which is the rest `AllTold` speaks of. In
`VirtualTimers` the hardware timer repeats and callbacks return: weak fairness of
`TimerCallback`.

## 4. Findings

`mp_thread_locals` is a run that TLC must find violated: a collection marks the
stack of a waiting thread from a stack pointer that was recorded earlier, or
never (`mpthreadport.c:196`); what only its younger frames point to is freed.

Other behaviour met while modelling, which is in the models unless stated
otherwise, and which the properties are stated around:

- mixer: `start_at_next` outlives its sound (`sndmixer.c:361`), the next sound in
  the channel may start although nobody played it; the callback outlives it as
  well (`sndmixer.c:120`) and may run for the next sound; after a rewind
  `continue` drops the first chunk of a round (`sndmixer.c:371`). A looping sound
  of one chunk therefore never leaves the refill loop: no command is handled any
  more, its own STOP included, and callers block on the full queue for ever
  (`Trapped`, which `StopTakesEffect` and `QueueCallReturns` except). Id 0, which
  no call returns, matches the first free channel (`sndmixer.c:264`): `freq(0, f)`
  and `waveform(0, w)` follow its null source and restart the badge (`Panic`);
  `on_finished(0, f)` waits for whatever sound the channel gets next.
- microphone: a start that fails leaves `running` set without a task
  (`driver_microphone.c:116`): `read` waits for ever, `disable` deletes its
  caller or a task that is gone.
- FS over bus: a notification left over from bytes already read stops the timeout
  of an incomplete message for good (`backend.c:96`, `ReadNothing`), and the next
  message is then taken for its payload. A host that does not wait for answers can lock `stm32_task` and
  `fsob_task` against each other; `cpyfile` empties its target before it knows
  that the source opens (and keeps a handle of the one that did). Some requests are dropped
  without the "OK or ER" of the driver's README: an upload of 251 to 512 bytes,
  name included, whose name ends in its last packet (`filefunctions.c:123`,
  `WriteNameTooLong`: neither file nor reply, while a longer one that fails so is
  answered with ER); an upload without the end of a name; and any request
  without payload, as a function is called for packets only (`backend.c:101`,
  which also makes the `size == 0` of `filefunctions.c:33` unreachable).
  `Answerable` excepts exactly these.
- scheduler: an item scheduled from the other core while a section is open can be
  lost (`CoreOf` of another core; the checked runs and the theorems assume
  `OneCore`). Not in the model: a MemoryError while an argument is built leaves
  the section masked and the scheduler locked (`py/scheduler.c:298`);
  `free_carg` tests the argument's own type (`py/scheduler.c:66`).
- threads: a thread created and not yet run is skipped by a collection, its
  arguments are freed before it reads them (`mpthreadport.c:164`, in the model as
  `<<t, "args">>`); one suspended between its end and the idle task is never
  freed (`EndedIsCleaned` says so). A sleep looks for a notification with the
  call that takes its pending state (`mphalport.c:398`, `mpthreadport.c:562`): the
  sleep ends, the value stays to be read, but a `_thread.wait` that follows blocks
  although it was notified (fate "polled" in `NotificationKept`). `isnotified`
  returns the opposite of the flag (`py/modthread.c:314`); the properties speak of
  the flag.
- I/O expander: a change of port 0 between the reads of the ports, while port 1
  holds the interrupt line low, leaves it low for good: this and all later changes
  go unreported (`driver_pca9555.c:58`, `unheard`). A change reported while the
  scheduler's stack is full is dropped: `pca9555_event_handler` does not look at
  what `mp_sched_schedule` returns (`modpca9555.c:28`) and the task takes the pin
  for reported, so the callback keeps the old value until the pin changes again,
  for good if it does not (`dropped`). After a failed write the copy
  of a register, and what is returned from it, differ from the chip
  (`driver_pca9555.c:274`); after a restart of the ESP32 the first value that is
  set overwrites the other outputs of the port with ones
  (`driver_pca9555.c:26`). The bit that is written for a polarity is the inverse
  of what `include/driver_pca9555.h:54` says of the argument.
- virtual timers: after a callback has called `delete`, its outcome is stored in
  another task, or the tick ends in an IndexError (`virtualtimers.py:114`), as it
  does after a callback of the tick has called `stop`, which empties the list; what a
  tick or a callback does to the list while `delete` filters it is undone
  (`virtualtimers.py:55`); `update` raises an IndexError when a tick shortens the
  list under its loop (`virtualtimers.py:63`). `meddled` tells when one of these
  has happened.
- YModem: the sender repeats a packet on every NAK, without the limit the comment
  at `modymodem.c:585` speaks of; a receiver takes two EOTs and a silence for
  success without comparing lengths, which one misread answer can use
  (`Delivered` claims the whole file only for lines that misread none). Not in the
  model: after an unrecognizable byte `uart_consume` leaves the UART out of raw
  mode for the rest of the transfer (`modymodem.c:117`), so a later byte 0x03 of
  the file is taken for Ctrl-C (`uart.c:70`) and `mp_handle_pending`
  (`mphalport.c:191`) raises out of `Ymodem_Receive`, its file still open.

## 5. Proofs

Proved by TLAPS for every value of the constants, under the named assumptions of
the modules (positive sizes, distinct names) and, for the scheduler, `OneCore`:

| theorem | property |
|---|---|
| `TypeCorrect` | `TypeOK` of the mixer |
| `IdsStayUnique` | `IdsUnique` |
| `MixerPointersStayValid` | `MixerPointersValid` |
| `CommandsFollowTheirSound` | `QueuedBeforeUsed` |
| `SoundsLeaveWithReason` | `RemovedOnlyWhenJustified` |
| `SoundsPlayAsAsked` | `PlaysWhatWasAsked`, unless `START_AT_NEXT` is in use |
| `CallbacksFollowTheirSound` | `CallbackOnlyAfterItsSound` |
| `ChunksStayInOrder` | `ChunksInOrder` |
| `MicrophoneTypeCorrect` | `TypeOK` of the microphone |
| `DecisionsAlwaysHold` | `DecisionsHold` |
| `RingImplementsFifo` | the ring refines `FrameFifo` |
| `FramesHaveOneOwner` | `FramesOwnedOnce` |
| `HeapStaysAccounted` | `HeapAccounted` |
| `FsOverBusTypeCorrect` | `TypeOK` of FS over bus |
| `MessagesAnsweredOnce` | `AnsweredOnce` |
| `FilesStayWhole` | `FilesWhole` |
| `AckedStaysKept` | `AckedIsKept` |
| `SchedTypeCorrect` | `TypeOK` |
| `AcceptedRunsInOrder` | `FifoOnce` |
| `LocksAreCounted` | `LockCounts` |
| `WakeupsAreKept` | `WakeupKept` |
| `CallbacksNeverPreempt` | `NeverPreempts` |
| `MpThreadTypeCorrect` | `TypeOK` of the threads |
| `ThreadListStaysIntact` | `ListIntact` |
| `SuspendedAreParked` | `SuspendedParked` |
| `NotificationsAreKept` | `NotificationKept` |
| `StringsAreOwned` | `StringsOwned` |
| `FileIsDelivered` | `Delivered` |
| `TasksStayListed` | `TasksListed` |
| `TasksAreOnTime` | `OnTime` |
| `Pca9555TypeCorrect` | `TypeOK` of the I/O expander |
| `ReportsAreUpToDate` | `UpToDate` |
| `SettingsAreObeyed` | `Obeyed` |

**Mixer.** `SafetyInv == TypeOK /\ MixerPointersValid /\ IdInv`, with
`IdInv == IdsUnique /\ IdsIssued /\ QueuedBeforeUsed`. Uniqueness alone is not
inductive: a fresh id is unused only because every id in a thread, a command or a
channel is at most `curr_id` (`IdsIssued`), and a command follows its sound only
because nobody but the thread that is about to send the QUEUE command knows its
id (the second conjunct of `IdsIssued`). `MixerPointersValid` carries what the
refill loop relies on: the channel it works on is active and exhausted; since a
channel has a source just when its id is not 0, a null source is followed for id
0 only. A `Panic` ends in an initial state, so what holds initially holds after
it. The proof
has a lemma on the effect of each helper (`CleanedUp`, `Installed`, `Updated`,
`AutoStarted`), one on the effect of a command and of a sample on the ids, and a
step for each action.

The other mixer theorems rest on it. `RemovedOnlyWhenJustified` needs
`MixerPointersValid`: that no channel is free means that every channel has an id.
`PlaysWhatWasAsked` is inductive once no channel has an interval and no command
on its way sets one (`AskedInv`). A callback stays in its channel when its sound
leaves, so `CallbackInv` says of each one that its sound is in no other channel
and will never come again; it is kept because a callback is registered under the
id of the sound the channel holds, which `IdsUnique` makes the only one, and the
id of a sound that arrives is no callback's. `ChunksInOrder` needs to know how far
the decoder of a channel is ahead of what was heard (`HeardInv`): not at all
between refills (`InStep`), while within one a short last chunk may have been
passed over and a looping sound rewound, even more than once (`Refilling`).

**Microphone.** `RingInv` strengthens `DecisionsHold` with what the writer and the
reader have in their slots so far and with when a task exists. The free space a
writer saw can only grow until it publishes, the used space a reader saw only
grow until it advances; the arithmetic of the wrap is in `UsedFree`, `NthSlot`
and `NthInjective`. The refinement maps the ring to the sequence `Queue`, in
which the reader's copy stands for the slot it has cleared; `PutPublish` maps to
`Put`, `GetAdvance` to `Get`, and every other step to a drop, an empty read, a
reset or a stutter. The same lemmas on what a step does to `Queue` carry
`OwnInv`, which adds to `FramesOwnedOnce` and to the balance of the heap that the
frame being written is nobody else's and complete before it is published; that
`Start` frees just the frames in the ring is `PublishedIsQueue`. A live recording
may leak one frame more, when it is stopped (`LeakInv`).

**FS over bus.** `IInv == Typed /\ Queue /\ Mutex /\ Replies`. That messages
are answered in order is not inductive: it holds because headers are parsed in
order, which holds because first units stand in the ring in order, which holds
because those about to be stored there - by whichever of the two tasks fetched
them, hence `Mutex` - are of messages after all that were. `Queue` says this of
the ring, the units in flight and the host's position (`Top`). `Replies` says
that the message parsed last is after all answered ones as long as it awaits its
answer, and that a reply goes out only when the message is whole, which is why
no second one can follow. The cases are grouped by what a step does to the queue
(`QueueShifted`, `QueueFetched`, `QueueStored`, `QueueParsed`, `QueueAnswered`).

`FilesWhole` needs `FInv`, which adds four things to `IInv`. `Counted`: the
`.tmp` file of an open upload has the units received after its name, so one that
is closed has all. `Copied`: what is torn is the target of a copy being written,
or of one that came to an end and can never be answered with ok, because its
header has left the stream (`Passed`) and answers are only given to what is
parsed. `Order`: the stream - the ring and the unit in flight - holds units in
the order of the host, those of one message at least as far apart as their
places in it. `Calm`, while no host has begun anew too early: only the last
message is in the stream behind the packet, and the message received is the
last. That makes a file pure: a unit that comes in for one that was lost is
ahead of its place by one (`Gap`), so are all that follow (`Deficit`), and the
host runs out of units before the badge has counted the whole message
(`WholeIsPure`): such an upload is never closed.

`AckedIsKept` needs `AInv`, which says when a message counts: `Settled` is the
last message that was answered or is about to be, and an acknowledged upload is
in one of the files it can have been moved to by messages up to `Settled`, or
lost to a message up to it (`AckedSafe`). The message that overwrites a file
comes after all answered ones (`Replies`), so it can be named as the cause
before its answer is out. Two steps need more: `remove` and `rename` run only
after the ok of their upload (`Confirmed`), and a source is unlinked only while
its copy is whole (`Moving`).

**Scheduler.** `IInv` adds to `TypeOK`, `FifoOnce`, `LockCounts` and
`WakeupKept` who is
in which section (`Sections`: at most one on the core, which is where `OneCore`
is used), what the slots hold while items move down (`Slots`), and that the open
regions are finitely many. `NeverPreempts` follows from `LockCounts`: an item
starts only in state PENDING, in which no region is open.

**Threads.** `IInv` adds to the three properties the types they need, that
the blocked flag is set exactly during the steps of a wait (`Blocked`), that a
task the idle task will delete is not suspended (`TerminatedRuns`), that
only a thread in Python code holds the GIL (`GilInPython`): one that suspends
another holds it itself, so the other does not; and that what is pending was
sent and neither read nor polled (`NotesKnown`), so that only a read, a poll or
the second half of a wait can end it. `StringsOwned` counts the copies
in all queues as one set (`Queued`, a pair for each place that is taken), so that
a message, a read and the end of a thread are a bijection or a difference of
finite sets; that a broadcast leaks exactly the copies that found no room is the
one step where both sides move.

**YModem.** Every item that is numbered has a place in the transfer: the name 0,
a block its number, EOT and the empty packet the two after the last. `Credit`:
the sender's place, with the acknowledgements still on the line, is ahead of what
the receiver took by misread answers only. `Ordered`: the items on the line are
in the order of their places, none ahead of the sender or of what the receiver
took and the misread answers, and, with one misread answer at most, none older
than the last one taken. So the number of a packet in sequence, which is
right only modulo `SeqMod`, is at most one off the one to come, and two numbers
in a row differ for every modulus above 1 (`NextNumber`, `InSequenceFacts`): that
is why one misread answer cannot put a block in the wrong place, and why no bound
on the file or the counters is needed. `OneToken`: as long as nothing was
misread, one packet, or one answer to it, is under way, so a late answer cannot
acknowledge another packet; with `Filed` it makes success mean the whole file.
The sender's steps are one lemma (`SenderMoves`), the receiver's another
(`ReceiverKeeps`); the line loses (`LineShrinks`), grows (`LineGrows`) or has its
answers changed (`AnswersChange`).

**Virtual timers.** `IInv` says of a run in which no call has meddled with the
list under another's loop that the list has each task once and every one that
goes on, those that ended being marked until the tick's last filter (`ListOK`);
that the tasks behind the tick's loop have their new time or the mark, those
before it are not late (`TickOK`); and that the program's loop is inside the list
and has collected what it went past (`ProgOK`). The lists are made by
comprehensions, so the proof needs what a filter returns for every list
(`WithoutGone`). The library's induction theorems cannot be used (they take an
operator), so the recursive function behind it is shown to exist, and to keep
what it should, by a least counterexample (`LeastNumber`, from the theorem that
the naturals are well-founded): the one case of induction over data in the
project.

**I/O expander.** `UpToDate` speaks of the task at rest; its invariant of every
moment: what the task has read of a pin is right unless an edge is pending or it
is still to read that port (`AllRight`), and a callback knows the new value of
the pins that are reported already, the old one of the others, unless its last
report was dropped (`AllReportedRight`). The step that matters is a change of a
level: if the line was high it falls, and if it was low there is a read to come
or the change is unheard. `Obeyed` is inductive with the copy beside the chip (`Settled`).

The types of the modules with a `TypeOK` theorem are not checked by a run as well.

Every safety invariant and every action property that a passing run checks is
proved. Model-checked only: the liveness properties, which rest on fairness and
ENABLED and are out of reach of the prover, and `LocalsKept`, which is violated.

## 6. Not modelled

Decoders and sample arithmetic, I2S, hardware registers; `read(bytearray)` of the
microphone; running out of memory in `driver_microphone_ring_buffer_put`; in FS
over bus the UART backend, the `/dev/fsou` pipes and `pythonstdin`, which feeds
them, `fwrite` on a full flash (its results are not looked at), the double
deletion when `clearBuffer` runs in two tasks at once, what becomes of a task
that waits for room (`backend.c:133`) in the ring that `vRingbufferDelete` frees
(it is moved to the new ring, as if its wait had timed out and nothing had used
the memory yet), and a timer stop that its queue delays; the wrap of the mixer's ticks. In the scheduler the conversion of
C arguments; among the threads the locks that are taken without the GIL
(`sntp_mutex` in a sleep, `mphalport.c:310`, and `uart0_mutex`: a thread that is
suspended there keeps them until it is resumed), `_thread.lock`, the functions
that list threads and the end of all threads at a soft reset; in YModem the checksum, and the case
of several misread answers over a file of a multiple of 256 blocks, where the
final empty packet is written as data.

Among the virtual timers callbacks that return no number (a TypeError ends the
tick, and every later one, at that task), and `idle_time`, `pm_time` and `debug`,
which only read; of the I/O expander the three reads of a callback that a detach
may come between, and callbacks freed by a collection, to which they are not a
root.

The rest of the inventory is not modelled: the interrupt tasks of the touch
controller and the coprocessors, the radio, update and boot, the compositor, displays and sensors are hardware I/O with little state of their
own; the interpreter itself (compiler, objects, collector), Opus, MP3, MOD and
the fonts are sequential code, vendored or generated, in which there is nothing
to interleave, and they are most of the lines of the repository.

## 7. What could follow

1. FS over bus: the UART backend and the `/dev/fsou` pipes.
2. An abstract mixer (sounds with a life cycle, without channels) that `Sndmixer`
   implements.
3. The interrupt tasks of the touch controller and the coprocessors.
4. Update and boot: partitions, RTC memory and power cuts.
5. The HUB75 compositor's list and the window list.
