# A TLA+ development of the USB 3 FPGA acquisition card

The repository holds an eight-channel data acquisition card: an FPGA that samples
and streams, a Cypress FX3 that turns a slave FIFO into USB endpoints, and a Qt
application that asks for packets and plots them. This directory holds the TLA+
modules that describe its logic, the TLC configurations that check them on small
instances, and proofs that TLAPS checks for every value of the constants.

Paths below are relative to `src/`.

## 1. Inventory

### The parts

| Part | Source | State it keeps | Operations |
|---|---|---|---|
| FPGA slave-FIFO master | `fpga/src/main.v:15-408` | state machine, flopped flags and data, strobe delays, turn-around counters, word counter of a reply, request parser, `packets_to_send`, `ch_src`, `USER_LED` | one transition per clock; asynchronous reset when the PLL loses lock |
| FPGA telemetry | `fpga/src/main.v:227-280`, `fpga/software/nios_app/hello_world_small.c` | wait, global wait, transfer and write counters; the polling loop of the Nios | counters per clock; two bus reads per poll |
| FPGA sampling data path | `fpga/src/main.v:410-468` | channel multiplexer, shifters, output register | one sample word per clock |
| FX3 slave FIFO and DMA channels | `fx3/cyfxslfifosync.c`, `.h`, `fx3/cyfxgpif_syncsf.h` | OUT buffer of socket 3, buffers of sockets 0 and 1, next socket of the many-to-one channel, flags | GPIF read and write, hand-over of full buffers, USB IN and OUT |
| FX3 firmware application | `fx3/cyfxslfifosync.c` | `glIsApplnActive`, endpoints, NAK, two channels, speed | init, start, stop, SETCONF / RESET / DISCONNECT, CLEAR_FEATURE, FUNCTION_SUSPEND, error handler |
| DMA buffer allocator | `fx3/cyfxtx.c:685-1079` | status bit array, search position | init, alloc, free, de-init, leak check |
| Driver heap | `fx3/cyfxtx.c:230-540` | byte pool (ThreadX), in-use list, counters, switch of the checks | init, alloc, free, de-init, leak and corruption checks |
| Memory helpers | `fx3/cyfxtx.c:541-684` | the memory they are given | set, copy, compare |
| Host acquisition | `app/mainwindow.cpp:205-365` | read queue, counters, buffers, status | `send_bulk`, `send_and_read_bulk` |
| Host window | `app/mainwindow.cpp` | device, lists, endpoints, `communication_enabled`, channel lists, buttons | refresh, device chosen, select, start, output buttons, `populate_header` |
| Host plot | `app/mainwindow.cpp` | axis ranges and their limits | `limitAxisRange` and its slots, `update_plot`, levels of the graphs |
| Vendored or generated | QCustomPlot, CyAPI, BSP, IP cores, start-up code | | only as far as the parts above call them |

### How they interact

    application --request--> OUT endpoint --socket 3--> [FLAGC, FLAGD, DQ] --> FPGA
    application <--packets-- IN endpoint <--sockets 0,1-- [FLAGA, FLAGB, SLWR, ADDR, DQ] <-- FPGA

* A request is one OUT transfer: a header word, the number of packets, two words of
  channel selection, LEDs, and zeros up to the DMA buffer size
  (`app/mainwindow.cpp:473-502`).
* The FX3 moves data in AUTO mode, without its CPU. (`fx3/readme.txt` and the
  comment at `fx3/cyfxslfifosync.c:42-45` describe callbacks of MANUAL mode; the
  header defines `AUTO`, at `fx3/cyfxslfifosync.h:32`, so that code is compiled out.)
* Socket 3 has one OUT buffer; sockets 0 and 1 have four IN buffers each. A buffer
  is 16 packets of the current speed: 16 KB at SuperSpeed, which is one packet of
  4096 words of the FPGA.
* The FPGA reads a request when FLAGC says that there is one, parses it while it
  reads, waits for FLAGA and FLAGB once, and writes the whole reply blind. It
  alternates between thread 1 and thread 0, one packet each.
* The application keeps two reads of eight packets in flight, and finishes them
  slot by slot.

### What is hard here

* **Pipeline timing.** SLRD, SLWR, ADDR, the flags and DQ pass through different
  numbers of flops. The end of a read, the turn-around of the bus, the parser and
  the decision to reply have to be in step to the cycle, and a simulation exercises
  only one length of request.
* **Flow control that is checked once.** The FPGA asks thread 1 for space before the
  first word, and thread 0 never. What keeps words from being lost is the size of
  the buffers against the size of a transfer.
* **Order.** The first packet of an even reply goes to thread 1, the channel empties
  socket 0 first: packets arrive exchanged in pairs. The pattern check of the
  application cannot see this, because a packet is a whole number of periods of the
  pattern.
* **Time-outs and failures** in the host loop: it goes on after a time-out, with
  slots used again.
* **The bit allocator**: blocks whose last line looks free, a search from a cached
  position, masks over word boundaries.
* **Start, stop, halt** of the firmware while traffic goes on, with unchecked calls,
  some of them through functions for another kind of channel.
* **The heaps**: one of two copies of the same list code runs without a lock; checks
  that are switched on late change the layout of blocks; the status array of one heap
  is a block of the other.
* **Two readers, one counter**: the Nios program polls in two bus reads while the FPGA
  counts and clears.
* **Slots that call themselves**: limiting a range changes it, and the change calls
  the slot again. Lists and objects in the window outlive the device they describe.

The list of hazards, each with its line and the properties that would notice it, is
in `PROJECT.json`.

### What makes each part correct

* Master: the bus is never driven by both ends; the address belongs to the word;
  a reply is decided on, and keeps, the count of the request just read.
* Link: a request is read whole; no word of a reply is lost; a reply answers the
  last request; the host gets every packet, whole and in a known order.
* Allocator: no line handed out twice, none beyond the heap, bits account for the
  blocks, an allocation fails only for lack of room.
* Firmware: active means ready, stopped means clean, and the device restarts as
  often as the host asks.
* Host: success means the right data in the right buffers; each read is finished
  once and none is left in the driver; each call returns.
* Heaps: the in-use list shows every block once, and the leak check tells the truth;
  the status array is given back; helpers touch nothing but their block.
* Data path: what is chosen in the window is what the plot draws; no sample is lost or
  repeated between the two clocks; counters agree with the transfers.
* Window and plot: lists belong to the open device, transfers use the endpoints that
  were selected, and the slots end with a range inside the limits.

## 2. Modules and code

| Module | Models | State and actions |
|---|---|---|
| `SlaveFifoMaster` | `main.v` registers on `clk_pll` | One step is one rising edge. Variables have the names of the registers. One action per state of the state machine, each conjoined with `Registers`, which updates every other always block at the same edge. The pins of a cycle are the argument. `Reset` is the loss of the PLL lock. |
| `AcquisitionCard` | the promise of the card | `CardSubmit`, `CardDeliver`; abstract specification |
| `SlaveFifoLink` | FPGA + FX3 data path + host transfers | extends `SlaveFifoMaster`: `Tick` is one clock of FPGA and GPIF together, `Submit` an OUT transfer, `Deliver` a packet read by the host |
| `Telemetry` | the counters of `main.v`, and `hello_world_small.c` | one step per clock with the state machine reduced to its states; at any clock the Nios may finish the bus read it is at |
| `CardBytes` | the bits and bytes of requests and samples, in `main.v` and in the plot | operators only, used by the next two |
| `SignalPath` | channel lists, buttons, `populate_header`, parser, multiplexer, plot | a request is written word by word into the parser; counter and buttons of the card are probed with every bit |
| `SampleStream` | counter, shift register at 200 MHz, two flops at 50 MHz, the pattern check | one step per edge of the fast clock, every fourth also of the slow one |
| `SlFifoApp` | `cyfxslfifosync.c` | start-up, then callbacks as sequences of SDK calls (`todo`), of which one action per kind executes the next; checked calls end in the error handler when they fail, unchecked ones (`unnoticed`) leave things as they were, on either channel; `DataIn`, `DataOut` are the traffic beside them |
| `DmaBufMgr` | `CyU3PDmaBufferInit`, `Alloc`, `Free`, `SetStatus` | the bit array as the set of bits that are set; each call is one step because the code holds a mutex |
| `DmaBufLoops` | the search and mask loops of the same functions | a loop is a function of the number of its turns, compared with the set expressions in every reachable state |
| `InUseList` | what the in-use list promises | a sequence of blocks; abstract specification |
| `HeapCalls` | alloc, free and corruption check of both heaps with their list code | one step per statement that other threads can see, `at` is the place of each thread; `Locked` tells the buffer heap (mutex) from the driver heap (none). Places may share memory (`Overlapping`): `Overwrite` writes over what a free left, and a check that stands there goes on anywhere (`CheckAstray`) |
| `FirmwareHeaps` | initialisation, de-initialisation, the switches of the checks, both heaps together | one step per call |
| `MemHelpers` | `CyU3PMemSet`, `CyU3PMemCopy`, `CyU3PMemCmp` | one step per byte, with the unrolled loops |
| `HostTransfer` | `send_and_read_bulk`, with the driver queue and the card as a mailbox | one action per call of the driver; `pc` names the place in the loop |
| `HostWindow` | device list, endpoint lists, Refresh, Select, Start, output buttons | one action per slot of the window; `Hotplug` is the world |
| `HostPlot` | `update_plot`, `limitAxisRange` and its slots, `setRange` and `scaleRange` as they use them | the calls under way are a stack; `SetRange` executes the top one |
| `MCSlaveFifoMaster`, `MCSlaveFifoLink`, `MCDmaBufMgr`, `MCHostWindow` | | values for the constants |
| `MCFirmware` | `SlFifoApp` and `MCDmaBufMgr` beside one another | a behaviour runs the part it began with |
| `MCCardParts` | `SignalPath`, `SampleStream` and `Telemetry` beside one another | the same |
| `MCHeaps` | `HeapCalls`, `FirmwareHeaps` and `MemHelpers` beside one another | the same |
| `MCApplication` | `HostTransfer`, `MCHostWindow` and `HostPlot` beside one another | the same |
| `SlaveFifoMasterProofs`, `SlaveFifoLinkProofs`, `CardPartsProofs`, `SlFifoAppProofs`, `DmaBufMgrProofs`, `HeapProofs`, `HostProofs` | | the theorems of section 5 |
| `InductionLemmas` | | induction for the proofs that need it |

Definitions whose comment begins with `Mutant` are variants with a plausible mistake
(a lost minus one, a skipped reset). No specification uses them. They are kept to show
that the properties notice such mistakes: with a variant in the place of the
definition it varies, TLC finds the property listed with it in `PROJECT.json` violated.

### Assumptions about what is not in the repository

* FLAGD falls when four words are left in the OUT buffer. The firmware sets a
  watermark of 6 for the read thread (`fx3/cyfxslfifosync.c:569-575`); the GPIF block
  needs the rest of it to show the flag. With the two flops of the FPGA this is the
  value at which a read ends with the last word of a buffer, and `WholeRequests`
  shows that it does.
* FLAGB is the partial flag of thread 1; the firmware configures a watermark for
  threads 0 and 3 only, so it is taken to be "thread 1 has a buffer", like FLAGA.
* Data shows on DQ two cycles after the read strobe; ADDR is sampled with the strobe.
* `tx_byte_allocate` and `tx_mutex_get` of ThreadX are atomic; a mutex that is not had
  in time is not had at all, and the call then returns without effect. The heaps are
  initialised and taken down by a thread, not by an interrupt handler: from there the
  code would not wait for the mutex and would return with the heap still in place.
* The loop of the Nios can stop between its two bus reads for any time.
* CyAPI opens the device that is at a position of the driver's list at the time of the
  call. `QCPAxis::setRange` refuses an empty range and the range it already has.
* The many-to-one channel empties its sockets in turn, socket 0 first. A full IN
  buffer is handed to the USB side at once.
* The driver completes the reads of an endpoint in the order they were begun, and
  `Abort` cancels every read in flight before it returns. CyAPI uses direct transfers
  unless told otherwise (`XferMode`).
* What the SDK does when a single-channel function is given the handle of a
  multi-channel is left open: each of destroy, reset and transfer size works or does
  nothing, the same way throughout a behaviour (`WrongHandle` is the set of the mixes
  considered). Besides, every call whose result the firmware drops may fail on its own,
  on either channel, and then has no effect; so may every checked call. `GetSpeed` fails
  when the host has gone (`fx3/cyfxslfifosync.c:248-251`).
* Only a channel that stands idle takes a transfer size.
* A block of a heap keeps its header until memory goes into a block that begins elsewhere
  and is written there; from then on what a reader finds in the old header is anything.

## 3. What is checked

Six runs ask whether the properties hold; six more, marked **violated**, are expected
to fail, and each stands for a finding below.

| Run | Question | Bounds |
|---|---|---|
| `master_pins` | Does the FPGA keep the protocol whatever the FX3 does with flags and data? | all flags free in every cycle; data among a count, the header and zero; packets of two words (smallest with a first and a last word); FLAGD falls after at most two parsed words, so reads of every length from the shortest occur |
| `link` | With the FX3's buffers: are requests read whole, replies complete, and the card's promise kept? | packets of two words; four buffers per socket as in the firmware; replies of 0, 2, 8 (one transfer, and as many as the buffers), 10 and 16 packets, so that replies longer than the buffers occur; requests of seven words (five fields and padding); three channel selections, so a stale one is noticed; `Backlog` 5, the most that `NoWordIsLost` allows |
| `card_parts` | Is what is chosen in the window what the plot draws and the outputs show? Does the step from 200 MHz to 50 MHz lose or repeat samples? Do the counters agree with the transfers, and does the Nios print a wait whole that it looks up between its end and the next request? | *path*: a bit of the counter, nothing and a push button for every channel (`Listed`), the ends of the slider, three actions of the user; counter and buttons probed one bit at a time, which is enough because the multiplexer treats each bit alone. *Sampler*: the counter at its full eight bits, so that it wraps; packets of 256 bytes, one period of it. *Counters*: packets of two words, replies of none, one or two packets, a transfer counter that wraps at two, three requests, waits of up to two cycles at each flag |
| `firmware` | Is an active device ready and a stopped one clean, and does it restart as often as the host asks? Are allocator and bit loops right in every reachable state? | *application*: all orders of events, all speeds; calls, checked and not, that may fail at any point, each alone, and that do not (`Shortages`); on the many-to-one channel none of the single-channel calls works, only destroy, only the other two, or all (`WrongHandle`). *Allocator*: three words of six lines, so that the array wraps and a hole can lie across the start of a search; blocks of 2, 3 and 9 lines: within a word, ending at a boundary, and over three words |
| `heaps` | Is the in-use list right between the statements of two threads? Do both heaps come and go, with checks switched at any time, without a lost or a misread block? Do the helpers do to the bytes what their names say? | *calls*: two threads; four places, of which two overlap, and three allocations: three blocks are in use at a time, so that one in the middle of the list is freed, and the memory of a freed one is allocated again, at its own place and at the one that overlaps it. *Lifecycle*: three blocks of the driver heap (the status array and two more), two of the buffer heap, four counted allocations. *Helpers*: every length up to 20 (twice the unrolled eight and a remainder), every pair of addresses in 20, so every overlap; memories with all bytes different and with equal stretches |
| `application` | The read loop against late, failing and refused reads; do lists, open device and endpoints fit together while devices come and go; do the slots that limit the axes end, within the limits? | *transfer*: up to three transfers with a queue of two, so that slots are used twice and the last reads are finished without new ones; two faults per call; what an earlier call left in the card stays there for the next one. *Window*: three devices, the card, its boot loader without endpoints, and a board with several; any number of actions. *Plot*: captures of 6 and 9 samples; the user drags and zooms to every range within 12 on both sides; y ranges with and without the outermost levels |
| `host_finish_index` | Is the buffer given to `FinishDataXfer` the buffer of that read? **Violated** | three transfers, no faults |
| `buffer_size_comment` | Have the DMA buffers the size that the comment at the top of the file gives? **Violated** | all speeds, no call fails |
| `buffer_odd_heap` | Does the heap's end hold when the last word is not full? **Violated** | fourteen lines: the last word has two of six |
| `buffer_cut_run` | Is a block found whenever there is one? **Violated** | as `firmware` |
| `driver_heap_race` | The list of `heaps` without the mutex. **Violated** | three places, none of which overlap |
| `window_button` | Is there an endpoint when a button sends? **Violated** | the card |

In `card_parts`, `firmware`, `heaps` and `application` a behaviour belongs to one part, chosen in its
first state, and the others stay as they are. The parts share no state in the code
either, except for the endpoints of the window, which a transfer uses and does not change
(the window cannot be used during one: all of it is one thread), and the buffers that
channels take from the allocator (a creation may fail for lack of them: `Shortages`). Each property is about
one part, and fairness is stated for each part alone.

The modules have a type invariant of their own where a proof needs one (section 5); TLC
checks the one of the master, the only part with counters that could run out of their
registers.

Two runs do not check for deadlock, because the system really stops there:
`window_button` (a failed assertion ends the program) and `driver_heap_race` (the bound
on allocations is used up). Elsewhere an end of the code is a step of its own:
`CyFxAppErrorHandler` is the endless loop of `fx3/cyfxslfifosync.c:82-99`, a helper that
has returned stays so (`HelperEnded`), and so does a user whose actions are counted
(`UserIsDone`).

### Bounds, by name

`BurstWords` (4096 in the card), `CtrMod` (2^32), `Words`, `MaxRead` (a DMA buffer
ends), `OutWords`, `Counts`, `Configs`, `Backlog`; `TxMod` (2^16), `MaxRequests`,
`MaxWait`; `MaxTransfers` (256 on the slider), `CardChunks`, `MaxFaults`; `Lines`,
`WordBits` (32), `Sizes`; `MaxAllocs`, `Overlapping`, `MaxCounted`, `Size`; `Shortages`, `WrongHandle`; `Listed`, `Transfers`, `MaxActs`,
`CountProbes`, `ButtonProbes`, `BurstBytes`; `Reach`. The word counter and bit 12 of
the code scale with `BurstWords`; nothing else in the master depends on the length of
a packet, and the theorems of section 5 hold for every value.

### Liveness and fairness

* `CardImplemented` includes "what is owed is delivered". It assumes that the clock
  ticks (`WF(Tick)`: the PLL is locked) and that the host reads (`WF(Deliver)`: the
  application has its reads in flight before it sends a request).
* `CallReturns` assumes that the thread of the application runs (`WF(Call)`, which is
  `Reading` in the run) and that card and driver act (`WF(Device)`, `Answer`). It does not
  assume an answer: the time-out of `WaitForXfer` ends the wait, and when the card has
  nothing to say it is the only thing that can.
* `RestartSucceeds` assumes that the USB thread runs its callback to the end
  (`WF(Callback)`, `Handler` in the run). It is about behaviours in which no call fails for
  reasons from outside (`~mayFail`) and the single-channel destroy works on the many-to-one
  channel: `LostForAReason` says what happens when it does not.
* `CallsEnd` assumes that a call, once made, is executed (`WF(SetRange)`, `Axes` in the
  run): nested calls in one thread of the application, which returns to the event loop
  only when the stack is empty.

In no case is the arrival of requests, events or new calls assumed. That the USB side
keeps up with a reply longer than the buffers is not fairness but a guard on the clock
(`KeepsUp`): the FPGA does not look, so the host has to be in time.

### Findings

1. `app/mainwindow.cpp:302`: the index of the buffer handed to `FinishDataXfer` is
   `buffer_counter - read_offset`. `buffer_counter` stops growing when the last read
   has begun, so the completions of the last reads name the buffer of an earlier one.
   In direct mode only the name is wrong.
2. `fx3/cyfxtx.c:736`: the mask for the lines beyond the heap has the complementary
   length. With the heap of the firmware, a multiple of 32 lines, it is not used.
3. `fx3/cyfxtx.c:901`: the search starts at the first bit of the word of the last
   allocation and counts from zero, so it misses a hole that lies across that point
   and the allocation fails although there is room. (Words of fewer than six bits
   cannot show this: hence the bound of `firmware`.) `UncutRunsFound` says that
   nothing else is missed, and `FreeMakesRoom` that the next free repairs it.
4. `fx3/cyfxtx.c:347`: the in-use list of the driver heap is changed without a lock;
   two allocations at a time lose a block from it. The list is only kept once the
   checks are enabled, which this firmware does not do.
5. `app/mainwindow.cpp:516`: the output buttons work before Select; `send_bulk` asserts
   its endpoint before it looks at `communication_enabled`.
6. `fx3/cyfxslfifosync.c:47-48`: the comment gives DMA buffers of 64, 512 and 1024 bytes;
   the code (279 and 304) makes them `DMA_BUF_SIZE` = 16 times as large. The FPGA counts
   packets of 16384 bytes, so the code is right and the comment out of date.

### What the properties say about other weak places

Where the code does something doubtful but nothing in the repository says otherwise,
there is no finding; a property says how far the trouble can go.

* `fx3/cyfxslfifosync.c:371-372`: stop destroys both channels without a look at the
  results, the many-to-one channel through the function for single channels.
  `StoppedMeansClean` says that a channel is gone unless its own destroy failed;
  `LostForAReason` that, short of failing calls, a many-to-one channel left behind by a
  stop is the only thing that can lose the USB thread.
* `fx3/cyfxslfifosync.c:458` and `471`: after a reset the transfer size is set again, and
  nobody looks at the result. When only this call fails the application stays active with a
  channel that stands still, until the next halt, reset or configuration.
  `ActiveMeansReady` says that this is the only way to such a state.
* `fx3/cyfxslfifosync.c:465`: clearing the halt of the IN endpoint holds off the OUT
  endpoint, and nothing stops the FPGA: a reply under way goes on into the channel that
  was just reset. `HaltDropsRequest` is stated for the OUT endpoint alone.
* `fx3/cyfxtx.c:1161`: the corruption checks take no lock, so the check of the buffer
  heap can report a block whose footer is not written yet, and can stand at a block that
  is freed and the memory of which then goes into another one: it reads the data of the
  new owner as a header, possibly long after the allocation, and fails or goes astray.
  `AlarmNeedsAllocation` says that at least one allocation must have been under way at
  some time during the check: frees alone never make it fail.
* `fpga/software/nios_app/hello_world_small.c:91-95`: the Nios prints on every edge of the
  flag, also on the falling one, and reads the counter in a second bus read. What it prints
  then, or when the next request has begun in between, may be a part of a wait.
  `WholeWaitPrinted` is about the other prints: the flag was up after the wait of a request
  and the counter was read before the next one.
* `app/mainwindow.cpp:380`: Select with empty lists fails a conversion that the code
  asserts. `ListsOfDevice` says when the lists are empty.
* `app/mainwindow.cpp:573`: `communication_enabled` is never cleared, and endpoints are
  looked for in the alternate setting that was set last. The devices of the run have one
  setting, as the card has.
* `app/mainwindow.cpp:176`: the limits of the y axis are never set and read as an empty
  range. It has no effect, because `setRange` refuses it.

## 4. What the properties rest on

`NoWordLost` is the property closest to the edge. The code asks for space once, for
thread 1 only. For one transfer of eight packets it holds however late the host reads,
because the sockets are empty when a request is sent (`SocketsHoldReply`: the application
sends the next request when it has every packet) and hold four packets each. For longer
replies it holds only while the USB side keeps up; `Backlog` says how far it may fall
behind, and `Room` in `SlaveFifoLinkProofs` how far is not too far.

`CardImplemented` maps the state of the host in `SlaveFifoLink` to the variables of
the same name of `AcquisitionCard`. The words of a reply are tagged with their place
and their channel selection, so a word lost, repeated, exchanged or sampled with
another selection would show in a packet. `ArrivalNo` states the exchange in pairs.

`ListImplemented` maps the linked list of `HeapCalls` to the sequence of `InUseList` by
following it from the head, but takes a block as listed, or as gone, from the statement
on that makes it so for every other call under the mutex.

`EndpointsAsPicked` ends where a device is opened again: `BulkInEpt` and `BulkOutEpt`
then point to objects that are gone, until Select is clicked (`app/mainwindow.cpp:440`).

## 5. What is proved

`SlaveFifoMasterProofs` proves, for every packet size, word width, header and set of
data words allowed by `MasterAssumption`:

| Theorem | Statement |
|---|---|
| `TypeCorrect` | `MasterSpec => []TypeOK` |
| `PipelineInvariant` | `MasterSpec => []ReadPipeline` |
| `BusNeverShared` | `MasterSpec => []BusTurnaround` |
| `DecisionSeesCount` | `MasterSpec => []CountBeforeDecision` |
| `AddressCorrect` | `MasterSpec => []AddressMatchesBurst` |
| `CountIsStable` | `MasterSpec => CountStable` |

The argument: neither `BusTurnaround` nor `CountBeforeDecision` is inductive, since a
state in which a write begins while a strobe is still in flight satisfies the former.
`ReadPipeline` says, for each state of the state machine, which of the three delayed
strobes are low, where the parser stands and what the two delay counters hold.
`TypeOK /\ ReadPipeline` is inductive; the properties follow from it, `CountStable`
as a statement about its steps. `AddressMatchesBurst` needs one more fact, that the
registered address is that of the previous value of the counter. The proof has one
lemma per part of the invariant and one step per action.

`MasterAssumption` bounds a read (`MaxRead + 8 < CtrMod`): the parser position is a
32-bit counter and must not wrap within one buffer, which holds a few thousand words.

`DmaBufMgrProofs` proves, for every heap size, word width and set of block sizes of at
least two lines (`DmaBufAssumption`):

| Theorem | Statement |
|---|---|
| `BlocksTyped` | `BufSpec => []BufTypeOK` |
| `BitsAccountForBlocks` | `BufSpec => []BitsMatchBlocks` |
| `BlocksEndClear` | `BufSpec => []ClearEnds` |
| `NeverTwice` | `BufSpec => []NoOverlap` |
| `HeapNotExceeded` | `BufSpec => []BlocksInHeap`, if the last status word is full or at least half full |
| `SearchFindsUncut` | `BufSpec => []UncutRunsFound` |
| `FreedCanBeAllocated` | `BufSpec => FreeMakesRoom` |
| `LoopsAgreeHolds` | `BufSpec => []LoopsAgree` |

The code marks a block of n lines by n-1 set bits, so the status array alone does not
say that the last line is taken, and `NoOverlap` is not inductive. `ClearEnds` is the
reason why it works: the search wants n+1 clear bits and leaves the first one clear as
well, so the line before a block is never set, the last line of a block is followed by
no other claim to it, and a free stops where its block ends. `BitsMatchBlocks` and
`ClearEnds` together are inductive, and two blocks between clear bits cannot overlap.
(`ClearEnds` also implies that no block starts at line 0, whose address
`CyU3PDmaBufferFree` would refuse.) `HeapNotExceeded` has the exact condition under
which the mask of finding 2 is long enough.

`LoopsAgreeHolds` ties all of this to the loops as they are written, by induction over
their turns. `Searching` says what the search knows before its k-th bit: its count goes
back to a set bit, to the top of the array or to where it began, so it stops exactly at
the first bit for which `Counted` holds. `MaskInv` says which part of the range is done
and that a mask which does not end its word ends the range.

`SlaveFifoLinkProofs` proves, for every length of packet, request and reply
(`LinkAssumption`: an even count, and no reply of 2^32 words), when FLAGD falls at the
fourth word from the end:

| Theorem | Statement |
|---|---|
| `LinkTyped` | `LinkSpec => []LinkTypeOK` |
| `WholeRequestsRead` | `LinkSpec => []WholeRequests` |
| `ReplyFollows` | `LinkSpec => []ReplyFollowsRequest` |

The inductive invariant `LinkInv` follows a request word by word. `ReadInv` ties the
words left in the OUT buffer to the strobes in flight, to the words in the two output
registers of the GPIF and in `DQ_d`, and to the fields that are parsed (`StrobesAt`,
`FieldsAt`); the last word is taken in the very cycle in which the strobe ends only
because FLAGD falls four words before. `ReplyFollowsRequest` needs in addition that a
request is not replaced while it is answered: the host sends the next one when it is owed
nothing, and `ReplyInv` says that no more words have arrived than were written, so at that
time the reply is over (`RestBeforeSubmit`).

The second part of the module builds on it, for any number of IN buffers, under `Room`: every
reply fits the buffers of both sockets, or `Backlog + 2 < 2 * InBufs`.

| Theorem | Statement |
|---|---|
| `NoWordIsLost` | `LinkSpec => []NoWordLost` |
| `SocketsHold` | `LinkSpec => []SocketsHoldReply` |
| `CardSimulated` | `LinkSpec => Card!CardInit /\ [][Card!CardNext]_(Card!cardVars)` |

FPGA and channel take turns independently of each other. `RoomInv` says that they stay in
step: the words that a socket holds and those still to be written to it (`Ahead`) are
exactly the packets that the host will take from it (`Owe`). Hence the thread that is
written is at most one packet ahead of the other, and a socket whose turn it is can be
empty only if the other holds at most one packet. `ContentInv` adds which packet each
buffer holds. With it `Deliver` is `CardDeliver`, `Submit` is `CardSubmit` and a clock
changes nothing that the host sees: the safety part of `CardImplemented`, if the
selection after a reset is one of `Configs`.

`CardPartsProofs` is about the three parts of the card beside its state machine. The
telemetry, for packets and waits of any length and any word widths:

| Theorem | Statement |
|---|---|
| `TelemetryTyped` | `TelemetrySpec => []TelemetryTypeOK` |
| `CountersAgreeHolds` | `TelemetrySpec => []CountersAgree` |
| `WholeWaitPrintedHolds` | `TelemetrySpec => []WholeWaitPrinted` |

`TelemetryInv` counts the words sent of the reply under way and what the Nios has seen.
Two bus reads between the end of a wait and the next request are safe because the flag is
set only when the wait is over, and the wait counter is cleared only together with the
flag. Of the other prints (section 3, weak places) nothing is claimed.

The way of a request, for any lists, buttons and counts and any number of requests:

| Theorem | Statement |
|---|---|
| `SignalInvariant` | `SignalSpec => []SignalInv` |
| `LastRequestInForceHolds` | `SignalSpec => []LastRequestInForce` |
| `GraphsShowSelectionHolds` | `SignalSpec => []GraphsShowSelection` |

`SignalInv` says that the wire holds whole requests but for the one that is read, that
the last six of its words are those of the request sent last, and that the
registers hold what has been read of it. The rest is about bytes: a byte made of eight
bits has these bits (`ByteOfBits`), the bit that the multiplexer puts a channel into is
the one that its graph shows (`GraphShowsChannel`), a count survives its four bytes
(`CountSurvives`).

The sampler:

| Theorem | Statement |
|---|---|
| `StreamInvariant` | `StreamSpec => []StreamInv` |
| `WordsJoinHolds` | `StreamSpec => WordsJoin` |
| `CheckIsSilentHolds` | `StreamSpec => []CheckIsSilent`, if `BurstBytes % 128 = 0` |

`StreamInv` counts the samples in the three registers back from `data_gen` and `phase`.
Each byte is the counter with its bits turned round, and `reverse` turns them back
(`ReverseTurns`, `SampleIsCounter`). With packets
exchanged, the check stays silent because the end of the second joins the start of the
first when two packets are a whole number of turns of the counter: the condition. The
16384 bytes of a packet of the card (`PACKET_SIZE`, `app/mainwindow.cpp:13`) satisfy it.

`SlFifoAppProofs` is about the firmware, for any host and any results of the SDK:

| Theorem | Statement |
|---|---|
| `PhaseInvariant` | `AppSpec => []AppInv` |
| `ActiveMeansReadyHolds` | `AppSpec => []ActiveMeansReady` |
| `StoppedMeansCleanHolds` | `AppSpec => []StoppedMeansClean` |
| `HaltDropsRequestHolds` | `AppSpec => []HaltDropsRequest` |
| `LostForAReasonHolds` | `AppSpec => []LostForAReason` |

`AppInv` has one part, `Phase`, that says for every place in a callback which of its calls
are done, or have failed where nobody looks (`unnoticed`): endpoints before channels and
channels before transfers when the application starts, the other way round when it stops. The properties speak of the states between
two callbacks, in which every sequence is at its end.

`HeapProofs` has three parts. The first is about a heap with the mutex
(`Locked = TRUE`), for any blocks and threads:

| Theorem | Statement |
|---|---|
| `CallsInvariant` | `HeapSpec => []CallsInv` |
| `LinkedBothWaysHolds` | `HeapSpec => []LinkedBothWays` |
| `AlarmNeedsAllocationHolds` | `HeapSpec => []AlarmNeedsAllocation` |
| `ListImplementedHolds` | `HeapSpec => ListImplemented`, the in-use list of `InUseList` |
| `AllBlocksListedHolds` | `HeapSpec => []AllBlocksListed` |

In `CallsInv` the list is in order, in order but for the pointer that the holder of the
mutex writes next, or out of the hands of everybody else. The order is that of the
allocation numbers: they grow towards the head, which is why a traversal ends and visits
each block once. `AllBlocksListed` is the property that the driver heap, without a mutex,
violates (finding of the run `driver_heap_race`): the theorem says that the mutex is
all that is missing.

`CheckInv`, a part of `CallsInv`, is the argument for the checks, which take no mutex. As
long as nothing is allocated, the blocks that were listed when a check began are `Sound`:
freed or not, they keep their signatures, their `prev_blk` leads to another of them, and
all that overlaps them is unused, so nobody writes over them. Frees keep this (a free sets
the pointer of its newer neighbour to where its own leads); an allocation does not, but
it puts the check into `beside`. `PlaceInv` says that places in use never overlap.

The second part proves `HeapsInvariant`, `LeakCheckTrueHolds` and `StatusArrayOwnedHolds`
for `FirmwareHeaps`. In `HeapsInv` a heap that is down has no block in use: this is why its
list and its counters can start anew, and why the switch of the checks, which works only
while the heap is down, never changes under a block. The third proves, for every memory and
every call of `MemHelpers` that stays inside it:

| Theorem | Statement |
|---|---|
| `HelperTypeCorrect` | `MemSpec => []MemTypeOK` |
| `CopyIsCorrect` | `MemSpec => []CopyMoves` |
| `SetIsCorrect` | `MemSpec => []SetFills` |
| `CmpIsCorrect` | `MemSpec => []CmpTells` |
| `HelpersAreCorrect` | `MemSpec => []HelpersCorrect`, the three together |

`HelperInv` says which part of the block is done in each of the two loops. When the
blocks overlap, the part of the source that is overwritten is always done already: this
is where the direction of the copy enters.

`HostProofs` is about the three parts of the application. The acquisition, for every queue
length and number of transfers:

| Theorem | Statement |
|---|---|
| `HostTypeOKHolds` | `HostSpec => []HostTypeOK` |
| `OldestFirstHolds` | `HostSpec => []OldestFirst` |
| `EveryReadFinishedHolds` | `HostSpec => []EveryReadFinished` |
| `BufferWrittenOnceHolds` | `HostSpec => []BufferWrittenOnce`, if `XferMode = "direct"` |
| `GoodDataOnSuccessHolds` | `HostSpec => []GoodDataOnSuccess`, if `XferMode = "direct"` |

`QueueInv` describes the queue of the driver as the slots from the current one onwards,
modulo the queue length, through all exits of the loop; `FreshInv` adds that buffers of
reads not yet finished are untouched, which holds in direct mode only (finding 1).
`DeliveryInv` is the argument for the data of a call that returns true. It counts chunks:
those delivered and those the card still has are together never more than the call asked
for, and as long as they are as many, every read has the chunk of its place in the order
of submission. When the card drops one, one read can never be answered, so the last wait
of the call times out and it cannot return true.

The window, for any devices:

| Theorem | Statement |
|---|---|
| `WindowInvariant` | `WindowSpec => []WindowInv` |
| `ListsOfDeviceHolds` | `WindowSpec => []ListsOfDevice` |
| `EndpointsAsPickedHolds` | `WindowSpec => []EndpointsAsPicked`, if every device has one alternate setting |

The second needs its assumption because `Select` looks endpoints up in the setting that
was listed last. And the plot, for captures and mouse actions of any size:
`WithinLimitsHolds`, `PlotSpec => []WithinLimits`. `PlotInv` describes the stack of calls:
at most one call that limits an axis waits on top of those of `update_plot`.

The library's induction theorems have an operator as a parameter, which no backend
takes. Where a proof needs induction, over a finite set or over the value of a recursive
function, it takes the least counterexample instead: `InductionLemmas` has induction with
a set for the hypothesis (`SetInduction`) and, from it, that a recursive function with
typed steps exists (`Recursion`, `RecursionType`).

With these, every invariant of a passing run and every property of its steps is stated by
a theorem, some under the conditions named above.

Only model-checked:

* liveness: `CardImplemented` beyond its steps, `CallReturns`, `RestartSucceeds`,
  `CallsEnd`. TLAPS does not reach fairness and ENABLED.

## 6. Not modelled

* **High and full speed.** At 512 bytes per USB packet the DMA buffers have half the size
  (`fx3/cyfxslfifosync.c:219-234`): a request then spans two OUT buffers, of which only
  the first has a header, and a packet of the FPGA two IN buffers of the same socket. The
  FPGA would take the second half for a request of its own and repeat the reply. The link
  is modelled at the speed the card is made for, and nothing in the repository says what
  it should do at the others. (`SlFifoApp` has all speeds: the start-up does not depend
  on what is sent.)
* **Loss of the PLL lock in the middle of traffic** is in `SlaveFifoMaster`, but not in
  `SlaveFifoLink`: nothing tells the FX3 or the host of it.
* **Vendored and generated code.** QCustomPlot (70 % of the lines of the repository), CyAPI
  and its header of control codes, the board support package of the Nios and the IP cores.
  `setRange`, `scaleRange`, the queue of the driver and the PLL are modelled as the code
  of the repository uses them.
* **Start-up code, exception handlers and build files** of the FX3, the USB descriptors
  and the GPIF table (constants; the states of the GPIF block are in `SlaveFifoLink` as
  far as they move words), the entry point and the form of the Qt application.
* **Logging, drawing, texts**: debug prints, pens, ticks and labels.
* The DMA callbacks of the firmware, which are compiled out (`AUTO`).

## 7. Order of work

1. `SlaveFifoMaster` with its proofs, `AcquisitionCard`, `SlaveFifoLink`: the core.
2. `HostTransfer`, `SlFifoApp`, `DmaBufMgr` with `DmaBufLoops` and its proofs.
3. `InUseList` and `HeapCalls`, `FirmwareHeaps`, `MemHelpers`.
4. `Telemetry` with its proofs, `CardBytes`, `SignalPath`, `SampleStream`.
5. `HostWindow`, `HostPlot`.
6. Proofs of the link and of the steps of `AcquisitionCard`.
7. Proofs of the firmware, the heaps, the application and the parts of the card.

All of it is done. What could follow: a session of firmware and FPGA together, in which a
stop or a halt meets a reply under way; the link at the other speeds, once it is settled
what the card should do there.
