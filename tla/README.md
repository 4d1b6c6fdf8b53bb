# A TLA+ verification of the esp8266-wifi-dev firmware core

The repository is firmware for the ESP8266: a Rust entry point, and under
`src/src/ffi/` a C port of FreeRTOS (`os/`), interrupt code (`core/`), the C
library glue (`newlib/`), the application side of lwIP (`lwip/`) and glue for
SPIFFS.  The network stack proper, the WiFi MAC layer and the file system are
binary archives in `lib/` or are not in the repository.  Paths below are
relative to `src/src/ffi/`.

What the build compiles matters as much as what the files contain.  With the
repository's `config.h` preemption, mutexes, recursive mutexes and timers are
on; queue sets, counting semaphores and trace macros are off; and neither
`configUSE_TIME_SLICING` nor any `INCLUDE_...` option is defined anywhere, so
time slices, `vTaskDelay`, `vTaskDelete`, `vTaskSuspend` and `vTaskPrioritySet`
are not compiled.  `configASSERT` is empty.  A wait of `portMAX_DELAY` is
therefore a wait of 2^32 - 1 ticks and not an unlimited one.

## 1. Inventory

| Component | State | Operations | Hard behaviour | What makes it correct |
|---|---|---|---|---|
| Lists, `os/list.c`, `os/list.h` | per list: end marker, cursor, length; per item: two links, container, key | initialise, insert at the end, insert in order (a search loop), remove, next entry | surgery on circular links; removal of the item under the cursor; the search needs the marker to stop | rings stay closed and connected, and sorted while keys stay; the length is exact; the round robin is fair; the search ends |
| Queue storage, `os/queue.c` | slots, read and write pointer, number of messages | copy to back, to front, overwrite, copy out, peek, reset | two pointers that wrap independently, the read pointer one slot behind | it is a bounded FIFO sequence |
| Scheduler, `os/task.c` | ready lists by priority, two delayed lists, pending-ready list, tick count, next unblock time, suspension depth, priorities, mutex counts | create, start, tick, switch, suspend all, resume all, place on and remove from an event list, inherit, disinherit | ticks and wake-ups from interrupts while the scheduler is suspended; the wrap of the tick count; cached values (`xNextTaskUnblockTime`, `uxTopReadyPriority`) | each task is in one state list; nobody oversleeps; the highest priority runs; suspension holds still; priorities come back |
| Queues, semaphores, mutexes, `os/queue.c` | messages, two lock counts, two event lists, holder, recursion count; locals of calls in progress | send, overwrite, receive, peek, take, give, recursive take and give, reset, the `FromISR` calls | a handler runs between any two steps of a call; timeouts race with messages; retries; priority inheritance with timeouts | no wake-up is lost; waits end neither early nor late; holder and counts agree; no priority inversion, no leftover priority |
| Port, `os/port.c` | pending software interrupts, critical nesting | `PendSV`, `SV_ISR`, tick handler, enter and exit critical | requests that come while one is handled; critical sections that leave interrupts on | no switch or MAC request is lost |
| Interrupts and tick timer, `core/interrupt.c`, `.cc` | handler table, latched interrupts, `ccompare0` | dispatch, clearing, catch-up loop of the tick | interrupts that come again while they are handled; missed ticks, difference modulo 2^32 | every interrupt gets its handler, every period is counted once |
| Sockets, `lwip/sockets.c` | table of slots with connection, use count, pending release, leftover data; memberships | open, get, done, free, send, receive, close, join groups | close against a call on the same descriptor; a close that fails half way; leftover of a partial read | uses are counted, one owner per slot and per leftover buffer, a released slot is clean |
| Netconn API, `lwip/api.c` | mailbox, pending error and flags of a connection | receive, delete; the others pass a message on | packets, FIN and abort arrive between any two looks of the reader | the reader gets the stream of the peer, and then its end; the window gets every byte back |
| Buffers, `lwip/pbuf.c`, `netbuf.c` | chains, reference counts, lengths, pool of driver buffers | allocate, reference, free, cut headers, copy out | shared tails of chains freed by several tasks; cuts at the end of a pbuf | freed exactly once, read as one packet |
| Addresses, `lwip/ip_addr4.c` | none | parse, format, netmask test | 1-4 parts, three bases, overflow of a part | agreement with a reference definition |
| C library glue, `newlib/syscalls.c` | heap end, lock table | `_sbrk_r`, locks over recursive mutexes, read and write by descriptor | locks from an interrupt, before start-up | mutual exclusion, heap bounds |
| SPIFFS glue, Rust entry point, helpers | - | pass-through | - | - |

How they interact: tasks call `queue.c`, which calls `task.c` for every block,
wake-up and inheritance; both call the list operations; interrupt handlers call
the `FromISR` functions, the tick handler calls `task.c`; `port.c` turns requests
for a switch into software interrupts.  Sockets, netconns and the C library
locks are built on semaphores and mutexes of `queue.c`.  A call on a socket becomes
a message to the TCP/IP thread, which is not in the repository and posts packets
to the mailbox of the connection; packets are chains of pbufs.

The hazards in `PROJECT.json` list, line by line, where these interactions can
go wrong; section 4 says which property covers which.

## 2. Modules

```
ListOps ----------- the list operations on sequences ------ (in KernelProofs)
  |  \__ ListSpec      abstract: a family of such sequences
  |         ^ refinement (TLC and proof)
  |      LinkedList    list.c with pointers ------------- LinkedListProofs
  |
Kernel ------------- task.c, and what it uses of port.c --- KernelProofs
  |  ^ refinement (TLC and proof)
Queue -------------- queue.c: tasks, handlers, calls ------- QueueProofs, PreemptionProofs

FifoQueue  <-- refinement (TLC and proof) -- QueueStorage - QueueStorageProofs
ByteStream <-- refinement (TLC and proof) -- TcpReceive --- TcpReceiveProofs

Interrupts --------- core/interrupt.c, PendSV and SV_ISR  - InterruptsProofs
Sockets ------------ the table of lwip/sockets.c ----\
Pbuf --------------- lwip/pbuf.c, lwip/netbuf.c ------+-- StackProofs
```

The `MC...` modules hold the constants of the instances.  Some of them also put
modules that share no state beside each other: a behaviour of `MCParts`, `MCKernel`
or `MCStack` is a behaviour of one of their parts, chosen by the variable `part` in
the first state, while the others keep their initial state.  So the states are
the sum and not the product of the parts, and each part is explored in full.
`MCQueueTransfer` chooses among three programs of the tasks in the same way.

**LinkedList** models `list.c` pointer by pointer.  `pxNext`, `pxPrevious`,
`pxContainer`, `xItemValue` belong to nodes, `pxIndex`, `uxNumberOfItems` to
lists, and the end marker of a list is the list itself as a node.  `vListInsert`
takes one step per iteration of its search; `search` is its local state.  The owner may set
the key of an item at any time, in a list or out of one, as priority inheritance does
(`os/task.c:3972`); the history variable `rekeyed` holds the ordered lists in which that has
happened since they were empty, and only the others are said to be sorted.  `Walk`, the
nodes in the order of `pxNext` from behind the cursor, is the refinement mapping to `ListSpec`.

**ListOps** and **ListSpec** are what a list promises: a sequence, with the end
marker as an element of a round-robin list.  `Kernel` uses these operators in
place of pointers, which the refinement `ImplementsListSpec` justifies.

**QueueStorage** is the buffer of a queue.  `NewStore`, `ResetStore`,
`CopyToBack`, `CopyToFront`, `CopyOverwriting`, `TakeOut` are the branches of
`prvInitialiseNewQueue`, `xQueueGenericReset`, `prvCopyDataToQueue` and
`prvCopyDataFromQueue`; addresses are slot numbers.  **FifoQueue** is the
sequence it implements.

**Kernel** is the scheduler.  Variables have the names of the statics of
`task.c`.  One action is one function, except where a function loops over a list
with interrupts out: there each iteration is a step and the variable `section`
holds which loop runs and its locals (`xTaskIncrementTick` in the tick interrupt
and in `xTaskResumeAll`, the pending-ready loop of `xTaskResumeAll`).  `Next`
lets the current task call what the callers of `task.c` may call, in any order;
`Queue` is one such caller.  `EventItemValue` is a function of the priority
because every assignment to `uxPriority` in the compiled code also sets the item
value.  `xNumOfOverflows` is only compared with a copy, so `Queue` keeps with each
copy whether it still agrees.

**Queue** adds queues, calls and handlers.  A task inside a call has a `frame`:
`pc` and the locals of the C function.  The calls share one loop (`xQueueGenericSend`,
`xQueueReceive`, `xQueueSemaphoreTake`, `xQueuePeek` are the same loop with other
tests), so the actions are its stages:

| Action | Code |
|---|---|
| `Commit`, `Notify` | the first critical section when the call can proceed |
| `NotAvailable` | the same section when it cannot: return, or set the entry time |
| `Suspend`, `prvLockQueue` | `vTaskSuspendAll`, lock |
| `xTaskCheckForTimeOut`, `Test` | the two tests before blocking |
| `Inherit`, `Place` | `xTaskPriorityInherit`, `vTaskPlaceOnEventList` |
| `UnlockTx`, `WakeReceivers`, `UnlockRx`, `WakeSenders` | `prvUnlockQueue` |
| `Resume`, `Resumed`, `portYIELD_WITHIN_API` | `xTaskResumeAll` and the yield |
| `Recheck`, `Disinherit` | the way out after a timeout |

`due` in a frame is history, not state of the code: the ticks the call may still
wait.  `LongAgo` marks a call that did not run while the tick count wrapped twice
(2^32 ticks at least), which the code cannot tell from a short wait.

**Interrupts** is what happens below `Kernel`, where a handler is not one step.
`ccount`, `ccompare0` and `interrupt` are the registers, `handling`, `intset`,
`index`, `trigger_ccount` and `xHigherPriorityTaskWoken` the locals of
`_xt_isr_handler`, `__xt_timer_int` and `SV_ISR`; `noted` stands for the two flags
`PENDING_SOFT_SV` and `PENDING_MACLAYER_SV`.  Handlers of level one do not nest, but
between any two of their steps the counter advances, a device raises its interrupt,
or the NMI of the MAC layer calls `PendSV`, in two steps (note, raise) as in the code.
`lag`, `unserved` and `owed` are history: the time since the last tick counted was
due, the interrupts raised since their handlers began last, and the requests made
since they were last acted on.  `TickIsCounted` assumes that counting a tick takes at
least one cycle.

**Sockets** is the table of `sockets.c`.  `conn`, `fd_used`, `fd_free_pending`
and `lastdata` are the fields of `struct lwip_sock`; a task in a call has `pc` and the
locals `sock`, `is_tcp`, `on` (the netconn it handed to a `netconn_*` call) and `p`
(the buffer in hand).  One step is one section between `SYS_ARCH_PROTECT` and
`SYS_ARCH_UNPROTECT`, one unprotected access to a slot, or one half of a `netconn_*`
call.  Every call may fail where the code has an error path: no free slot, no
connection in the slot, an error of the netconn, nothing received.  `known` is what
the application may use as a descriptor: what `lwip_socket` returned, also after a close
by another task.  `netconn_delete` is the step in which a netconn ceases to exist.

**TcpReceive** is the way of the bytes to the reader: `lwip_recv_tcp`,
`netconn_recv_data_tcp`, `netconn_recv_data` and `netconn_recv`, one step for each look
at what the reader shares with the TCP/IP thread (`recvmbox`, `pending_err`, the flags of
the netconn) and for each message to it.  That thread is external: `recv_tcp`,
`recv_fin` and `err_tcp` post data, the end of the stream, or an abort, at any time and
within the window.  A packet is an interval of the stream.  `taken`, `seen` and `ret` are history.
**ByteStream** is what the calls promise.

**Pbuf** has the fields of every pbuf and, for each holder, the pbuf it has in
hand and where it is in `pbuf_free` or `pbuf_free_header`; each protected access
to a reference count is a step.  `pbuf_alloc` and `pbuf_chain` are external.
`pbuf_copy_partial` is a recursive function, compared with the contents of the chain.

*Critical sections.* `vPortEnterCritical` only counts: its call of
`portDISABLE_INTERRUPTS` is commented out (`os/port.c:174`), and the same holds
for the exit.  `task.c` and `queue.c` are written for sections that keep
interrupts out.  The constant `CriticalMasks` chooses: TRUE is the contract the
two files rely on, and the passing runs show what they do under it; FALSE is
what `port.c` does, and the run `critical_sections` shows what comes of it.  The theorems
leave the constant open, so they speak of the build too.  Even
with FALSE a single step stays atomic, so the model is kinder than the build.
`sys_arch_protect` (`lwip/sockets.c:274`) is `vPortEnterCritical` with a count, so
`Sockets` and `Pbuf`, which take the sections it opens for atomic, hold under the same
contract and not of the build with interrupts left on.

## 3. Runs

The passing runs explore their whole state space, each within five minutes.

| Run | Instance | Question |
|---|---|---|
| `parts` | *lists*: one ordered, one round-robin list, 3 items, keys 0..2; *storage*: a queue of 3 slots and one of 1 slot, 2 messages; *TCP receive*: 4 bytes in packets of any size, mailbox of 2, window of 3, reads of up to 3 bytes, with and without peek and blocking, both interfaces | does each of the three implement its abstract specification; does the search end, does the round robin keep its order, does the reader learn of the end, does the window get its bytes back? |
| `kernel` | *scheduler*: 2 tasks (interchangeable) + idle, 2 priorities, tick count modulo 3, one pended tick, up to 2 mutexes per task; *interrupts*: one device, tick, software interrupt, watchdog, counter modulo 8, period 2, ticks up to 5 cycles late | are the lists and cached values kept, and do priorities come back, under every order of calls and interrupts; is no interrupt, no switch and no tick lost? |
| `queue_transfer` | length 1 and one of three programs: a sender (idle priority) and a receiver (higher) with handlers that send and receive; two tasks that receive, peek, send, overwrite and reset with a handler that sends; two tasks with a recursive mutex and a handler that sends | lost wake-ups, early and late timeouts, stuck locks; the highest priority runs; do holder, counts and recursion agree? |
| `queue_mutex` | 3 tasks of 3 priorities above idle, one mutex, takes with different timeouts, tasks that sleep and are woken | priority inheritance with timeouts |
| `queue_live` | a reader that blocks, a writer that polls, resets, yields and takes a recursive mutex, handlers that fill and empty the queue, under fairness | does every wait end, does a call return although it is woken in vain for ever; is every step one of `Kernel`? |
| `stack` | *sockets*: a reader, a writer and a task that opens, joins groups and closes, 2 slots, a TCP and another connection, 2 buffers; *pbufs*: 2 holders, 3 pbufs, payloads of up to 2 bytes | are uses and references counted exactly, has each buffer one owner, is a released slot clean, is what is read the packet? |

Bounds and why they are enough.  `TickMod` (3) stands for 2^32: the code
only adds, subtracts modulo the width and compares, and with 3 every relation of
entry time, wake time and wrap occurs, two wraps included.  `MaxPendedTicks` 1
separates "some tick was held back" from "none"; the loop over more repeats the
same step.  `MaxSuspended` 1: `queue.c` does not nest suspension.  `MaxLocked` is at
least the number of tasks that can wait in the instance, so that the loop
of `prvUnlockQueue` ends both ways.  `MaxMutexesHeld` 2 separates "the last
mutex" from "another one".  Two tasks beside the idle task give a current and a
woken task; the inheritance run needs a third, for a second waiter.
`queue_transfer` uses length 1: in a longer queue `xQueueGenericReset` makes room for
several writers and wakes one, and the accounting of senders does not hold
(section 5, `FreesTooMany`).  `CcountMod` 8 with
period 2 lets the counter wrap inside a period and a handler miss two ticks; `MaxLag`
stays below a round of the counter, because the code cannot tell a whole round from
none.  Four bytes, window 3 and mailbox 2 let a read span two packets, leave part of a packet,
and find the window shut and the mailbox full.  Two slots let a slot be closed
and reopened while another is in use, three pbufs give a chain whose tail is shared.
The theorems of section 5 remove the bounds of lists, storage, scheduler, queues (but for
liveness), TCP receive, interrupts, the socket table and packet buffers.

Symmetry of tasks is used in `kernel`, and of buffers and holders in `stack`, where
nothing tells them apart.  Two runs use a VIEW that leaves out the wake time of a task
that is not delayed: the code writes it before every insertion in a delayed
list and reads it only there.

Violations.  Six runs expect a counterexample; each is a disagreement between
what the repository's own text says and what its code does, quoted under
`findings`:

* `critical_sections` (`os/port.c:174`): with sections that leave interrupts on,
  a handler that sends between the copy of `cTxLock` and the store of
  `queueUNLOCKED` in `prvUnlockQueue` wakes nobody; the reader sleeps beside the
  message until its timeout.
* `time_slices` (`os/task.c:2780`): `configUSE_TIME_SLICING` is defined nowhere,
  so equal priorities do not share the processor as the comment says they do.
* `event_order` (`os/task.c:3972`): inheritance changes the key of an item that is
  in a sorted event list, whose first task is then not the highest.
* `give_with_waiter` (`os/queue.c:793`): a give that both loses an inherited
  priority and wakes a waiter of low priority drops the switch it owes.
* `full_duplex` (`lwip/sockets.c:791`): `lwip_close` deletes the netconn while other tasks
  read and write through the same descriptor, which `opt.h` says is allowed.
* `mac_requests` (`os/port.c:93`): `SV_ISR` clears the MAC request after its handler
  has run, and with it a request that came meanwhile.

Fairness.  `FairSpec` of `Queue`: start-up and a loop in an interrupt or critical
section go on (weak fairness of `Boot`, `Unblock \/ Resumed`: nothing else is enabled
there, they only must not stop).  Strong fairness of `CallStep`, `Tick` and
`Switch`: the tick and the software interrupt are latched by the hardware and are
taken at some time when interrupts are on, again and again; between interrupts the
current task executes instructions, so a call that can go on infinitely often
does.  That excludes only an interrupt storm without end.  Nothing is assumed of
applications (`AppStep`) or of other interrupts (`HandlerStep`): tasks may compute
for ever and handlers may never run.  Hence `TopTaskReturns` speaks of the task
with the highest priority and `EveryWaitEnds` of becoming ready and not of
running.  `RxFair` of `TcpReceive`: a call goes on while it can, and the application goes
on reading, again and again for bytes and not only for a look at them; nothing is
assumed of the peer.  In `parts` the search loop of `vListInsert` goes on: a loop without
a wait.

Deadlock is checked in every run: with the tick interrupt the scheduler can always
go on, a closed connection answers every further read (`Finished`), and an application
can always call again.

## 4. Properties

Each property, in the comment above it, names the behaviour it is about.  The
central ones:

* `ReceiversAreNotForgotten`, `SendersAreNotForgotten` (Queue): an accounting of
  wake-ups.  While somebody waits, messages (or free places) never outnumber the
  tasks on their way to them, the notifications a locked queue still owes and the
  senders about to notify.  Tests of queues do not reach the windows this is
  about: a handler between a task's look at the queue and its move to the event
  list, a message while a call times out, a peek, a reset.
* `NoEarlyTimeout`, `DeadlineIsKept` (Queue): the deadline of a call survives
  retries and the wrap of the tick count.
* `HolderOutranksWaiters`, `NoPriorityIsLeftOver` (Queue): priority inheritance,
  from both sides, with timeouts.
* `ListsAreExclusive`, `WakeTimesAreAhead`, `UnblockTimeIsNotLate`,
  `SelectionFindsHighest` (Kernel): the parts of the scheduler's invariant;
  `HighestPriorityRuns` and `SuspensionHoldsStill` are what it is for.
* `ImplementsKernel` (Queue): `Queue` makes only the calls `Kernel` allows, so
  what is said of `Kernel` is said of the whole.
* `ImplementsListSpec`, `ImplementsFifo`, `ImplementsStream`: lists, queues and
  connections do what their abstract specifications say.
* `EndIsReported`, `WindowIsReturned` (TcpReceive): the end of the stream, also one
  set aside in a flag or an error dropped beside bytes, is reported at last; a byte taken
  is given back to the window once on every path.
* `TicksKeepTime`, `InterruptsAreServed`, `SwitchesAreKept` (Interrupts): no tick early,
  twice or never, no interrupt and no switch lost in the windows of the handlers.
* `UsesAreCounted`, `SlotIsKeptInCalls`, `BuffersHaveOneOwner`, `FreeSlotsAreClean`
  (Sockets): a close that overlaps calls, or fails half way, frees a slot when the last
  of them leaves it, with its leftover data and memberships.
* `RefsAreExact`, `ReadsAreExact`, `HeadersAreCutExactly` (Pbuf): chains with shared
  tails are freed once, and what is left of a packet is what was not cut.

Each property of each passing run has a mutant: a plausible slip in the code
(a dropped guard, a missing reset, the other comparison) under which TLC finds
the property violated.

`PROJECT.json` lists the hazards with the lines where they bite.  Four have no property.
A reset of a longer queue (`os/queue.c:213`) wakes one of several senders: not in the runs, whose
queues hold one message.  A timeout can raise the holder of a mutex above the running
task without a switch (`os/task.c:4145`): it takes four tasks and two nested mutexes.
The theorems `SendersAreRemembered` and `HighestPriorityAlwaysRuns` name these steps as
exceptions and show that each has only one other.
`cTxLock` is an `i8` that reads as unlocked after 255 handler calls in one suspension:
beyond any bound TLC can reach here.  The locks of the C library wait `portMAX_DELAY` ticks and
ignore the result; with a tick count of a few values such a wait is as short as
any other, so the model says nothing of the 497 days the real one lasts.

## 5. Proofs

All proofs are for arbitrary constants under the assumptions named in the
modules, and rest on no other assumption.  Each follows the same plan: an inductive
invariant, one lemma per action, and the property from the invariant.

**LinkedListProofs** (`ListAssumption`: lists and items are disjoint, the items
are finitely many, `portMAX_DELAY` is at least 1).

* `ListsStayWellFormed`: `Spec => []ListInv`.  `ListInv` is inductive as it
  stands: `TypeOK`, `RingsAreClosed` (the links are inverse and stay in the
  list), `RingsAreConnected` (no proper part of a list is closed under `pxNext`:
  the form of "one ring" that needs no induction over paths),
  `OrderedListsAreSorted` (of the lists in which no key was set in place) and
  `SearchIsOnTheList`.  The argument is one lemma per kind of link surgery
  (`InsertClosed`, `InsertConnected`, `RemoveClosed`, `RemoveConnected`), lifted to
  all lists, then one step per action.  The search needs its own conjunct because
  another action may not remove the node it stands on; it does not need the list to be
  sorted.
* `LengthStaysExact`: `uxNumberOfItems` is the cardinality of the list's items;
  it uses `ListInv` for the container of what is inserted and removed.
* `ListImplementsSequences`: every operation on the pointers is the operation of `ListOps` on
  the sequences, so the kernel may be modelled with those.  `RingInv` adds to the two
  invariants above that the cursor of an ordered list stays on its marker.  A walk of as many
  steps as a closed and connected ring has nodes meets each of them once and ends at its start
  (`WalkIsRound`: if it met a node again it would meet its start too early, and what
  it met until then would be a smaller closed set).  Only one sequence follows
  given links (`FollowsIsUnique`), so per action it is enough that the transformed sequence follows the
  new links (`InsertFollows`, `RemoveFollows`, `RotateTurns`); that a search ends at the place
  `InsertInOrder` chooses is `SortedWalk` with `OnlyInsertPosition`.
* `TurnsComeCloser`: in the walk of a ready list the turns until an item's are its place, less one
  when the marker comes before it (`TurnsAreCounted`); each operation moves both places.

**QueueStorageProofs** (`Length` at least 1, a value for "no message").

* `StoreStaysWellFormed`: `Spec => []StoreInv`.  The distance of the two pointers
  is the number of messages, modulo the length; that alone is inductive, and with
  it no unwritten slot can be read.
* `StoreImplementsFifo`: the refinement of `FifoQueue` for every length.
  `SlotAfter(s, i)`, the slot i places on from the read pointer, turns pointer
  arithmetic into positions of the sequence; `SlotAfterAdvance` and
  `SlotAfterRetreat` say how positions shift when the read pointer moves.

**TcpReceiveProofs** (`ReceiveAssumption`: the mailbox has room for one message, a
call may ask for one byte).

* `RxInv` is inductive.  Neither promise is so alone: that the right bytes are returned
  needs that the packet in hand and the mailbox are the rest of the stream without gap
  or overlap (`PacketsAreTheStream`) and that the copied bytes are the next ones
  (`BytesAreInOrder`); that the end is not early needs that a FIN in the
  mailbox, in the flag or in hand is behind all bytes (`MessagesAreTrue`, `FinIsLast`);
  that an error does not overtake bytes needs what a call has seen at each place
  (`CallsAreInStep`: past an empty mailbox it has passed all bytes that were there when it
  began).  `WindowInv` counts the bytes given back, and the extra one `netconn_recv` gives
  back for a FIN.
* `WindowStaysReturned` follows from `RxInv`; `ReceiveImplementsStream` maps each
  action to a step of `ByteStream` or a stutter.

**InterruptsProofs** (`InterruptAssumption`: the numbers differ, the period is positive
and smaller than `MaxLag`, and period and lag together are less than a round of
the counter: that handlers are not a whole round late is what the code relies on).

* `TicksStayInTime`.  `lag` is nowhere in the code, so the invariant has to say how the
  registers know it: `TriggerIsNext` (`ccompare0` is one period after the last tick counted,
  two while one is counted) and `DueTicksAreLatched` (when a tick is due its interrupt
  is latched or handled, except that a trigger written after the counter had passed
  it is latched nowhere, which is what the loop of `__xt_timer_int` is for).
* `SwitchesStayKept` is inductive with `HandlersAreInStep`: the bit of the interrupt that is
  handled stays in `intset`.
* `InterruptsStayServed` needs in addition that `_xt_isr_handler` picks one of the interrupts it
  was given; that a least one exists comes from the well-foundedness of the naturals.

**StackProofs**: `Pbuf` (`PbufAssumption`: finitely many holders and pbufs) and `Sockets`
(`SocketAssumption`: finitely many tasks, at least one slot).

* `ReferencesStayExact` (Pbuf): `RefsAreExact` is inductive with `PlacesFit`, which says of each place in
  `pbuf_free` what the holder has in hand: a pbuf on its way out belongs to one holder and is counted
  down to zero.  A reference is a hand, a holder that frees, or the link of a live pbuf; each
  step changes one of each kind at most (`HeldAfter`, `FreedAfter`, `BeforeAfter`), and the proof of the step
  adds up what it does.  `pbuf_chain` writes to the last pbuf of a chain, and that there is exactly one
  needs the counts: where every pbuf of a chain is referred to once the links cannot return
  to the chain nor run on through all pbufs (`ChainEnds`).
* `ReadsStayExact` and `HeadersStayExact` (Pbuf) stand on `PacketInv`, which adds to these counts: in every
  pbuf of a packet `len` is positive and `tot_len` is the length plus the total of the next (`TotalsFit`); what a
  task in `pbuf_free_header` has left of its packet is a set of pbufs each referred to once and linked from one
  another, and the pbuf it has cut off has no next and one reference (`HeadersOwn`).  The pbuf that is cut off is the
  one exception to `TotalsFit`: its `tot_len` still counts the rest of the packet until it is released.
  Totals get less along the links, so a chain has no cycle and is the one path from its first pbuf to its end
  (`ChainIsPath`, `PathIsUnique`), and the bytes of a packet can be compared before and after a step: they are
  those of the first pbuf and of the rest (`ContentsUnfold`), and a step that leaves the pbufs of a packet
  alone leaves them alone (`ContentsSame`).  Another task cannot touch what is owned (`OwnedStays`,
  `ChainApart`).  `CopiedSoFar` is the invariant of the loop of `pbuf_copy_partial`.
  `Walk`, `Concat` and the loop are recursive functions; that each is what its definition says is
  shown by extending it a place at a time up to its bound (`WalkSteps`, `PrefixSteps`, `CopySteps`), and
  an induction over the places is the least number at which it would fail (`LeastNumber`, `Upward`).

* `UsesStayCounted`: `SocketTypeOK /\ UsesAreCounted` is inductive, because the place of a
  task in the code (`UsesAt`) says how many uses it owes.  `SameUses`, `OneMoreUse` and
  `OneUseLess` are the three things a step can do to a count; the steps apply one of
  them each.
* `SlotStaysKeptInCalls`: an action property.  A slot is freed only when the count drops
  to zero; with the exact count nobody else is then in a call on it.
* `BuffersKeepOneOwner` and `FreeSlotsStayClean` have the hypothesis `RolesAreApart`, which is what
  `opt.h` allows of `LWIP_NETCONN_FULLDUPLEX` ("reading from one thread, writing from a 2nd
  thread and closing from a 3rd thread"): one task reads, one opens, joins groups and closes,
  and any number write.  With two readers both take hold of the same `lastdata`.  The inductive
  invariant `TableInv` adds to the counts what each task found out about its slot and still
  relies on: that it has a connection, of the type in `is_tcp` (`ConnsFit`); that the note of
  a closer says that type (`PendingFits`); that a slot allocated and not yet cleared is known to
  nobody (`TableFits`); that memberships are gone where the closer has dropped them (`GroupsFit`); and
  that each buffer is in one slot or one hand, of the kind its connection delivers (`BufsFit`).
  `SlotEffect` and `BufsEffect` list what a step can do to a slot and to the buffers; the
  invariant is shown against these lists and not against the twenty actions.

**KernelProofs** (`KernelAssumption`: the idle task is a task, there is a priority, the
tick count has at least two values).  Tasks, event lists, priorities, the width of the tick
count, the nesting and whether critical sections keep interrupts out are arbitrary.

* The module begins with lemmas that need no assumption: what each operation of `ListOps` does to
  the set of elements, to their being distinct and to their order.  That the insertion search
  has a place to find comes from the well-foundedness of the naturals.
* `KInv` is inductive.  It is `KernelInv` of `Kernel`, which TLC checks, with two parts put as
  statements about the tasks in the lists and not about list heads and lengths:
  `LookIsInTime` (the next look is not later than any wake time of the delayed list) and
  `ReadyIsRecorded` (no ready task is above `uxTopReadyPriority`, and the idle task is
  ready).  No part is inductive alone.  That a tick may swap the delayed lists needs the
  wake times; that a woken task is inserted in a list it is not in needs the exclusive
  lists; that `xTaskIncrementTick` may skip the list needs the next look; and all of them
  need `SectionsAreInStep`, that the loops run only while the scheduler is not suspended.
* `AddToReadyFacts`, `TakeFromReadyFacts`, `WakeFacts`, `SwitchFacts` and
  `SetPriorityKeepsLists` are the things a step can do to the ready lists;
  `CountTickKeepsLists` and `LeaveTickLoopFacts` are the two ends of the tick.  Each action has
  a lemma that applies some of them.
* `KernelTypeCorrect`, `ListsStayExclusive`, `NobodyOversleeps`, `UnblockTimeIsInTime`,
  `SelectionIsSound` and `InheritanceEnds` follow from `KInv`.
* `SuspensionIsSafe` is an action property: of all steps only the current task's own
  `vTaskPlaceOnEventList` changes who is ready while the scheduler is suspended.

**QueueProofs** (`KernelAssumption`, `QueueAssumption`, and `ProgramAssumption`: what `semaphore.h`
asks of the callers, that a mutex is only taken and given, a recursive one recursively, and
handlers stay away from both).  Tasks, queues, their lengths, programs, handlers and the
width of the tick count are arbitrary, and so is `CriticalMasks`: no theorem assumes that critical
sections keep interrupts out.  Where they do not, a task can also be switched away, and a handler or the
tick can run, between `Commit` and `Notify`.

* `QueuesImplementKernel`: every step of `Queue` is a step of `Kernel` or leaves it alone.  The
  actions of `queue.c` call the scheduler without tests of their own, so the proof needs that
  the state is one the called function expects: `QInv` is `KInv` with
  `FramesFit` (which locals go with which place in a call), `Control` (only the current task
  is in a critical section, or has the scheduler suspended, and once),
  `CurrentIsReady` (a current task that is not ready is between `vTaskPlaceOnEventList` and the switch)
  and who holds the mutexes.  Each action has a lemma that gives both its step of `Kernel`
  and `QInv` after it.  With this theorem those of KernelProofs hold of tasks that use queues.
* `MutexesStayCounted` is the part of `QInv` about holders: `uxMutexesHeld` says how many mutexes a task
  has, `HoldersFit` at which places in a call it has the one the call is about.
* `QueueLocksAreShort`: `LockInv` says that a queue is locked exactly while the current task stands
  between `prvLockQueue` and the stores of `prvUnlockQueue` for that queue.
* `TimeoutsAreNotEarly`: `TimeInv` relates the history `due` to the entry time, the ticks left and
  whether the count wrapped since, modulo the width of the count.
* `DeadlinesAreKept`: `DelayInv` says that the wake time of a sleeping task is as far ahead as its call
  may still wait; it stands on `TimeInv` at the step that goes to sleep and on `KInv` at each tick.
* `ReceiversAreRemembered` and `SendersAreRemembered` are the accounting of wake-ups, proved once for both
  sides of a queue: what waits to be taken (`Slack`) is at most what the lock owes (`Owes`) plus the
  number of tasks that are going to look again or about to wake one that is (`Heads`).
  A step changes these numbers together; that it never loses one needs `WaitersFit` (who is in an
  event list is in a call that waits there, so the task that is woken is counted after the
  wake) and `Reason` (who is about to sleep has seen no more than handlers counted in the
  lock since).  A wake by a timeout does not lose one either: the woken call looks again
  before it gives up.  Each theorem has two parts.  The first is about single steps: whatever the
  balance is (`NotForgotten` with any number `d` already forgotten), a step keeps it,
  except the named ones: `CountedTooLate`, a handler that counts on a lock whose count
  `prvUnlockQueue` has read for the last time (possible only where critical sections leave interrupts
  on, and what the run `critical_sections` shows), and for senders `FreesTooMany`, the reset
  of a queue with several messages, which wakes one sender (`os/queue.c:206`, where
  the comment promises no more than one).  The second part follows: where these steps
  do not happen nobody is forgotten.

**PreemptionProofs** (the assumptions of QueueProofs).  Programs, the nesting of mutexes and
`CriticalMasks` are arbitrary.

* `HighestPriorityAlwaysRuns`: `TopInv`.  No ready task outranks the current one unless a switch is on
  its way (`CurrentIsTop`), also between the steps of a call.  What is on its way is partly known
  only to locals: `FlagFits` says that only the loop over the tasks of a tick keeps a switch in
  a local, and a task that lost an inherited priority has to yield at its notification
  (`AboutToYield`).  Each step that makes a task ready or changes a priority asks for
  a switch when it must, with two exceptions, and the theorem says that there are no others:
  `YieldIsDropped`, the notification that wakes a waiter and drops the yield (`os/queue.c:793`,
  run `give_with_waiter`); and `HolderIsRaised`, a timeout after which the holder of the mutex rises above the
  running task.  The code sets the holder's priority to that of the first task that still
  waits, and that one may have inherited since it lent its own, as
  `xTaskPriorityInherit` passes on nothing to those that wait themselves.  With nested
  mutexes this happens: `low` holds a mutex for which `third` (of the same priority) and `fourth` wait, `third`
  holds another one for which `high` begins to wait, and then `fourth` times out.

Only model-checked, and why:

* `OneSlotImplementsFifo`: the run's second instance of `ImplementsFifo`, which
  `StoreImplementsFifo` covers with `Length` 1.
* Priority inheritance from both sides (`HolderOutranksWaiters`, `NoPriorityIsLeftOver`).  As statements
  about every program they are false: with nested mutexes a holder gets what its waiters have
  and not what they inherit later, and one that gives back one of two mutexes keeps what it
  inherited through it; and where critical sections leave interrupts on, a mutex whose
  give is interrupted before its notification can be taken by a task that inherits nothing
  from those who wait.  The run `queue_mutex` checks them for one mutex and sections that mask.
* Liveness (`SearchEnds`, `EveryWaitEnds`, `TopTaskReturns`, `EndIsReported` and the like): out of the prover's reach.

## 6. Not modelled

How much of the repository this is.  Of about 36,600 lines of C and headers, fewer than
4,000 are statements that this build compiles; the rest are comments (the headers of FreeRTOS
and lwIP are mostly documentation), declarations, macros with constants (`opt.h`
alone has 3,400 lines) and code that `config.h` and `lwipopts.h` switch off
(`timers.h`, most of `task.c`'s optional functions, the heap of `mem.c`).  There is no
state or control in them to model.  What is left besides:

* Context save and restore and stack frames: assembly.  A switch is the
  assignment of `pxCurrentTCB`.
* Failing allocations of tasks and queues: one that cannot be created is one that does
  not exist.  The timer task, which the external `xTimerCreateTimerTask` creates
  at start-up, is one of the tasks.
* Contents of messages in `Queue`: they are the subject of `QueueStorage`.
  Neither branches on the other's data but for the count.
* `vQueueDelete`, which only `_lock_close` calls; `vQueueWaitForMessageRestricted`, the
  unordered event lists and `vTaskPlaceOnEventListRestricted`: called only by code
  outside the repository.
* The TCP/IP thread: external.  The calls of `api.c` that hand it a message
  and return its answer (bind, connect, listen, write, close) are in `Sockets` as one
  `netconn_*` call with any result.  The call that asks for a peer's address
  (`lwip/sockets.c:556`) and the messages behind joining and leaving a group are not steps of their own:
  `Sockets` keeps the memberships of a slot and nothing else of them.
* Conversion of socket addresses and IPv4 text: pure functions without state, on whose
  results nothing in the repository branches.
* The heap of the C library (`_sbrk_r` moves one pointer), SPIFFS glue, random
  numbers, the Rust side: no control of their own.  The locks of the C library are
  recursive mutexes, which `Queue` models.

What could come next: for which programs priority inheritance keeps both its promises, as a
theorem, and a composition of `Sockets` with `TcpReceive`, where `lastdata` is shared by readers.
