# Verification of the Contiki kernel for AVR

The repository is Contiki OS trimmed to an AVR board
(`src/platform/avr-atmega256rfr2`, `src/cpu/avr`). Its own core is under
`src/core`: an event kernel of cooperative processes, timers, device buffers,
a radio stack, IPv6 with RPL, and a flash file system. Nothing in it is
preemptive except interrupts, and nothing is locked: correctness rests on what
an interrupt may touch, on the order of callbacks, and on lists that are
changed while somebody walks over them. That is what these modules are about.

## 1. Inventory

| Component | State | Operations | Interacts with | What is hard |
|---|---|---|---|---|
| Process kernel (`core/sys/process.c`) | list of processes, state, poll flag, event queue, `process_current`, C stack | start, exit, post, synchronous post, poll, run | calls every process; interrupts poll it | the list changes under its own loops; nested calls; polls at any time |
| Event timers (`core/sys/etimer.c`, `timer.c`) | list of timers, owner, start and interval, `next_expiration` | set, reset, restart, adjust, stop, scan | posts to the kernel, is told of exits, polled by the tick | a 16-bit clock that wraps; a full queue; exits with timers pending |
| Callback timers (`core/sys/ctimer.c`) | second list, of ctimers | set, reset, restart, stop, callback | etimers owned by `ctimer_process` | two lists and the queue between them; stale events |
| Ring buffer (`core/lib/ringbuf.c`) | array, two one-byte pointers | put, get | interrupt handler against process | no lock |
| Clock (`cpu/avr/dev/clock.c`) | tick count | tick interrupt | polls `etimer_process` | wrap, interrupt between any two steps |
| Main loop (`contiki-main.c`) | - | starts the first processes, calls `process_run` for ever | kernel | must never stop |
| Real-time timer (`core/sys/rtimer.c`, `cpu/avr/rtimer-arch.c`) | one pending timer | set, compare interrupt | duty cycling, CPU sleep | a second set replaces the first; a time just missed |
| Serial line, SLIP (`core/dev`) | circular input buffers | input interrupt, poll handler | kernel polls | interrupt against process; a packet that wraps or overflows |
| Pools (`core/lib/memb.c`, `mmem.c`) | blocks and counts | alloc, free | packet buffers, neighbours, routes | exhaustion, double free, compaction under pointers |
| Packet buffers (`core/net/packetbuf.c`, `queuebuf.c`) | the packet, queued copies | copy in and out, free | MAC, Rime, IPv6 | one global packet, clobbered by callbacks |
| CSMA (`core/net/mac/csma.c`) | a queue per neighbour, retransmission counters | send, transmit timer, packet sent | duty cycling below, ctimers | a burst goes on over callbacks that free and send; four pools |
| Duty cycling (`contikimac.c`, `nullrdc.c`, `phase.c`) | radio on or off, phases of neighbours | strobe, listen | rtimer, radio interrupt | real time |
| Rime (`core/net/rime`) | sequence numbers, retransmission state | runicast, stunicast, rucb, collect, trickle... | MAC, ctimers | loss, duplicates, late acknowledgements, two-bit numbers |
| Trickle timer (`core/lib/trickle-timer.c`) | interval, counter | new interval, consistency, inconsistency | ctimers | overflow of the doubling interval |
| Neighbour table, `uip-ds6` | entries shared by several tables, locks | add, lock, evict | RPL, ND, CSMA | eviction of an entry somebody still holds |
| RPL (`core/net/rpl`) | DAG, rank, parents, timers | DIO, DAO, parent selection, repair | ctimers, neighbour table | loops, stale ranks |
| 6LoWPAN (`sicslowpan.c`) | one reassembly buffer | fragment, reassemble | MAC, uIP | interleaved and lost fragments |
| uIP (`uip6.c`, `uip.c`, `tcpip.c`) | connections, one packet buffer | input, timers, application calls | kernel, sockets | loss and reordering, wrapping sequence numbers, ends of connections |
| Sockets (`tcp-socket.c`) | output buffer, bytes in flight, listening port | connect, send, close, unlisten, appcall | called back by uIP | a buffer that is filled while its bytes are under way |
| Link-layer security | replay counters | send, receive | MAC | counter wrap |
| Coffee (`cfs-coffee.c`) | flash pages, open files, logs | open, write, log, merge, collect | flash | power loss between writes, caches of what the flash says, erasure of sectors in use |
| CoAP (`apps/er-coap`) | transactions, observers | send, retransmit, acknowledge | etimers, UDP | late answers |
| Loader, CTK, Antelope, shell, web server, drivers, tools | | | | binary formats, drawing, parsing, hardware registers or host programs |

`PROJECT.json` lists each with its status and, under `hazards`, the line of the
code at which each difficulty bites.

## 2. Plan

1. *Kernel* - `Ringbuf` (with `ByteFifo`), `Process`, `Etimer`, `Ctimer`: done.
2. *Radio stack* - `Csma` with `send_list` of nullrdc and its pools, `Rucb` with
   reliable and stubborn unicast on top of such queues: done.
3. *Network* - `Tcp` (uIP's TCP and the stream sockets, against `ByteStream`):
   done.
4. *Storage* - `Coffee` with power failures: done.
5. *Proofs* - all safety properties of `Ringbuf`, `Process`, `Etimer`, `Ctimer`,
   `Csma`, `Rucb`, `Tcp` and `Coffee` and both refinements: done. Liveness is left
   to TLC (section 5).
6. Left for later work: SLIP's circular buffer, the neighbour table, RPL's parent
   selection, 6LoWPAN reassembly, CoAP transactions.

## 3. Modules

**`Ringbuf`** models `core/lib/ringbuf.c`. Each of `ringbuf_put` and
`ringbuf_get` is three steps (test, access to the slot, store of the own
pointer), interleaved arbitrarily: the writer is an interrupt handler, the
reader a process. The pointers are one byte each, so an access is atomic. `x & mask`
is `x % Size`, which it is for the powers of two that `RINGBUF` allows.
**`ByteFifo`** is what `ringbuf.h` promises, and `ImplementsFifo` the
refinement, with the slots from `get_ptr` to `put_ptr` as the abstract queue.

**`Process`** models `core/sys/process.c`. The list is the head `process_list`
and the function `next`, stale pointers of unlinked processes included, since
loops follow them. The C stack is the variable `stack`: a frame for each
kernel function or thread that waits for a call to return, with the locals the
code has (`q`, `old_current`, `fromprocess`). A thread is any sequence of
kernel calls, then a return; `process_poll` comes at any moment from
interrupts. Two history variables say what the properties need: the field
`due` of a loop's frame, the processes the loop still has to visit, and
`asked`, the polls asked for and not yet served. `ExitCalled` selects whether threads
may call `process_exit` on a process that is not waiting for an event: itself,
one that is up the stack, or one that is exiting already. `process.h:384-386` allows
that, and most properties are checked and proved with it; what they say of the state of a
process is `NoneDeaf`: one that is on the list and cannot take an event is in a call or
in an exit further up the stack. Event data,
`process_alloc_event` and statistics are left out. `events` is the
sequence of queued events, not yet the ring with `fevent` and `nevents`.

**`Etimer`** models `core/sys/etimer.c` with `timer.c` and the tick interrupt
of `cpu/avr/dev/clock.c`. The clock counts modulo `Wrap` as `clock_time_t` does
modulo 2^16. Of the kernel it keeps the bounded queue, the poll flag of
`etimer_process` and which processes are on the list; calls of processes happen in
poll handlers (`pc = "event"`) and event handlers (`"handle"`). `Exit` is `exit_process`
up to the moment at which `etimer_process` is told. A process may call on after
that: `exit_process` calls its thread with `PROCESS_EVENT_EXIT` (`process.c:153-157`), a
thread that exited itself goes on, and the callback of a ctimer runs as the process that
set it. The history variable `late` holds the timers set in this way. The scan of the
list by `etimer_process` is one step per timer, with the `goto again` after each
event posted, and the tick comes between any two steps. `age` is history: the real
ticks since a timer's start, which the wrapping arithmetic has to agree with.

**`Ctimer`** extends `Etimer` with `ctimer_list`: each of its calls is the
etimer call of the code conjoined with the change of the list, and the take of an
event by the main loop includes what `ctimer_process` does with it.

**`Csma`** models `core/net/mac/csma.c`, the `send_list` of
`core/net/mac/nullrdc.c` below it and its pools. The loop of `send_list` is one
step for a packet's transmission with `packet_sent` (the radio's result is a
choice) and one for going on, and between the two the senders that were called
back may send again, with `n` and `next` remembered as the code does. A packet
stands for its list entry, metadata and queuebuf, which the 16-bit sequence number
finds again; the pools are counts, and other modules take queuebufs at any time.
`send_packet` asks the pools one after the other (`GotPacket`, `GotMetadata`, `GotBuf`), and
when one has no block gives back what the others gave, block by block, and the neighbour
if it has no packets (`GiveBack`).
A transmit timer fires at any time after it was set, which includes every
backoff and the early callback of a ctimer that was set again (section 6). `to`, `answer`, `acked` and
`noacks` are history.

**`Rucb`** models the file transfer `core/net/rime/rucb.c` over `runicast.c` and
`stunicast.c`: a sender and a receiver, the queues of their MACs (first in first
out for one neighbour, which is `InOrder` of `Csma`), and a radio channel that
loses packets and ACKs or makes the MAC repeat them. `Transmit` is the end of
a packet's stay in the MAC with the callback up to `sent_by_stunicast`;
`unicast_send` calls back at once when the queue is full. Since the
retransmission timer does not ask whether the last copy has left the queue, callbacks
of old copies come while the next packet is under way. Allocation of a queuebuf
may fail at each end. A file is the lengths of its chunks, all full but the last
(`FileAssumption`: it is read at multiples of `RUCB_DATASIZE`). History: the number of each
packet, what was reported, where and how much was written, `wrapped`, whether timeouts
in a row have brought the two-bit numbers round, and `stale`, whether a file of exactly one
full chunk was sent while `last_size` was 0.

**`Tcp`** models `uip_process` of `core/net/ipv6/uip6.c` as far as TCP goes,
the periodic timer and poll of `tcpip.c`, and `core/net/ip/tcp-socket.c` on
top, at the two ends of a connection. The connection block and the socket of an
end are one record; a step is one call of `uip_process` with its
`UIP_APPCALL` (`appcall` and `appsend` have the code's names), or a call of
the application. The network is a set of segments for each end: a
segment is delivered while it is in the set, any number of times and in any
order, until it is lost. Timers may fire at any time, which covers every
estimate of the round trip. The i-th byte written is the number i, so the order of
bytes can be seen. **`ByteStream`** is what stream sockets promise and
`ImplementsStream` the refinement, with `told` of a connection as its end.

**`Coffee`** models `core/cfs/cfs-coffee.c`. The flash is an array of
pages, each with what a header read there gives and one region of data; extents,
logs, obsolete and isolated pages are as in the code, `next_file` skips
by headers and reads what it finds. The loops of `find_file`,
`get_sector_status` and `find_contiguous_pages` are the set of pages at which such a
walk stops (`WalkFrom`) and what they pick from it; those of `collect_garbage` and of the
copying in `merge_log` change the flash as they go and are recursive functions. `ram` is `protected_mem`: `next_free`,
`gc_wait` and the cached file objects. An operation is a sequence of writes to
the flash, each marked with its kind; the power may fail after each write whose
kind is in `CrashIn`, which leaves the flash so far and clears `ram`. `files` is
history: what each file holds by the calls that returned.

The `MC...` modules add only symmetry sets and constants for TLC. A comment
`mutated form` marks a wrong version of the definition after it: replacing the
definition by it makes TLC report the property named in `PROJECT.json`, which
shows that the property can fail.

## 4. Runs

| Run | Shows |
|---|---|
| `ringbuf` | type invariant, `Ownership`, refinement of `ByteFifo` |
| `process_walks` | list and loops under every nesting of starts, exits and calls, threads that exit themselves or their callers included; `PROCESS_CURRENT()` right in every thread; no listed process left deaf |
| `process_served` | with `ExitCalled = FALSE`: no poll request lost, no reentry; under fairness, polls served |
| `etimer_safe` | list sound over exits, calls after an exit and full queues, no event early, expired timers polled for |
| `ctimer` | no ctimer forgotten, lists agree, `next_expiration` right, no callback early (two of these unless a ctimer is set while its event is queued); under fairness, every one called back |
| `csma` | pools balanced, whichever of them has no block for a packet; no neighbour without a timer; packets in order over callbacks that free and reuse blocks; each sender told once and truly; under fairness, every sender told |
| `rucb` | a transfer over loss, repetition, full queues, missing buffers and late callbacks: the ACK a packet waits for is the one it will get; chunks once and in order; what is reported as sent has arrived; the file whole at the receiver, with a full or a short last chunk; every transfer ends |
| `tcp_stream` | the byte stream kept over loss, duplication and reordering, with wrapping sequence numbers, timeouts, resets and closes from either side or both; the socket's count of bytes in flight right; the application told of every beginning and end |
| `tcp_settles` | under fairness of the periodic timer alone: no connection hangs in a handshake, a close or with bytes outstanding |
| `tcp_loss` | **violated**: an application that sends again before `DATA_SENT` loses bytes |
| `coffee` | the files hold what was written, over logs, merges, extension, removal, collection, restarts and power failures; quick skip finds every file; caches in RAM true |
| `coffee_gc` | **violated**: where extents may cross a sector boundary, the collector erases a file in use |

A violated property is one that a passing run shows under a restriction, and the
restriction is a constant: `SendWhileBusy` of `Tcp`, extents of whole sectors in `Coffee`.
`findings` quotes the sentence of the repository that the code breaks. Further
restrictions that passing runs make are the constants `ExitCalled`,
`AdjustAhead`, `UnlistenLate` and `CrashIn` and the history variables
`late`, `rearmed`, `wrapped` and `stale`; what the code does without them is in section 6.

*Bounds.* `Size = 4` gives the ring every relation of the two pointers,
wrap-around included. Three processes are what it takes to exit the neighbour of the
process a loop is at while a third calls; `MaxCalls` (kernel calls per
`process_run` that can nest) of 2 or 3 allows a call within a call within a
broadcast; a queue of one event makes it full often. Two timers and `Wrap = 8`
with intervals 0 and 2 let the clock wrap in every phase of both timers;
`MaxLag` is the ticks in one round of the main loop, `MaxLate` the delay after
which a timer is reset, `MaxCalls` the calls of all processes: together they say that
the main loop is not so slow that the clock wraps past an expired timer, which
on the board would take 512 seconds. For `Csma`,
three packets, one of them an ACK, with limits of one and two transmissions,
three addresses for two blocks, two packets per neighbour and three queuebufs of
which others hold up to one make each of the four allocations fail, let an ACK
overtake a retransmission, and let a callback be given the block just
freed. For `Rucb`, three files, each of one full chunk or of a full and a short one, make
the first file, one that finds the `last_size` of another, a short last chunk with the empty
packet after it, and more packets than the two-bit numbers; two transmissions
per packet and two places in each queue let every packet time out and old copies
and old ACKs meet the next packets. For `Tcp`, initial sequence numbers
14 and 15 modulo 16 make both directions wrap; two bytes from the client with an
MSS of one (one segment after the other) or two (a segment that grows
between retransmissions), one byte back, two segments under way to the server
and one to the client, one retransmission before giving up: all pairs of a late
segment with the next one, data crossing data, FIN crossing FIN. A SYN does not
outlive its connection (the maximum segment lifetime, which uIP relies on
as every TCP does). For `Coffee`, four sectors of two pages, extents of one or two
whole sectors, logs of two records, files of up to three and one regions and two
cached objects fill the flash, force merges, extensions and collections
and reuse objects; `coffee_gc` has three sectors of four pages, so that extents
of two pages with logs between them cross boundaries. Symmetry is used for processes, timers
and values with the same role, and in no run that checks liveness.

*Fairness.* `main` calls `process_run` in an endless loop, the platform does not
build with `RDC_CONF_MCU_SLEEP`, and a protothread must return to be a
protothread: hence weak fairness of the kernel's steps, of `process_run` and of
`ThreadReturn`. The tick is a hardware timer: weak fairness of `Tick`. Nothing is
assumed of threads' calls or of interrupts. In `Csma`, timers fire
(`CalledBack` of `Ctimer`) and `send_list` goes on; strong fairness of a
transmission that does not end in a collision says that the channel is not busy
for ever. The code needs it: `packet_sent` does not count collisions towards
`max_transmissions`, so with a channel that is always busy it tries for ever. In `Rucb`
the retransmission timer fires and the MAC calls back for each packet, which are
`CalledBack` of `Ctimer` and `Answered` of `Csma`; nothing is assumed to
arrive. In `Tcp` the only fairness is that of `Timer(e)`: `tcpip.c` restarts the
periodic timer while any connection is active. `Coffee` has no liveness property.

*Deadlock* is checked but for `Tcp` and `Rucb`, where connections and transfers
end and the bounded application has no more to do. Elsewhere the main loop always
has a next step (in `Csma`, the other modules that use queuebufs have; in
`Coffee`, the restart).

## 5. Proofs

`RingbufProofs` proves, for every `Size > 1` and every non-empty set of bytes,
`TypeOK`, `Ownership` and the refinement `Spec => Fifo!Spec`. `Ownership` is
inductive with `TypeOK`: the writer only ever sees the reader free more
slots, the reader only sees the writer fill more. Modular arithmetic is done once
in lemmas about `Masked`; the refinement maps `PutAdvance` to `Put`, `GetAdvance` to `Get`,
the failing tests to `PutFull` and `GetEmpty`, and all else to stuttering.

`ProcessProofs` proves, for every set of processes and all other constants,
`TypeOK`, `ListOK` and `WalkComplete`. What a loop visits is `Reach`, the least
set closed under `next`; nothing needs induction over the list. Acyclicity is
well-foundedness (each non-empty set of processes has one whose successor is
outside). `WalkComplete` is not inductive: unlinking a process must not cut a loop
that stands elsewhere. The inductive invariant is `ListOK /\ WalksOK`: every
frame's outstanding processes are on the list and reachable from its cursor, even
if the cursor's process has been unlinked, because `exit_process` leaves that
process's `next` pointer alone, and a start only ever links in front. The lemmas
`LinkFacts`, `UnlinkFacts` and `ReachStep` say what the two pointer updates do to
`Reach`; `StartWalks` and `UnlinkWalks` lift them to the frames.

The second part of `ProcessProofs` proves the rest of `Process`, for every nesting of calls.
`CurrentIsRunning` is inductive once each frame is related to the one below
(`CallsOK`: what a frame saved as the caller is what ran below it). `PollPending`
needs `WalkComplete`: a poll made while `do_poll` is under way is served by the
running walk or by the next. `NoneDeaf` is proved for all constants, exits of any process
by any thread included. By itself it is not inductive, since a frame that returns must
not be the only excuse a process has; the invariant adds the process that is about to be
called or has just returned (`Explained`), and each operation either keeps every excuse
(`Keeps`) or is the one that gives the process its state back. `NoReentry` rests on
`CallsInv`, which says of each process in which frames it may appear when it is in state
`CALLED`. It is proved for `~ExitCalled`: a process that is exited up the stack and
started again is called while its thread has not returned (section 6), and the run
`process_served` is made under the same hypothesis.

`EtimerProofs` proves `TypeOK` and `ListSound` for all constants, with the
inductive invariant `EtimerInv`: list, queue and scan name each timer at most
once, a listed timer has an owner, so that `add_timer` finds it on the list, and an owner
that exits takes its timers along, but for those that it sets after that (`late`). Time is compared modulo the
clock's width, so that the three properties about time need the history variable
`age` related to the stamps (`Ages`) and hypotheses that TLC's instances satisfy
too: `Punctual`, a timer is reset or adjusted less than a wrap after its start;
`~AdjustAhead`, `etimer_adjust` puts no start into the future. `ExpiredIsPolled`
also needs that adjustments only postpone (`Diffs \subseteq Nat`): an adjustment
that brings a timer forward past its expiration is noticed at the next tick only.
`NextExpirationSoonest` needs that no process exits (`Mortal = {}`): the exit
handler removes timers and does not call `update_time`.

`CtimerProofs` shows first that a step of the callback timers is a step of
`Etimer`, and so takes over what is proved there; then `ListsAgree` (its invariant
`Agree` follows a ctimer from the list through the etimer and the event queue to
the callback), `CallbackOnTime` and `NextExpirationSoonest`, whose hypothesis about
exits a ctimer process satisfies.

`CsmaProofs` proves all five safety properties of `Csma` for every set of
neighbours, packets and pool sizes. The invariant `CsmaInv` says which packets each
queue holds, which of them the walk of `send_list` still has before it and which
callback is under way; the pools are counted with the cardinality theorems, one
lemma per list operation (`Place`, removal at the head). `GiveBackFacts` has the cases of a
refused packet, by the first pool without a block.

`RucbProofs` proves `TypeOK`, `UnderWay`, `OnceInOrder` and `SentTrue`. The
invariant relates the number of the packet under way to every copy of it and of its
acknowledgement that a queue may still hold: all are of this packet or older
(`InOrder`, `Fresh`). `FileWhole` is proved for all files too. Its invariant says
where the receiver stands (`Carried`): at the chunk under way or, when it has had that, one
further or with the file closed; and what `acked` will find in `last_size` (`SizeOK`). A
packet without data may find the receiver at the start of another file (`Placed`).
`FileWhole` stops at a transfer that was given up and at a file of one full chunk sent
with `last_size` 0, where the code does not close the file (section 6).

`TcpProofs` proves `TypeOK`, `InFlightKnown`, `ApplicationKnows` and the refinement
`ImplementsStream`. `TcpInv` says of an end, by the phase of its connection
(`Unopened`, `Opening`, `Flowing`, `Closing`), how block and socket agree: the
output buffer holds the bytes after `conf` up to `wrote` (`Buffer`), the bytes in
flight are its first `nxt`, and `snd` and `rcv` are positions in the stream (`At(e, k)`
is the number of the byte after the first k); of a segment on the way, that the
bytes it carries were written and stand at their numbers (`SegOK`). Each handler of
`uip_process` has a lemma (`SynRcvdStep`, `EstablishedStep`, `TimerStep`, ...) that
gives the end it leaves, the segments it sends and, as `Moves` or `Idle`, what it does to
the stream. `StreamInv` adds what a step may not break for the refinement: the bytes
given to an application are 1, 2, ..., and a number is only acknowledged by
an end that has all bytes up to it or has ended (`Taken`). The segment with the next
number is then the one with the next byte, and an acknowledgement of all that is in
flight means that it has arrived, provided no two positions share a number
(`Distinct`). The hypotheses: `~SendWhileBusy`, without which the promise is broken
(run `tcp_loss`); `~UnlistenLate`, without which data is swallowed (section 6);
and `Few`, fewer bytes than sequence numbers, because the network of the model may
keep a segment for as long as the connection lasts, where a real one forgets it before
the numbers come round. `Send` maps to `Write`, whatever else changes an end to
`Progress`, `Lose` to stuttering.

`CoffeeProofs` proves the four properties of `Coffee` for flashes, extents, logs,
caches and files of any size. None of them is inductive. The invariant `CoffeeInv` says of the
flash that extents begin and end at sectors, do not overlap and have nothing in
their free space (`Layout`), that each modified file has one log of its own, written
from its first record on (`Logs`); of the RAM that each file object is that of an
active extent and right about its end and its records (`CacheOK`), that no free page
lies before `next_free` (`FreeOK`), and that `gc_wait` is set only while nothing is
obsolete (`GcOK`). `FilesHold` adds that no two files have one name (`One`) and that `files` is
`Contents` (`FullInv`). TLC has checked these parts on the instance of the run
`coffee`. The argument follows the calls of the code:

- *The walk.* `WalkIsStops`: on such a flash, the pages at which the recursion over
  `next_file` stops are exactly the starts of extents and the free areas (`Stops`). The
  recursion is unfolded by taking a least page at which the claim would fail; the
  provers cannot use the library's induction theorems, but they can use that `<` on the naturals
  is well founded (`WFMin`).
- *The collector.* `Collected`: after sector s the flash is the old one
  with all obsolete extents before it blank (`Swept`), whatever the static variables of
  `get_sector_status` carried over the boundaries; so no active page is erased.
- *Extents and objects.* `Made`, `Gone`, `Found` and `Holds` say what `reserve`,
  `remove_by_page`, `find_file` and `cfs_open` leave, in failure too.
- *Contents.* `Region(fl, p, r)` is the last record of region r or the page of the extent;
  `Moved` says that a merge keeps every region, `Stored` that a record changes just
  one, and `Outcome` that `cfs_write` changes just region r (`Done`) or nothing (`Same`),
  at its end and at each point where the power may fail.

The hypotheses are about constants and hold in the run `coffee`. `WholeSectors`:
new extents and logs are whole sectors; where they are not, the collector erases
files in use (run `coffee_gc`). `SafeCrashes`: the power does not fail between the index
and the data of a record, in a removal, or in a collection; `SafeMerge`, for `FilesHold`
only: nor in the copying of a merge. Section 6 says what the code does then.
`NoFileDistinct`, for `FilesHold` only: the mark for a file that is not there is not
a sequence of regions, so that it cannot be taken for contents.

What stays with TLC: liveness (`PollServed`, `CalledBack`, `Answered`, `Ends`,
`Settles`), which is out of the prover's reach; and the two violated properties,
which are counterexamples.

## 6. Observations

What the code does where a run makes a restriction, or just beside a property.
Those marked (TLC) were found or confirmed by lifting the restriction.

*Kernel.* A process that calls `process_exit` on itself and then yields is set RUNNING
at `process.c:196` although it is off the list (TLC): `process_is_running`, which "checks if a
specific process is running" (`process.h:503-511`), tells that it runs; it misses
broadcasts and polls, while an event that was posted to it still reaches its thread, and it
can be started again. A process that is exited while its thread is up the stack
and that is started again is called before that thread has returned, so that its protothread
is entered twice (TLC with `ExitCalled`). An event that is queued for a process when it exits
reaches its next life (by reading), and an etimer that it sets in its
`PROCESS_EVENT_EXIT` handler stays on the list (TLC without `late` in `ListSound`).
`PROCESS_EVENT_EXITED` does not reach a process that is in a synchronous call
(`process.c:149`), so what it keeps for the exiting process stays (TLC). `etimer_adjust` by
more than the time since the start makes a fresh timer fire at once
(`etimer.c:200`, TLC with `AdjustAhead`). A ctimer that is set while its old event is
queued is called back at once, and not when it expires (`ctimer.c:76`; hence
`rearmed`).

*Rime.* `sent_by_stunicast` does not ask which packet it is called for: the
callback of an old copy counts against the packet under way, or reports a
timeout after the arrival was reported. After three timeouts in a row an old ACK is
taken for that of a new packet, even when nothing is under way, since the
handler does not test `is_tx` (TLC). The number is advanced after the
`timedout` callback, so a packet sent from within that callback can never be
acknowledged (`runicast.c:96-102`, by reading). In `rucb.c` a file that is no
multiple of `RUCB_DATASIZE` is followed by an empty packet that the receiver takes for
a new, empty file, so that the application sees one more file than was sent (TLC;
`FileWhole` says that no data is misplaced by it), and `rucb_send` does not reset
`last_size`, so a file of exactly one full chunk that follows another is never closed at
the receiver (TLC without `stale` in `FileWhole`). After a transfer was given up, the next one is
appended to it at the receiver.

*TCP.* An application that unlistens between the SYN and the establishment of a
connection leaves one that swallows data (`tcpip.c:772-792`, TLC with
`UnlistenLate`). In FIN_WAIT data is acknowledged and thrown away, so the other
side is told `DATA_SENT` of bytes nobody got (`ByteStream` allows it: `deaf`). A
local close reports `TCP_SOCKET_CLOSED` twice. Any RST is accepted, whatever its
number. An established connection with nothing to send notices no loss of its
peer. With several connections `UIP_POLL_REQUEST` may use the `uip_slen` of
the call before.

*Coffee.* Creation, append and log writes survive a power failure; a merge (two
active extents of one name), a removal between log and file, collection between two
erasures (data read as headers) and a log record between index and data (a
region of zeroes) do not (TLC with the other members of `CrashIn`).
`find_contiguous_pages` refuses an extent that fits exactly at the end of the
flash; the outer loop of `find_next_record` does not stop at the record found,
which matters for logs longer than `COFFEE_LOG_TABLE_LIMIT`; `cfs_open` of an
existing file creates a second one when no file object is free; `file_end` does not
see trailing zeroes.

## 7. Not modelled

Of the modelled files: event data and allocation of event numbers; `seconds`, phase
lock and delays of the clock; the process context of a ctimer's callback; the
branches of `ctimer.c` for calls before `ctimer_init`, which `main` does not make.
The tick between the two reads of the clock in `etimer_set` (`timer_set`, then
`update_time`) is taken as none. `etimer_reset` is called for timers that
have expired, as its documentation has it. In `Csma`, the contents of packets, the
swap files and reference buffers of `queuebuf.c`, the lengths of backoffs, and
the counters of collisions and deferrals, which are only written. `AnswerTrue`
bounds the attempts only for addresses without ACK packets: `n->transmissions`
belongs to the queue, so an ACK put before a packet under retransmission starts
with that packet's count.

In `Rucb`, `rucb_close` and opening a connection a second time, and a node that
sends and receives on one connection. In `Tcp`, urgent data, `uip_stop`, options,
window and MSS arithmetic, checksums, several connections in one table, and all of
IP, ICMP and UDP. In `Coffee`, `cfs_coffee_reserve`, `cfs_coffee_configure_log`,
directories, I/O semantics, several open descriptors, and offsets within
a region.

Of the other components of section 1: the loader, CTK, Antelope, shell, drivers and tools
stay out because they are binary formats, drawing, parsing, hardware registers
or programs of the host; the real-time timer, ContikiMAC and the trickle timer because what
matters in them is real time or a random distribution; RPL, 6LoWPAN, the neighbour
table, SLIP and CoAP are left for later work. The repository also holds many
platforms, CPUs and vendored libraries that this board does not build.

The modules cover core subsystems of the repository and not one configuration of the
board: `contiki-conf.h` of the platform selects `nullmac` where `Csma` models `csma.c`, its
makefile does not have Rime among the modules, and there is no `cfs-coffee-arch` for it;
6LoWPAN and RPL, which it does run, are not modelled.
