# Verification of the ZBOSS NCP host

The repository is the *host* half of a Zigbee device whose radio stack runs on a
separate network co-processor (NCP, here "the SoC"). Its own core logic is the
NCP protocol stack: a link protocol over a serial line, request queues above
it, fragmentation in between, and a start-up sequence that brings the SoC up;
beside it stand two data structures everything uses, the pool of packet buffers and
the address translation table. This directory holds TLA+ models of these, checked
with TLC and proved about with TLAPS.

Paths below are under `src/`; `LL` is `src/ncp/low_level/zbncp_ll_impl.c`, `HL`
is `src/ncp/high_level/host/ncp_host_hl_proto.c`, `startup` is
`src/ncp/high_level/host/ncp_host_startup.c`, `addr` is `src/common/zb_address.c`.

## 1. Inventory

| Component | State | Operations | Talks to |
|---|---|---|---|
| Low-level link (`src/ncp/low_level/zbncp_ll_*`) | per end: transmit FIFO with a sent flag per packet, frame number to send, last handled frame number, ACK to send, transmitter state (`IDLE, SENDING_ACK, ACK_SENT, SENDING_PKT, ERROR`), receiver state (`IDLE, RECEIVING_HDR, RECEIVING_BODY, RECEIVED, RESYNC, ERROR`), the two alarms, attempts and retries | `zbncp_ll_poll` (quantum), `zbncp_ll_send_complete`, `zbncp_ll_recv_complete`, `zbncp_ll_init` | called by the quantum and by the transport's completions; calls `send`, `recv`, `callme` |
| Serial transport (`zb_ncp_tr_osif_serial.c`, `zb_osif_serial_common.c`) | what is to be received, the scheduled completion and its status | send, receive, both completions | link, OS |
| Scheduling glue (`zb_ncp_ll_host.c`) | semaphore of the quantum, the last time read | `ncp_ll_quant`, `ncp_ll_send_packet`, signal and wait | scheduler, link, divider, HL |
| Fragmentation (`zbncp_divider.c`, `zbncp_reassembling.c`) | the one packet being sent and the offset in it; the packet being put together | store, cut a piece, process a response; collect | link below, HL above |
| HL request queues (`HL`, `zb_ringbuffer.h`) | pool of transmit buffers with a status, blocking and nonblocking queue, `tx_is_active`, TSN | reserve a buffer, send, `tx_ready_cb`, mark finished, init | link below; request functions, response handlers above |
| Request functions and parsers (`high_level/host/transport/*`) | `is_reset_request_pending`, otherwise none | one function per request, one handler per response or indication | HL queues, adapters, start-up |
| Start-up (`startup`) | stage and step, `soc_initial_reset_resp_processed`, `nvram_erase`, the alarms `soc_reset` and `startup_timer_alarm`, scheduled callbacks | `startup_next_step`, `soc_reset`, `startup_timer_alarm`, response handlers, `init_transport`, `zb_error_top_level_handler` | HL queues, scheduler, serial port |
| Adapters (`high_level/host/adapters/*`) | tables of callbacks by TSN | translate the stack's API | request functions, application |
| Scheduler (`src/common/zb_scheduler.c`) | callback ring, alarm list, delayed-buffer queues | schedule, cancel, run | everybody |
| Buffer pool (`zb_bufpool_mult*.c`) | bitmap of the places taken, a header per buffer, a counter per kind (IN, OUT), two queues of delayed requests | get (normal, high priority, either kind), get delayed, free, requalify | scheduler (the callbacks of delayed requests), everybody |
| Address table (`zb_address.c`) | entries that pair a long and a short address, the references sorted by short address, locks, redirections, pending deletions | look up or create by either address, update a pair, lock, unlock, delete, reset; expiry inside creation | adapters, ZDO |
| Error indication (`zb_error_indication.c`) | the application's handler | raise | start-up's top-level handler |
| ZDO, commissioning (`src/zdo`, `src/commissioning`) | commissioning state machines | BDB, SE, classic | adapters, application |
| ZCL (`src/zcl`), APS groups, install codes, OS interface, applications, firmware images | tables; none of the protocol's control | - | - |

How a request travels: a task (or a response handler) reserves a buffer, fills it
and calls `ncp_host_hl_send_packet`. The packet goes straight to the divider if
the transmitter is idle, else to one of two queues. `ncp_ll_send_packet` signals
the semaphore, the scheduler runs `ncp_ll_quant`, which polls the link with the
divider's fragment, hands a received packet to the HL's dispatcher, and calls
`tx_ready_cb` when the divider is empty. A *blocking* request stays at the head of
its queue until the handler of its response calls
`ncp_host_mark_blocking_request_finished`; a *nonblocking* one is forgotten once
it is given to the link.

### What is hard here

- The link: completions, time-outs, ACKs and the user's next packet in any order;
  frames lost or damaged; two-bit frame numbers that wrap; packets given up.
- The queues: requests from inside and outside the quantum, a divider that holds
  one packet, two queues and one transmitter, wrapping TSNs, handlers that do not
  say which request they finish.
- Start-up: two alarms beside a chain of answers, a SoC that restarts by itself
  and repeats itself, a lost Reset Request, a serial port that fails and comes back.
- Fragmentation: nobody tells either side that a frame is lost, the receiver restarts
  without the sender and the other way round, the places for frames shrink towards
  the end of a buffer of fixed size.
- The buffer pool: three accounts of the same thing (bitmap, headers, counters), two
  halves that must not eat each other, requests that wait for a release.
- The address table: a sorted array adjusted by hand in five operations, locks that
  must follow a redirection, deletion under lock.

`PROJECT.json` lists every such hazard at its line with the properties that cover
it, or the reason why none does.

## 2. Modules

| Module | Models | State and actions |
|---|---|---|
| `NcpLL` | one end of the link | the record `LLState` is `zbncp_ll_proto_t`; one operator per function of `LL`. `Poll` is `zbncp_ll_poll`: alarms, `ProcessTx`, `ProcessRx` in the code's order |
| `NcpLink` | two ends and the line | `Quantum` (the poll, with a place for a packet or not, the alarm due or not), `SendPacket` (the user), `SendDone`, `HeaderDone`, `BodyDone` (the transport's completions); faults as inputs of these |
| `PacketTransfer` | what one direction of the link promises | `Accept`, `Resolve`, `Deliver` |
| `NcpHL` | `zb_ncp_host_ctx_t` and the divider's packet | one operator per function of `HL` |
| `NcpHostHL` | the queues at work | `Issue` (a task), `Quantum` (the LL takes the packet or not, a message comes or not, its handler issues a request or not, then `tx_ready_cb`), `GiveUp`, `SocReceive`, `SocAnswer` |
| `NcpStartup` | the start-up on top of `NcpHL` | `Callback`, `ResetAlarm`, `Timer`, `RetryInit`, `ReadError`, `Quantum`; the SoC's `SocReceive`, `SocAnswer`, `SocRestarts`; the link's `GiveUp` |
| `NcpFrag` | the divider, a link that loses and repeats frames, the reassembly | `StoreTxPkt` (the HL gives the divider a packet), `TakeFragment` (`zbncp_div_process_request` and `_response`: the LL took the piece), `ReceiveFragment` (`zbncp_reassembling.c` and what the LL copies; acknowledged at once or not), `Settle` (a late acknowledgement), `Lose`, `InitializeSender`, `InitializeReceiver`; `head` is what the receiver's LL knows of the frame at the head of the sender's, `boot` whether that one has number 0 |
| `BufPool` | `zb_bufpool_mult.c` and its storage | one action per call: `zb_buf_get`, `_get_hipri`, `_get_any`, `_get_buf_delayed`, `_free`, `_requalify_in_to_out`; the callback of a delayed request gets its buffer in the step of the release that serves it |
| `AddrTable` | `zb_address.c` | `map`, `sorted` are `addr_map`, `short_sorted`; `held` are the locks the clients hold, `failure` the assertion of `zb_address_unlock` that has stopped the program, `tangled` a history of updates that redirect a part of a redirection again. Actions `ByIeee`, `ByShort`, `Update`, `Lock`, `Unlock`, `Delete`, `Reset`; a table is passed through operators named after the functions |
| `MCNcpLink`, `MCAddrTable` | - | numbers of packets; symmetry and the constraints `Bounded` and `Untangled` for TLC |
| `NcpLL_proofs`, `NcpLink_proofs`, `NcpHL_proofs`, `NcpHostHL_proofs`, `NcpStartup_proofs`, `NcpFrag_proofs`, `BufPool_proofs`, `AddrTable_proofs` | - | the theorems of section 5 |

`NcpLink` instantiates `PacketTransfer` twice, once per direction, with
`offered <- accepted[p]`, `resolved <- resolved[p]`, `got <- delivered[other]`.
`NcpHostHL` and `NcpStartup` do not repeat the link: their FIFO `toSoc` with
`GiveUp` is `PacketTransfer`'s promise, and a packet "sent" there is one the
link has taken. `NcpFrag` takes the link for a queue of two frames that may lose one
and may hand the one at its head over again: a boot frame, as `PacketTransfer` allows, and
any frame when the receiver's LL, created anew with the rest of the receiver by
`ncp_ll_proto_init`, has forgotten the number it handled last.

Abstractions. A frame carries its type, numbers, a verdict on its header (intact,
bad CRC, bad length, bad type), a verdict on its body and a packet number; bytes
and CRC arithmetic are not modelled. A frame with a broken length or header CRC is
read and skipped as a whole, where the code resynchronises byte by byte.
`ZBNCP_LL_TX_ENABLE_TIMEOUTS` is not defined by the build and is left out. A
request is an id, its TSN and whether it blocks. The divider is a packet or
nothing in `NcpHL`, where it is emptied when the LL takes the last fragment; `NcpFrag`
has its pieces. The start-up's two
stages are numbered in one row: 0 is the reset, 1 the version request, the
others ask for a parameter (`SKIPPED` steps have none to set, `STRICT` ones assert
that the answer finds the start-up at their step). Everything runs on the one
thread of the Linux build's scheduler: an action is a callback, an alarm or a
quantum. In `NcpFrag` a byte is `<<m, i>>`, the `i`-th byte of the `m`-th packet, so that
the properties can say of what packets a delivered one is made. In `BufPool` a buffer is
its place, multiplicity and kind. In `AddrTable` the hash that picks a free entry and the
clock that picks an expired one are left open: any unlocked entry may be reused.

## 3. Runs

| Run | Checks | Shows |
|---|---|---|
| `link_faults` | `OnlyHeadIsSent`, `AlarmIsForHead`, `SentHasAlarm`, `NoLostWakeup`, `ImplementsTransfer`, `AllDelivered` | packets both ways with a frame lost, damaged in its header or without a place, and a time-out that beats the answer, so that packets are given up: both directions implement `PacketTransfer`, no end sleeps with work left, a sent packet keeps its alarm, and in the end everything is resolved |
| `link_wrap` | `TypeOK`, `AckedUnlessWrapped`, `NothingTwice` | five packets one way and three frames lost, damaged or cut short: the frame numbers wrap; nothing but the boot packet is delivered twice, and "acked" means delivered unless two packets in a row were given up |
| `hl_queues` | `TypeOK`, `NeverBusy`, `BuffersAccounted`, `NoIdleWait`, `OneOutstanding`, `BlockingInOrder`, `AllServed` | six requests over three buffers with wrapping TSNs and a packet given up |
| `startup` | `TypeOK`, `SingleChain`, `AssertsHold`, `AnswerMatches`, `NoStepSkipped`, `Completes` | a start-up with restarts and repetitions of the SoC, a lost request, or a port that fails, stays away for up to two time-outs, and comes back; no time-out beats an answer |
| `frag` | `TypeOK`, `WholePackets`, `UndamagedIsDelivered`, `FewestFragments`, `AlwaysRoom` | three packets of one to four pieces, two lost frames, two that come again and two restarts of either side: only losses damage packets, those that came through whole are delivered in order, and only one of a single frame that came again is delivered twice |
| `pool` | `TypeOK`, `PoolAccounts`, `HalvesAreIndependent`, `WaitedFor`, `WaitersServed` | buffers of one and two places over eight places, two waiting requests per kind: the three accounts agree, neither half starves the other, whoever waits waits for somebody |
| `addr` | `TypeOK`, `SortedIndex`, `FoundByShort`, `LocksAddUp`, `RedirectsOnce`, `UniqueIeee`, `UnlockFindsLock`, `HeldKeepsPair` | two devices that move between short addresses, with conflicts, expiry, deletion under lock: redirections of both types with their locks, unlocked in any order and taken back, until an update tangles them |
| `link_nack`, `link_refused`, `startup_recalled`, `addr_evict`, `addr_tangled` | one property each | the findings of section 6: each must be violated |

Bounds, and why they are enough. *Link*: the FIFO holds 2 packets and the transmit
attempts are 1, as in `zbncp_ll_impl.h:61-73`; the wait-for-ACK retries are 3 there and 2
in the passing runs, so that a packet is given up within the faults allowed (one fault and
one early time-out in `link_faults`, three faults in `link_wrap`). Frame numbers are 0
for boot and then 1, 2, 3, so five packets wrap them; three losses give a packet up and
lose the answer of another. The kinds of faults are divided over the two runs: `LOSS` in
both, `BAD_LEN` and `NO_PLACE` in the first, `SHORT_READ` and `BAD_CRC` in the second;
`BAD_BODY`, `BUSY` and `ERROR` are what the violations are about. *Queues*: three buffers let
both queues fill while a packet is sent; TSNs 0..2 wrap within six requests, so
the comparison of TSNs in `tx_ready_cb` is met in both outcomes. *Start-up*: five
steps have each kind (reset, version, skipped, plain, strict), four buffers
are one more than the requests that can wait or leak in the run; two restarts or repetitions, one
loss and one port error meet each other in every order, and `OneTrouble` says
which combinations the properties claim anything about. `MaxEarly`/`MaxLate` bound
time-outs that beat an answer. `MaxAway` bounds the times the start-up timer goes off while
the port cannot be opened: two in `startup`, which with the port's error leave one buffer in the
pool, and three in `startup_recalled`, which leave none. *Fragmentation*: the code's 247-byte pieces and 1600-byte
buffer are 2 and 7, which keep the case that matters (the buffer is no multiple of the
piece: six whole pieces of 247 and 118 bytes, here three and one); the sizes 1, 2, 4, 5, 7 have
one to four pieces with and without a remainder; with three packets a loss, a repetition or a restart
has a whole packet before and after the one it hits. The theorems hold for every size. *Buffer pool*: half of eight places is
four, one of them reserved for high priority, so a kind can be below, at and above its
normal limit and a two-place buffer may or may not fit; the queues hold two requests, so
that one is refused. *Address table*: three entries for two devices and three short
addresses force expiry and fill the sorted array. Two locks lock both entries of a conflict, so that one is
redirected by its short address; three let the entry of the short address have more of them, so that the
other is redirected by its long address and its locks go the other way. The constraint `Bounded` keeps the
run finite and short: a third lock is taken only while the table holds two short addresses, one deletion is
pending at a time, and TLC does not go beyond a state in which an update has redirected a part of a redirection
again: the state itself is reached and checked, the properties claim nothing about it or what
follows (it is the subject of findings 8 and 9), and lock counters would grow without bound there. The
theorems of section 5 have none of these bounds. `addr_tangled` has no constraint.

Deadlock checking is off where the systems stop: the users send a bounded number of
packets, the start-up ends, and an assertion of `zb_address_unlock` may end the address table. The
pool never stops and is checked for deadlock.

### Fairness

- *Link.* The quantum runs when scheduled (`ncp_ll_sch_sem_signal` schedules it),
  the wait-for-ACK alarm is noticed once it is due (the quantum is scheduled with
  the alarm's time-out), the driver completes a send and delivers what is on the
  line, and the user goes on sending. The first two are weak fairness written
  without `ENABLED`: a quantum that is due always changes the state.
- *Queues.* The LL goes on taking packets and passing on what it receives: that is
  the link's `AllDelivered`, for packets that are not given up. The SoC handles
  what reaches it and answers each blocking request.
- *Start-up.* The scheduler runs callbacks and due alarms, the port can be opened
  again some time, the rest as above. No fairness on faults: nothing has to be lost,
  repeated or restarted.
- *Buffer pool.* Some holder of an OUT buffer releases it: the stack's tasks end. No
  fairness on a particular buffer. `WaitersServed` takes the rest as its premises: the
  OUT half is below its normal limit again and again, and requests for several places
  cease to wait (one of those may wait for ever while the places are scattered, and it
  blocks the queue behind it). In the run `pool` the delayed requests are all for one place
  (`DelayedSizes = {1}`), so the second premise holds there by itself and nothing is checked
  about a queue that has held a larger one.

`NoLostWakeup` is the safety side of the first assumption: it shows that the code
schedules the quantum whenever there is something to do, so fairness does not
hide a lost wake-up.

## 4. Properties, by component

- **Link**: stop-and-wait although two packets are queued (`OnlyHeadIsSent`); queue,
  transmitter state and alarm agree (`AlarmIsForHead`, `SentHasAlarm`); at-most-once,
  in order, and honest acknowledgements (`ImplementsTransfer`, `NothingTwice`,
  `AckedUnlessWrapped`); no missed wake-up (`NoLostWakeup`) and delivery (`AllDelivered`).
  `PacketTransfer` allows the boot packet (frame number 0) to be delivered
  twice, because `zbncp_ll_rx_complete_receiving` never takes number 0 for a duplicate; and two
  packets given up in a row may make a third carry the number last handled, so
  `AckedUnlessWrapped` excludes that case.
- **Queues**: the divider is never given a packet while it holds one (`NeverBusy`);
  every buffer in use is in exactly one queue (`BuffersAccounted`); the queues are
  driven (`NoIdleWait`); at most one blocking request is outstanding and it is the
  head of its queue, so a handler that compares no TSN still finishes the right one
  (`OneOutstanding`); blocking requests keep their order (`BlockingInOrder`);
  everything is served unless the link gives a packet up (`AllServed`).
- **Start-up**: one thing drives it at a time (`SingleChain`); no assertion fails
  under one kind of trouble (`AssertsHold`); what finishes a request answers it
  (`AnswerMatches`); no step is passed over (`NoStepSkipped`); it ends (`Completes`), also after
  the port failed and the start-up timer went off while it could not be opened, as long as
  the buffers this leaves reserved are not the whole pool (finding 7). A request lost by the link (finding 4)
  and a time-out that beats an answer (finding 5) are excluded.
- **Fragmentation**: restarts of either side at any moment never break or mix packets,
  only a frame the link lost does (`WholePackets`); a packet none of whose frames was lost
  or forgotten is delivered, in order, whatever happened to its neighbours, and is delivered twice
  only if it is of one frame and the link handed that frame over again, which the code does with a
  boot frame and after a restart of the receiver (`UndamagedIsDelivered`); "do not create extra packets" (`FewestFragments`); the place
  offered to the LL is large enough for every frame while nothing is lost (`AlwaysRoom`),
  for a frame that does not fit is cut *and acknowledged*.
- **Buffer pool**: bitmap, headers and counters agree (`PoolAccounts`); "do not allow one
  part to eat entire another part" (`HalvesAreIndependent`); a request that waits has
  somebody to wait for (`WaitedFor`) and is served (`WaitersServed`). `WaitedFor` has an
  exception, the variable `moved`: `zb_buf_requalify_in_to_out` frees room in the IN half but
  serves nobody, so a request for an IN buffer can wait although no IN buffer is out.
- **Address table**: the sorted array holds what it should, in order (`SortedIndex`), so that
  the bisection finds every entry (`FoundByShort`); locks are neither lost nor left behind
  by redirections and deletions (`LocksAddUp`), a redirection ends after one hop
  (`RedirectsOnce`), a device has one pair (`UniqueIeee`), nobody but an update changes
  what the holder of a locked reference reads (`HeldKeepsPair`), and who unlocks what it locked
  meets no assertion but that of the double deletion (`UnlockFindsLock`). All of these, `SortedIndex`
  and `FoundByShort` included, hold until an update finds a conflict of which an entry is a redirection
  already, or redirects the target of one (`tangled`): from then on the code keeps none of them.

Each property of a passing run has a mutant of a mapped definition in
`PROJECT.json` (a dropped guard, a missing reset, a swapped order) under
which TLC finds it violated.

## 5. Theorems

For every value of the constants allowed by the named assumptions
(`LLConstants`, `LinkConstants`, `HLConstants`, `HostHLConstants`, `StartupConstants`,
`PoolAssumption`, `FragAssumption`, `AddrConstants`):

| Theorem | Says |
|---|---|
| `LinkTypeOK` | `NcpLink`'s `Spec => []TypeOK` |
| `StopAndWait` | `Spec => []OnlyHeadIsSent` |
| `AlarmBelongsToHead` | `Spec => []AlarmIsForHead` |
| `SentPacketsHaveAlarm` | `Spec => []SentHasAlarm`, if the transport never answers `BUSY` and an `ERROR` finds no attempts left (`NoStall`); without it the statement is false, which is the finding of `link_refused` |
| `ErrorIsForGood` | no step leaves the transmitter's error state: the other half of that finding, for every instance |
| `PacketOrder` | `Spec => []NothingTwice`, whatever is lost, damaged, cut short or refused and however the frame numbers wrap |
| `AckedIsDelivered` | `NoFalseAck => (Spec => []AckedUnlessWrapped)` |
| `LinkImplementsTransfer` | `NoFalseAck => (Spec /\ []NeverWraps => ImplementsTransfer)`: both directions implement `PacketTransfer` |
| `WakeUpsAreKept` | `NoFailedSend /\ TX_FIFO_SIZE > 1 => (Spec => []NoLostWakeup)` |
| `HLTypeOK`, `NeverGivenWhileBusy`, `BuffersAreAccounted`, `QueuesAreDriven` | `NcpHostHL`'s `Spec => []` of `TypeOK`, `NeverBusy`, `BuffersAccounted`, `NoIdleWait` |
| `OneBlockingOutstanding` | `NcpHostHL`'s `Spec => []OneOutstanding` |
| `BlockingSentInOrder` | `NcpHostHL`'s `Spec => []BlockingInOrder` |
| `StartupTypeOK`, `OneDriver`, `AnswersMatch`, `StepsInTurn` | `NcpStartup`'s `Spec => []` of `TypeOK`, `SingleChain`, `AnswerMatches`, `NoStepSkipped` |
| `AssertionsHold` | `NcpStartup`'s `Spec => []AssertsHold`, if `POOL_SIZE > 1` and `MaxErrors + MaxAway < POOL_SIZE` |
| `TypeCorrect`, `AccountsAgree`, `HalvesIndependent`, `NobodyWaitsAlone` | `BufPool`'s `Spec => []` of `TypeOK`, `PoolAccounts`, `HalvesAreIndependent`, `WaitedFor` |
| `FragTypeOK`, `DeliveredWhole`, `FewestPieces`, `RoomForEveryFrame` | `NcpFrag`'s `Spec => []` of `TypeOK`, `WholePackets`, `FewestFragments`, `AlwaysRoom` |
| `UndamagedDelivered` | `NcpFrag`'s `Spec => []UndamagedIsDelivered` |
| `AddrTypeOK`, `ArrayIsSorted`, `ShortIsFound`, `LocksBalance`, `OneHop`, `OneEntryPerDevice`, `UnlockIsSafe` | `AddrTable`'s `Spec => []` of `TypeOK`, `SortedIndex`, `FoundByShort`, `LocksAddUp`, `RedirectsOnce`, `UniqueIeee`, `UnlockFindsLock`, if `~ EvictsByIeee` |
| `PairIsKept` | `AddrTable`'s `Spec => HeldKeepsPair`, an action property, under the same condition |

The conditions on the constants are each a line of the code or a disagreement of section 6:
`NoStall` says that the transport does not answer `BUSY`, and fails at most at the last
attempt, as the serial driver does; `NoFalseAck` (neither `BAD_BODY` nor `BAD_TYPE` among the
faults) excludes finding 1, without which "acknowledged" does not mean delivered at all;
`NoFailedSend` excludes finding 3, the error state in which nothing is ever scheduled;
`TX_FIFO_SIZE > 1` is `zbncp_ll_impl.h:61`, where it is 2: with one place, a packet given up makes
room that nobody is told of before the next wake-up. `NeverWraps` is about the behaviour: a
direction in which two packets in a row are given up may take a third for a duplicate,
because two bits number it like the one last handled. Of the start-up's two conditions one asks
for a second buffer, which the repeated version request needs behind the lost one (a repeated Reset
Request that finds no buffer is dropped in silence); the other for more
buffers than the port has errors and time-outs while it is away, for each may leave a buffer reserved
that `ncp_host_hl_proto_init` (`HL:376`) does not free (finding 7). Neither can go: TLC finds `AssertsHold` violated
with one buffer, and with two buffers and two errors. `~ EvictsByIeee` excludes finding 6; the run
`addr` has the same value. No condition keeps `zb_address_update` from redirecting a part of
a redirection: the theorems of the address table cover every step of the code, and their statements end at
such a step (`~ tangled => ...`), as the properties do.

*The link's argument.* The properties about the alarm are not inductive: a quantum
runs six functions in turn, and what keeps the alarm from outliving its packet is
that each leaves the context consistent. `NcpLL_proofs` defines that
consistency (`LLInv`: the packets behind the head are unsent, a running alarm
belongs to a sent head and to a transmitter that waits, a transmission under way has
attempts left, the ACK to send has a valid number, the reset alarm is off) and has
one lemma per function that shows it kept, ending in `PollInv`. `NcpLink_proofs`
adds `EndInv` - a completion is due only while the transmitter waits for it, and no
alarm stays at `NOW` between quanta - and has one lemma per action. `SentInv` is
kept apart because it needs `NoStall`.

*What goes over the line.* Order and delivery need to know which packets are on the way. The
packets of a queue are numbered in a row and each carries the frame number its place in that row
gives it (`QInv`). `Way` is the way of one direction from its sender to its receiver, oldest
first: the header read and not yet its body, the frames on the line, the one being sent, the
packet at the head. Along it packet numbers do not descend (`DataInv`), and the receiver has
delivered none that is newer: so nothing overtakes (`OrderInv`, which gives `PacketOrder`).
The answers go the other way with two bits only, and the argument is what they can mean:
`Rank` is the one packet among three neighbours that a number can stand for, and `AnswerInv`
says that the frames and answers of a direction, ranked near the head (`Ranked`), form a row
in which an answer is never ahead of what the receiver has handled. An ACK that resolves the
head is therefore about this packet; only after two packets given up in a row may it be about the
packet three before, for which the receiver took this one: that is the exception in `AckedUnlessWrapped`, and with it the steps of `PacketTransfer` follow
(`LinkImplementsTransfer`: `Accept` for a packet given to the FIFO, `Resolve` for one that
leaves it, `Deliver` for one that reaches the user, and a quantum may do a `Resolve` in one direction
and a `Deliver` in the other). `WakeInv` is what the quantum leaves behind: after it nothing is to be done
before a completion, the alarm or a call of the user, each of which schedules it again.

*The queues' argument.* `BuffersAccounted` speaks of a concatenation of queues;
`HLInv` says the same with positions (`Distinct`, `StatusFits`, `AllQueued`), adds
that an idle transmitter has an empty divider, and is shown for each function, with
`HLInvBut` for the moments when a buffer is in no queue. That a queue always has
room (`QueueHasRoom`) is a counting argument: a queue of distinct buffers
with one buffer outside it is shorter than the pool. `Busy` is what `NoIdleWait`
needs: the lemma about `tx_ready_cb` re-establishes it after any step of the quantum.

`OneOutstanding` needs `WaitInv`: of the packets that have left the divider (`toHost \o atSoc
\o toSoc`, the oldest first) and the one in it, at most one is blocking, and it is the head
of the queue, waiting. The operator `Moves` says what a function of the HL may do to the
divider and the head (leave both; take a nonblocking packet; take a blocking one while
none waits) and one lemma per function shows it does no more; the algebra of marked
elements (`Has`, `Few`, `All` over concatenations and tails) carries that through the
queues. `BlockingSentInOrder` adds an order: the ids in the blocking queue increase, and those not sent yet are
above every id that was sent.

*The start-up's argument.* `SingleChain` counts callbacks, alarms, requests and
reinitialisations; `Chain` says which: until the last step is done exactly one of
`ByCallback`, `ByRequest`, `ByAlarm`, `ByRetry` holds (`Driver`), and then none. To know that an
answer finds the driver it belongs to, `Live` adds what is under way on the queues
(`toHost \o atSoc \o toSoc`): at most one answer or request of a step after the reset, and
it is the one waited for (`Flow`); a reset request finds the way to the SoC empty
(`ResetFirst`), and before the reset alarm or an initialisation nothing is under way at all;
a reset response is awaited exactly while the reset's request waits (`Ordered`). The SoC's
restarts and repetitions put resets in, which `Flow` does not count. One lemma per
handler (`DispatchChain`, `FinishChain`, `HandleChain`, `ReadyChain`, ...) and one per group of
actions keep it; the queues' own functions are those of `NcpHL_proofs`.

The other three properties speak of any one kind of trouble, and two invariants share the cases
(`OneKind`). While nothing is lost and the port does not fail, `SteadyInv` adds to `Chain` that the request
which waits is the current step's and that the steps passed have their answers
(`InStep`), and, so that no reset indication finds the start-up behind its version step, that one still on
its way is older than the version the host has read (`Heard`). When the SoC neither restarts nor
repeats itself, a request may be lost or the port fail, and `Chain` is false: a lost request stays in the
queue with the repetitions behind it, a port that was opened again leaves a message without a request
and a buffer in no queue. `TroubleInv` says instead who has the turn - one of
`TurnMessage`, `TurnPacket`, `TurnCallback`, `TurnAlarm`, `TurnFirst`, or `TurnNobody`, and then only a
time-out goes on - with what the queue may hold meanwhile (`Queued`); `TimerOff` keeps the timer from
firing behind the version step; and `Leak` counts the buffers: those in use are in the queue, but
one for each error of the port. A queue that a lost request has blocked may fill up to the last buffer, and then
`AskReset` gives up silently while no step can ask; so `AssertsHold` needs that losses and errors do
not come together.

*The pool's argument.* `Accounted` is inductive once the types are known. That a call below
the limit of its kind finds a place (`HalvesIndependent`) is counting: the places
in use are the two counters, each at most half. `NobodyWaitsAlone` rests on the limits: a
request is queued only when its kind's half is exhausted.

*The fragments' argument.* The frames under way are pieces of packets sent, each of
which continues the one before or begins a packet (`Chain`); frames are lost at the head
only, so a loss does not disturb that. `Sane` relates the reassembly to them: it is empty, or
holds bytes of a packet that was damaged (`Touched`), or the beginning of a packet, and
then the next frame is its continuation, a first frame, or a piece of a damaged packet.
`JoinedSane` shows this kept by every reception, and that what is delivered is then whole or
touched. `RoomForEveryFrame` is arithmetic: with the small piece first at least `Body` bytes of
the packet are left before its last piece, so the place is never shorter than the frame.

The frame at the head of the sender's LL may have been handed over already (`head # "NEW"`), and what the
invariant says of the reassembly it says of the frames still to be seen for the first time (`Rest`, against
`Stream`, which is all that is under way). The head itself may come again in two cases, and
`SaneStream` covers both: a receiver that has started again has an empty reassembly, so a frame it sees again
is skipped or begins a packet; and number 0 is the number of the first frame after a start of the sender,
which is a first fragment, so that it empties the reassembly and puts the same bytes there.

`UndamagedDelivered` needs more than what the reassembly holds: `DInv` compares it with the
frames still to come. The packets of the stream ascend (`Ahead`); a packet nothing has
happened to is either whole in `Rest`, or partly there and then its first bytes are in the
reassembly, or behind and delivered (`Comes`, `Arrived`, `Behind`); nothing delivered is
ahead of the head of the stream (`UpTo`); what was delivered ascends, but a packet of one frame that came
again may follow itself (`InOrder`): the fragments of a longer one are not
put together twice, since its first fragment alone delivers nothing. A loss
damages the packet it takes a frame of, a restart aborts those it interrupts, and neither moves another from one
of these classes to the next.

*The address table's argument.* The first part of `AddrTable_proofs` is about the algorithms on
the array, for any table: the bisection returns the first index whose entry is not below the address asked
for (so it finds what is there, and an insertion there keeps the order), the scan of
`del_short_sorted` leaves the array without one reference and changes nothing else, `Reset`
leaves every entry unused. These are inductions on the length, done as the absence of a smallest
counterexample (`Smallest`). The second part is `TableInv`, of any table and any locks held:
an entry out of use is one `Dropped` leaves; the array lists each entry with a short
address of its own once, in order; a redirection is locked and leads to an entry in use
that is none, which may be the target of several; the entries of one long address lead to one
entry; a lock counter is the number of the clients' locks on the entry, with those on all redirections
to it (`LockSum`). Each is needed: without the third an unlock could delete an entry that is held, without
the fourth `zb_address_update` could make a second entry for a device. `IInv` is that `TableInv` holds, and no
assertion but that of the double deletion has failed, while `~ tangled`; every operation keeps it, a conflict included in which
neither entry is part of a redirection in the way `Tangles` names, and the ones that tangle make it say nothing. An operation calls others, and between them
the array and the entries do not fit; there are lemmas for those states too (an entry that
lost its address is still in the array; one that is in use is not yet in it).

*Induction.* The induction theorems of the library take an operator as a parameter, and
no prover here can instantiate one. `WFMin` takes a set instead, and with `NatLessThanWellFounded` gives
the least element of a set of naturals, which is induction enough; a recursive function
unfolds to a `CHOOSE` once the function is shown to exist, which is such an induction
too. So recursive functions are within reach, and operators declared `RECURSIVE`
are not: `BlockingInOrder` and `UndamagedIsDelivered` speak of positions rather than of filtered
sequences for this reason, and say the same.

*Only model-checked*: all liveness (`AllDelivered`, `AllServed`, `Completes`,
`WaitersServed`, and the leads-to of the findings: fairness and `ENABLED` are beyond the prover).
Every invariant and every action property that a passing run checks is the subject of a theorem.

## 6. Disagreements found

1. `link_nack` - a packet whose body arrives damaged is NACKed with
   `zbncp_ll_acknowledge`, which records its number as handled; its
   retransmission is then acknowledged as a duplicate and dropped (`LL:656`, `LL:571`,
   against the comment at `LL:654`).
2. `link_refused` - after `BUSY` the packet keeps its sent flag but no alarm runs: it
   is never sent again (`LL:226`). The in-repository serial driver never answers `BUSY`;
   the transport interface does.
3. `link_refused`, too - the reset alarm is only armed when it is armed already, so the
   transmitter never leaves its error state (`LL:1040`).
4. `startup_recalled` - the Reset Request that `startup_timer_alarm` repeats when the
   first was not delivered is put in the blocking queue behind the first, which waits
   for an answer for ever (`startup:221`, `HL:536`).
5. `startup_recalled`, too - an answer that comes between `startup_timer_alarm` and the
   `soc_reset` it armed leaves that alarm on; the second reset's response then finds
   the start-up past the reset step, and the assertion at `startup:284` fails. Or both Reset Requests are
   under way and share one flag, so the second response is taken for a repetition and its request
   is never finished.
6. `addr_evict` - an entry created for a long address alone in the place of an expired one
   leaves the old reference in the sorted array, now with no short address: the array is
   no longer sorted and the bisection misses entries (`addr:1129`). In the run `addr` such
   entries take free places only (`EvictsByIeee = FALSE`).
7. `startup_recalled`, too - while the port cannot be opened the start-up timer goes off every 10 s, each
   time a Reset Request is queued, and the next `ncp_host_hl_proto_init` drops it without freeing its buffer
   (`HL:376`). After `POOL_SIZE` of these no Reset Request can be sent any more, and a port that comes back
   later does not complete the start-up.
8. `addr_tangled` - `zb_address_update` redirects an entry that is the target of a redirection
   (`addr:604`), against `zb_addr_globals.h:99-101`, "redirects to regular record"; lock, unlock and
   look-up follow one redirection only.
9. `addr_tangled`, too - the locks it adds then, or when a device goes back to the short address of its
   redirection (`addr:618`), are not all taken off again: when every client has unlocked, an entry is left
   locked for good, against `zb_addr_globals.h:69-71`.
10. `addr_tangled`, too - the last unlock of a redirection whose deletion is pending deletes it twice, and
   `ZB_ASSERT(ret == RET_OK)` at `addr:962` stops the program. This needs no tangled redirections.

A run that carries several findings has a property that each of them violates.
`RecallCompletes` fails with any one of the bounds of `startup_recalled` alone: `MaxLost = 1` (4),
`MaxLate = 1` (5), `MaxErrors = 1` with `MaxAway = 3` (7), the others 0; it holds with `MaxErrors = 1` and
`MaxAway = 2`, where a buffer is left. `RedirectionsKept` is the disjunction of `RedirectsToRegular` (8),
`UnusedIsUnlocked` (9) and `DeletesOnce` (10), so the state TLC ends in violates all three; each of them is
violated sooner by itself. `LocksAddUp`, `RedirectsOnce`, `SortedIndex`, `FoundByShort`,
`UniqueIeee`, `UnlockFindsLock` and `HeldKeepsPair` all end at `tangled`, the first update of kind 8 or 9.

Seen while modelling and recorded as hazards, without a run of their own:

- `pending_for_delete` is not cleared when the entry is reused, so the last unlock of the new
  entry deletes it (`addr:956`). The model keeps the flag as the code does (`Dropped`).
- Two losses (the last frame of one packet and the first of the next) can fill the
  reassembly's buffer to its last byte. The place offered is then empty, the link takes no
  frame, and the reset by a first fragment that `zbncp_reassembling.c:141` describes is never
  reached. `AlwaysRoom` speaks of runs without losses; `TypeOK` shows that no loss
  makes the reassembly write past its buffer.
- A frame that does not fit the place is cut by the link and acknowledged. After losses a
  packet made of two is delivered as one (`WholePackets` allows it exactly then).

## 7. Not modelled

Bytes and CRCs, the byte-wise resynchronisation and the inter-byte time-out of the
serial port; the contents of requests and responses, the SoC's values and the
adapters' tables; ZDO, commissioning, ZCL, security and the OS interface. The SoC's
firmware is a binary: its side of the link is taken to be the same `LL` code (it is
built from it), its side of the HL is an external definition from what the host
relies on. `PROJECT.json` gives the reason per component.

By lines most of the repository is out of this list's reach on purpose. Some hundred
thousand lines are headers of declarations and macros; the ZCL directory is about fifty
thousand lines of command parsers and attribute tables, cluster by cluster, each a
sequential function of its input with no state shared with the next; the adapters and
request functions copy fields. A model of one of these restates it. What has control that
interleaves, waits, retries or must keep several structures in step is the NCP stack,
the pool, the address table and, above them, the scheduler and the commissioning state
machines. The scheduler (two queues served by one thread) is the next candidate; the
commissioning machines run on answers of the SoC whose order only the firmware defines.

In `BufPool` the flag `mac_rx_need_buf` (the MAC is on the SoC), the statistics and the
headers' contents are left out; in `AddrTable` the PAN ID table and the table of
manufacturer codes, which share the file, and `zb_long_address_update_by_ref` (`addr:515`): it writes a long
address into an entry without a search or a lock, so a call could break `UniqueIeee` and
`HeldKeepsPair`, but nothing in the repository calls it (it is declared at
`zb_address.h:352`). In `NcpHL` the divider accepts every packet: the error path for a size out of
range (`zbncp_divider.c:76`) is left out.

## 8. Plan

Done: the link with its refinement; the queues; fragmentation; the buffer pool; the
start-up; the address table: all checked, and every safety property of the passing runs
proved.

Next, in this order:

1. The scheduler (callbacks, alarms and their cancellation) as the specification
   of what `NcpStartup` and `NcpLink` assume, with the full callback queue.
2. What should hold after a late time-out, and of redirections that are tangled, once the code
   says what is meant to happen.
