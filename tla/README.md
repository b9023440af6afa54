# Verification of the Zigbee bulb's firmware

TLA+ models, TLC model checks and TLAPS proofs for the code of this
repository: a Zigbee on/off bulb (`src/on_off_bulb_app.c`) on the Trident IoT
SDK for the T32CM11/T32CZ20, with its bootloader. The binary parts (the ZBOSS
stack, the radio and FreeRTOS libraries) are not in the repository; the models
contain what the sources assume of them, marked external in `PROJECT.json`.

Contents: 1 the system, 2 the modules, 3 the runs, 4 the proofs, 5 what the
runs found, 6 what is not modelled, 7 the plan.

Paths: `ZF/` is `tridentiot-sdk/zigbee/framework/`, `OTA/` is
`ZF/plugin/zcl/ota_upgrade_client/`, `BL/` is
`bootloader/bootloader_T32Cx1x/src/`.

## 1. The system

The application runs in ZBOSS's main loop: signal handlers, command handlers,
alarms and scheduled callbacks run one after the other, each to completion.
Only the button's GPIO handler and the UART's receive handler are interrupts.
The watchdog and the power supply can reset the device at any instruction; what
survives is the flash: the application slot, the upgrade bank, the FOTA header
and ZBOSS's NVRAM.

| component | state | operations | hard because | correct if |
|---|---|---|---|---|
| OTA flash storage, `OTA/tr_osif_ota.c` | ring of two 256-byte units, in and out pointers, write address, bank | erase, set address, write a block, write the rest, verify, mark ready | wrap and boundary arithmetic; RAM is lost in a reset, flash is not | bank and ring are the file received so far; a resume goes on exactly where flash ends |
| OTA client, `OTA/tr_over_the_air_bootloading_client.c` | status and offset attributes, download state, deferred response, retry counter, alarms | discovery, query, image/block/end responses, send status, resend, abort, finish | lost, late, duplicated and reordered messages, timers, resets, NVRAM older than flash | only complete images are marked ready; downloads end; it always asks again |
| attribute NVRAM, `ZF/utility/nvram/tr_nvram_attr.c` | RAM attributes, data set in flash, save alarm | change, delayed or immediate save, restore | saves lag behind writes | what is restored suits what is in flash |
| bootloader, `BL/bootloader.c` | FOTA header, application slot, bank | check, erase, copy, record the result, verify, serial download, jump | a reset between any two flash operations; secure boot | installs as a whole or not at all, always comes up |
| serial download, `BL/xmodem.c` | receive buffer and index, block number, retries, page buffer | interrupt per byte, receive loop, page writes, header | interrupt against loop, lossy line | the blocks arrive in order and the header covers the file |
| network rejoin, `ZF/plugin/services/network_rejoin/tr_network_rejoin.c` | active, delay, next kind of rejoin; alarm | lost parent, joined, alarm, reset of the delay | the button's interrupt, rejoins that are queued but not active, alarms that outlive what set them | tries until there is a parent, and only then; one rejoin at a time |
| framework core, `ZF/common/tr_af.c` | connection state | signals of the stack to states, rejoin requests | asynchronous callbacks | each state change reaches the plugins |
| application, `src/on_off_bulb_app.c` | search attempts, LEDs, blink parameters | button interrupt, network search, LED alarms, on/off commands | alarms cancelled or not, interrupt context, counter wrap | the search ends after its attempts, a blink ends, with its LED off |
| groups and bindings, `ZF/plugin/zcl/groups_server`, `ZF/plugin/services/bind` | the stack's binding table and group table | add, remove, remove all; bind and unbind by others | a table edited in place while it is walked, counters at 0 | a group is bound while it is joined, other bindings stay |
| identify, `ZF/plugin/zcl/identify_server` | remaining time, alarm, scheduled callbacks | write, tick, start, stop | callbacks come later than what they report | the application shows what the attribute says |
| remote CLI, `ZF/plugin/zcl/remote_cli_server` | output queue, alarms, packets under way | print, send, packet sent, enable, command | each print cancels an alarm that may carry a buffer | output never waits for nothing |
| CLI, ring buffer, UART buffers | queues of characters | put, get, line editing | full buffers | no byte out of order |
| tokens, TLV | none | reads of flash tables | - | - |
| HAL and vendor drivers | registers | - | hardware | - |

How they interact: `tr_af.c` turns a stack signal into a connection state and
calls `tr_connection_state_cb` of the application and of every plugin; joining
starts the OTA client's discovery 15 s later, losing the parent starts the
rejoin. The client writes the bank through the storage functions, keeps status
and offset in attributes whose changes `tr_nvram_attr.c` saves, and at the end
of a download writes the FOTA header and resets. The bootloader reads that
header, copies the bank over the application and records the result in the
header. Its serial download fills the same bank and writes the same header.

`PROJECT.json` lists every hazard with its line and the properties that are
about it.

## 2. The modules

| module | models | builds on |
|---|---|---|
| `OtaFlash` | state and operations of `tr_osif_ota.c`; what programming and erasing do to a cell | |
| `OtaStorage` | the same operations in their legal order, with resets: the contract between storage and client | `OtaFlash` |
| `OtaFlashProofs` | lemmas about the flash operations and rounding, for the next two | `OtaFlash` |
| `OtaStorageProofs` | theorems | `OtaStorage` |
| `OtaClient` | every handler of the client, with server, network, NVRAM and the bootloader's check of the header | `OtaFlash` |
| `OtaClientStorage` | the client as an implementation of `OtaStorage` | `OtaClient`, `OtaStorage` |
| `OtaClientProofs` | theorems | `OtaClientStorage` |
| `Installer` | abstract: what the application expects of the bootloader | |
| `Bootloader` | `main` from the FOTA check to the jump, one flash operation per step; implements `Installer` | `Installer` |
| `BootloaderProofs` | theorems | `Bootloader` |
| `Xmodem` | `xmodem.c` byte by byte with an XMODEM sender and a lossy line | |
| `XmodemProofs` | theorems | `Xmodem` |
| `NetworkRejoin` | the rejoin plugin, the button, the stack's rejoin, leaving and joining again | |
| `RejoinOutages` | the same with the memory of an outage's delays, to compare it with the first | `NetworkRejoin` |
| `Bindings` | abstract: the binding table as a set of bindings | |
| `Groups` | the groups commands and the binding table they edit; implements `Bindings` until a counter wraps | `Bindings` |
| `Identify` | the identify cluster's countdown and callbacks | |
| `Lights` | the application: LEDs, blinking, network search, button | |
| `RemoteCli` | the remote command line's output | |
| `Bulb` | the composition of the last four | `Groups`, `Identify`, `Lights`, `RemoteCli` |
| `GroupsProofs`, `BulbProofs` | theorems about the binding table; about the other parts and the whole bulb | `Groups`; `Bulb` and its parts |
| `NetworkRejoinProofs` | theorems | `RejoinOutages` |
| `MC...` | the instances for TLC | |

### OtaFlash and OtaStorage

`buf`, `inPtr`, `outPtr`, `flashAddr` are the static variables of
`tr_osif_ota.c`, `bank` the upgrade bank. A byte of a file is the pair of its
version and its position, so that a byte in the wrong place is seen. Programming a
cell that is not erased gives `Junk` unless it holds that value already: NOR
flash only clears bits. `Written` is `zb_osif_ota_write` (fill the ring, flash
at most one unit), `LastWritten` the flush, `EraseFw` and `SetWriteAddr` the
two ways to begin. `OtaStorage` adds who calls them when: `Start`, `Resume` (only with
an empty ring, at a unit boundary, above data that is in flash), `Receive`,
`ReceiveLast`, `Abandon`, `Reset`.

### OtaClient

An action is a whole handler. Responses in flight are a set, so they come in
any order or never; a reset empties it (a device that has to join again misses
what was sent meanwhile). `acks` counts requests whose send status is not known
yet; `pending` is the response that overtook it (`DeferBlock`) and is handled
in the middle of the send callback (`BlockRequestSent`). `due` is the set of
alarms; they are untimed: an alarm that is set may fire at any time. The
exception is the query alarm, which runs for minutes to hours: it fires only when the
attributes are saved and the answer to the last query is gone. `nv` is the copy of the
attributes in NVRAM and `dirty` an outstanding save; the immediate save, which
only goes through the scheduler, and the one after two seconds are not told apart. The
bootloader is one step of `Boot`: an image whose checksum still matches is
installed, whatever it is.

What the environment does is `env`, a set of habits chosen at the start and
never changed; `Environments` gives the sets a run looks at: duplicates, a late
Upgrade End Response, WAIT_FOR_DATA, aborts, notifies, several versions, blocks of
one byte. The reason is in section 5: with all of them at once the code violates most of the
properties, so each passing run leaves out the habits that break its
properties, and section 5 says what they break and how to see it.

Simplifications: all files have one size (`FileSize`); a file's tags are
its first and its last byte; where two versions were programmed over each
other the tags still read as tags; the counter of outstanding acknowledgements
saturates. The memory of buffers is not modelled, only whether one is held
(`pending`) and what is in it.

### Installer and Bootloader

`flash` is the flash from the application slot to the end, a byte again a pair
of image and position. The header is the image its checksum was computed of and
its result. `EraseSome` is one erase command of `set_flash_erase`, with its
choice of unit; `CopyPage` is one page program; `CopyTail` is the loop after
it, whose addresses advance by 256 per byte (it never runs for images that are
a multiple of a page, and writes what is there already otherwise: the page
loop has rounded up). `WriteResult` programs one byte. `VerifyApp` is the
secure boot check of the slot; `secure` is the chip's fuse, chosen in `Init` and
never changed, so that a run covers both kinds of chip. `PowerFails` is a power failure
in the middle of an erase or a program: the block or page that was busy then holds
`Torn` bytes, which are no image's. The serial download is one step that fills the
bank and, if it went well, writes the header; how it does that is `Xmodem`. The
application is what it does to flash: `FillBank`, `EraseHeader`, `WriteHeader`.

`Installer` knows the image that would run, the one on offer and the one that
runs. An image counts as installed from the moment the copy over the
application begins, because from then on no other image can run. The refinement says
that until then nothing changes and that whatever runs afterwards is that
image, complete.

### Xmodem

Only the interrupt (`ByteArrives`) and the main program run in the bootloader.
The main program's steps are split where the interrupt may come in
between: a packet read (`PacketRead`), the acknowledge (`Acknowledge`: reset of
the index and answer), the time-out. A packet has
`PacketLen` bytes, the index wraps at `IndexMod` and the block's number at `NumMod`, small
versions of 132, 256 and 256. `Behind`
says what the linker may have put behind `buffer`, which the interrupt
overruns: the index itself, the page buffer, or something that does not matter.
The sender is XMODEM's: packet, wait, repeat on NAK or silence, EOT. `Prompt`
says that it does not repeat before the receiver has answered or timed out,
`GivesUp` that it may stop. The line corrupts or loses at most `MaxFaults`
bytes or answers.

The receiver takes any single byte 0x04 for the end of the file. `MayBeEot` says which of
the model's bytes that may be: EOT; a corrupted one; one of a block's data; and the number, or
its complement, of the blocks whose number or complement is 4 (the number and the data
stand for several bytes, of which only one may have arrived). Whether it is 0x04 is open but
for EOT itself. After the header the chip is reset and receives nothing more.
A corrupted byte is never SOH, and bytes of the data do not add up to a packet by accident.

### NetworkRejoin

`active`, `delay`, `type` are `g_nwk_rejoin_params`. A handler of the main loop is split
wherever the button's interrupt may come in between (`pc`); the interrupt
is atomic. A rejoin that is asked for waits in `queued` for a buffer before it is
`rejoining` (`zb_zdo_is_rejoin_active`), and its end is a signal that waits in
`signals`. Alarms are counted, not timed. Queues and alarms are bounded and what does
not fit is dropped, as ZBOSS's tables do. `user`, chosen at the start, presses the
button, makes the device leave its network (`Leave`; `Steered` joins one again), or
does nothing; the properties that hold for some users only name them. `tr_af.c` hands
every signal of a lost parent to the plugin without looking; that the stack raises it only for a
parent it had (`ParentLost`), or for a rejoin that failed, is an assumption.

In `RejoinOutages`, `fresh` is an auxiliary variable: what the delay would be were this
outage the first one and had nobody pressed the button. It changes with the steps of the plugin
and influences none.

### Bindings and Groups

`binding` is the stack's table as memory: two arrays and two counters, the
destinations referring to sources by index, with what removals leave behind the counters.
`WithoutGroup` is the do-while of `tr_bind_remove_group_binding`, which looks
at the first entry before it looks at the counter; it is written as the set of entries
kept and their move to the front (`Keeping`), with what that leaves behind them in memory.
`WithoutGroups` walks the table backwards while it shrinks, turn by turn (`after`). A counter that goes below 0 is 255, a move of 255 entries over the
memory behind the table; nothing is modelled from there on (`Undefined`). The
properties say that it is the only way for the arrays to stop being the set of
bindings that `Bindings` specifies. `EachAsItsNamesake` ties each command to the operation
of that name: a Remove Group that took out some other single binding would not pass as
another device's `Unbind`. `AddGroup` binds before it adds, and neither
step depends on the other. The stack's own binding, moving and group table are external.

### Identify, Lights, RemoteCli and Bulb

`Identify`: the write hook runs before the attribute is written, so a
countdown's last tick stops it, schedules the callback and then sets the alarm once more.
Callbacks are a queue, as the scheduler's.

`Lights`: `job` is what the main loop is doing, split where the button's interrupt
may come between (`Cancel`, `Paint`, `Turn`, `Again` are `led_blink` and
`led_blink_handler`). Pending alarms are counted. `trouble` says what else may happen: an
alarm that is due at the very moment it should be cancelled ("tie"), the button,
a steering from the command line.

`RemoteCli`: the amount of output in the ring buffer, and the chain of alarms and packets that
empties it. `fresh` alarms take a buffer when they fire, `held` ones carry
one; a print cancels either.

`Bulb` joins them where they touch: the identify callbacks set the blue LED that
blinks, too, and "Add Group If Identifying" asks the countdown. What does not touch is not
interleaved: `scene` chooses whether a behaviour shows the groups commands,
the LEDs with identify, or the command line's output.

## 3. The runs

`tlc -config X.cfg M` in this directory; `PROJECT.json` names module and
configuration of each run. Every run ends within five minutes.

Passing runs:

| run | states show | bounds |
|---|---|---|
| `storage` | the five safety properties of the storage, the inductive invariant, and that flash is never damaged | units of 4 bytes, 2 per program, three units in the bank, blocks of 1 to 4: every wrap of the ring and every position of a block against a boundary, files of any length to 12 |
| `client` | a header is written for complete files only; the device always boots a complete image; a client that knows a server keeps an alarm that makes it ask; after any reset the download goes on only above what is in flash; every handler is an operation `OtaStorage` allows | files of three bytes in two units (a full one and a partial one), two responses in flight, two resets. Two environments: aborts, notifies and two versions with blocks of up to two bytes; and duplicates, reordering, WAIT_FOR_DATA and blocks of one byte |
| `client_ends` | a download ends, in a file or in giving up, also when an Upgrade End Response comes late | two units of one byte, three tries, two responses in flight, everything may be lost |
| `bootloader` | refinement of `Installer`, no hang, nothing but the slot written while copying, every offered image gets installed, every boot ends in an application; with secure boot a forged image neither runs nor keeps the device from coming up | with and without secure boot; pages of 2, sectors of 2, blocks of 4 and 8; an old, a new and a forged image, smaller and larger than a sector, with a last partial page; three resets or power failures, between any two flash operations or in the middle of one |
| `xmodem` | the sender's own end of file finds every block, each counted once; however the file ends, no block in another's place and a header over nothing but data sent, unless a block is left dangling | five blocks with numbers modulo 3, two faults anywhere, a sender that repeats early or stops, an overrun that may hit the index |
| `rejoin` | the waits of every outage against those of the first: at most one step of the backoff ahead, behind only after the button; without the button: never stuck, every kind over and over, also after a leave; left alone: one rejoin at a time, none after a stop | delays 1, 2, 4, 5: growth, cap and a cap that is no multiple; queues of two, three alarms; three kinds of user, the button at any instruction between two steps |
| `bulb` | bindings follow the groups and are a set, to which each command does what it should, until a counter wraps; no counter wraps while a device is bound; one chain of LED alarms that ends with the LED off; a search gives up; the application was told what the identify attribute says; output is on its way | two endpoints, two clusters, two groups, one device and a table of three entries: removals from the front, the middle and the end, by group and by endpoint, and a full table; five attempts as in the code, identify times to 2, prints of up to three bytes in packets of two, three buffers |

`OneAtATime`, `StopMeansStop`, `OneBlinkAtATime`, `BlinkEndsDark` and `SearchIsCounted` name the
circumstances they hold in (nobody interferes; no button, no alarm due while it is
cancelled; no steering from the command line), and the runs include the others: what
goes wrong there is in section 5, and these properties do not guard against it.

The runs that are expected to fail are in section 5. Deadlock is checked
everywhere but in the two `xmodem` runs, where both ends really stop: the bootloader goes on
to jump or resets. The `client` run uses symmetry between the versions, the
`bulb` run between the groups; neither checks liveness.

Fairness:

* `OtaClient`: `ResendBuffer` because ZBOSS runs every alarm that is due, and
  the send callbacks because the MAC always confirms a transmission, with success or
  failure. No fairness is assumed of the server, the network or the joins: answers may always be lost.
* `Bootloader`: the bootloader's own steps, a straight line of code that only a
  reset interrupts, and resets are bounded. `NoSerial` is strongly fair: nobody
  sends an `x` at every boot.
* `Xmodem`: the receive loop, the interrupt for a byte that was sent, and a
  sender that goes on unless it gives up.
* `NetworkRejoin`: the main loop; alarms and the stack's rejoins are strongly
  fair because they are enabled only between two handlers, which come again and
  again.

Each property has a mutant of the code in `PROJECT.json` that violates it: the
operators named "Plausible bug" in the modules.

## 4. The proofs

A run checks one instance; a theorem holds for every value of the constants
that satisfies the named assumptions of the module. Every inductive invariant
was first checked by TLC.

| module | theorems (property) | hypotheses beyond the assumptions on constants |
|---|---|---|
| `OtaStorageProofs` | `InductiveInvariant` (`IInv`), `TypeCorrect` (`TypeOK`), `BufferSafe` (`BufferNeverOverruns`), `NothingLost` (`NoByteLost`), `ResumePointFlashed` (`RoundedOffsetIsFlashed`), `CompleteWhenFinished` (`FinishedIsComplete`), `FlashedKept` (`FlashedBytesAreKept`) | none |
| `OtaClientProofs` | `TypeCorrect` (`TypeOK`), `NeverSilent` (`ClientNeverSilent`) | none: every environment |
| | `ReadyIsGood` (`ReadyMeansGood`), `NeverBricked` (`NeverBroken`) | `Tagged`, `NoLateEnd` |
| | `OffsetIsFlashed` (`DownloadedIsFlashed`) | `PlainServer` |
| | `ClientStoresTheFile` (`StoresTheFile`) | `PlainServer`, `NoLateEnd` |
| `BootloaderProofs` | `BootInvariant`, `BootTypeCorrect` (`TypeOK`), `DeviceNeverHangs` (`NeverHangs`), `InstallWritesSlotOnly` (`InstallKeepsTheRest`), `AtomicInstall` (`InstallsAtomically`) | none |
| `XmodemProofs` | `TypeCorrect` (`TypeOK`), `HeaderIsLast` (`HeaderAfterLastBlock`) | none: whatever lies behind the buffer |
| | `BlocksStayInPlace` (`BlocksInPlace`), `HeaderIsRight` (`HeaderCoversData`) | `Harmless` |
| `NetworkRejoinProofs` | `TypeCorrect` (`TypeOK`), `RejoinInvariant`, `OutagesAreAlike` (`OutagesAlike`), `DelayBounded`, `OneRejoinAtATime` (`OneAtATime`), `SomethingUnderWay` (`NeverForgottenAlone`), `StopIsFinal` (`StopMeansStop`) | none (the properties name the users) |
| `BulbProofs` | `BulbFollows` (`ApplicationFollows`), `BulbOutputMoves` (`OutputIsOnItsWay`), `OneBlink` (`OneBlinkAtATime`), `SearchCounted` (`SearchIsCounted`), `BlinkGoesDark` (`BlinkEndsDark`), `CountdownAlive`, `QueueBounded`, `BulbTypes` (`TypeOK`), `BulbGroups`, `BulbTable` | none |
| `GroupsProofs` | `SourcesKnown` (`SourcesAreKnown`), `ArraysAreASet` (`IsASetOfBindings`), `BindingsFollow` (`BindingFollowsMembership`), `DevicesProtect` (`DeviceBindingProtects`) | none |

### Storage

`SizesAssumption` and `BlockAssumption`: a unit is a multiple of a page, the bank
of a unit, a block not longer than a unit. `CellsAssumption`: erased, junk and
file bytes differ. `IInv` is `TypeOK`, `BufferNeverOverruns`, `NoByteLost`,
`FinishedIsComplete` and `WriteAddrOnPage`. None of the safety properties is
inductive: that the out pointer is 0 or one unit needs that at most one unit is
waiting, that nothing is lost needs that the cells above the write address are
erased or already hold the file (otherwise programming spoils them), which
`WriteAddrOnPage` says and a resume has to re-establish, and the flush at the
end needs all of that. The arithmetic of the ring is in lemmas of its own: a
block of at most a unit put behind less than a unit wraps at most once, and what
is contiguous is all there is; rounding down gives a multiple that is not above.
`ResumePointFlashed` follows as the write address is the offset rounded down.

### Client

Four invariants, each with a step per handler:

* `TypeInv` and `PointersOK`. The type of the ring's pointers alone is not inductive:
  that a block does not leave the ring needs that during a download the
  pointers are where the offset says.
* `AskInv`: a client that knows a server, and was not told to wait, has the query
  alarm or the resend alarm set. Only WAIT_FOR_DATA takes the resend alarm
  away, so no such answer may be in flight or put aside where none is sent.
* `InstallInv`: while an Upgrade End Response is under way, or the client waits to
  upgrade, the bank is empty or one version's file, and no download runs. The tag
  check at the end of a download starts such a phase with a good bank;
  `NoLateEnd` keeps the phase from reaching into the next download.
* `DownloadInv` (`OrderOK`, `FlashedOK`): no image response arrives while a
  download runs that was not interrupted, the bank holds nothing but bytes of the
  file, and all of them below the rounded offset of the attributes and of their
  copy in NVRAM; the ring and the bank together are the file up to the offset.
  `Sound`, in `OtaFlashProofs`, is the storage's invariant as a predicate of the
  flash and the ring, so its lemmas serve both proofs.

`ClientStoresTheFile` is a step simulation: each handler maps to `Start`, `Resume`,
`Receive`, `ReceiveLast`, `Abandon` or `Reset` of `OtaStorage`, or to a stutter.

The hypotheses are about the environments looked at, and the run `client` satisfies
all of them. They are needed: `Tagged` (`client_stale_resume`), `NoLateEnd` and
`PlainServer` (section 5) each exclude a habit with which TLC finds the property
violated. `PlainServer` says that in an environment with a single version the server
neither aborts nor notifies. With several versions the two properties claim nothing.

### Bootloader

`LayoutAssumption` gives the order and alignment of slot and bank, `ImagesAssumption` the
images' sizes, `TailAssumption` that no image is so small that the loop behind the
page copy writes inside the flash (section 5). `BootInv` is `TypeOK`, `Progress` and
`Marked`. `Progress` says for every place in `main` what the slot and the bank hold:
while the slot is being erased or written, the bank still holds the complete, signed
image that the header offers; behind the copy, the slot holds it. A power failure
leaves torn bytes in the slot, from where the next boot starts over with the same offer.
`Marked` says that a header about to be written is one of a complete image.
`InstallWritesSlotOnly` adds address arithmetic (an erase unit that begins in the
slot ends in it); `AtomicInstall` is a step simulation on top of `BootInv`.

### Serial download

`OrderInv` relates what is on the line, in the buffer and on its way back:

* `LineOK`: the line carries the packet the sender is at.
* `BufferOK`: what is left in the buffer is of that packet or an older one, but of none
  before the last one received, and when the buffer looks like a packet, its data is no
  older than its number. An old number behind a newer packet's first byte is possible,
  since a repeated packet may be put behind remains.
* `AnswersOK`: until the file ends the sender is never ahead of the receiver and at most one
  block behind, at most one ACK is on its way, and only when the sender is behind.

So an accepted packet carries the very block expected (`AcceptedIsCurrent`): its number is
that of the block or, by what is in the buffer, of the one before, and a byte tells these two
apart even in files of more than 256 blocks; its data is no older and not newer. The sender's
EOT comes only behind its last block, which the receiver then has, too: `HeaderIsLast`, for every
`Behind`, as an overrun that hits the index or the page buffer cannot forge bytes. It says
nothing of another byte that passes for EOT (`Mistaken`; section 5). `DataOK` adds where the
blocks are, in that case too: `Harmless` (the page buffer is not what the overrun hits)
is needed, and that create_fota_header finds no block `Dangling`, whose page it would put over
the block before (section 5).

### Rejoin

The backoff: the delay grows only while it is active (`OnlyActiveGoesOn`). `OutagesAlike` is
nearly inductive, since a longer delay is followed by a longer one (`NextDelayMonotone`): a join leaves the
initial delay, one step ahead of the 0 of the first outage, and both grow alike from there.
The rest is
counting: `UnderWay` adds up the alarms, the rejoins that wait or run, the signals of a
lost parent, the parent itself and the handler that is at work. Without the button
it is at most 1, or 2 when the user leaves with an alarm pending, and at least 1 as
long as the device is a member of a network without a parent (`FewUnderWay`).
`KindsAhead` says which kind may be next when an alarm fires, so that it always finds
one left. `Undisturbed` is the case of no user at all: what is under way is the plugin's, so
a stop leaves nothing behind.

### Binding table

`GroupsInv` says that the table is `Orderly` unless its counter wrapped: each destination
refers to a source in the table, no source and no destination is there twice.
Without the last two, an entry removed could leave another that stands for the
same binding.

* Compaction: `Nth(kept, i)` is the one entry kept with `i` - 1 kept before it, so the
  places below the new counter hold the entries kept, each once, and none moves up
  (`NthFacts`, `KeepingPlaces`). That it exists is a bijection between the entries
  and their ranks.
* A source that goes: no entry refers to it, and lowering the indexes above it loses
  none (`WithoutSourceOrderly`).
* The backward loop: after it has looked at the entries from i on, none of those in
  the table is the endpoint's group binding, for entries move down only; what is
  no such binding is still there (`Remains`, `OneTurn`). If the counter wraps, the table was
  empty by then, so it held no device.

`ArraysAreASet` has one such lemma per command (`BoundWorks`, `UnbindWorks`, `WithoutGroupWorks`, `WithoutGroupsWorks`), each of which says
what the command does to the set, so the refinement is that of the command's namesake.

The loop is a recursive function over the turns, and that it is what its definition
says, for tables of every size, needs an induction (`Turns`, `WithoutGroupsWorks`). The
library's induction theorems take an operator, which the provers cannot instantiate;
`AllNumbers` is about a set instead, and is proved by counting: if the set misses n, the
successor maps its members below n injectively into one fewer.

### Bulb

Each part has an inductive invariant about its own variables; four lemmas show that
a step of the bulb is a step of the part or leaves it alone, so the invariants
carry over to the composition.

* `BulbFollows`: `IdentifyInv` adds that a time that runs has its alarm
  (`CountdownAlive`); the step that takes the first callback off the queue needs
  that its last one stays.
* `BulbOutputMoves`, nearly inductive: `Counters` only adds that nothing is given
  up that is not there. `QueueBounded` comes with it.
* `OneBlink`, `BlinkGoesDark`: `OneChain` says where the one chain of alarms is, a
  pending alarm or a job that has not reached its end, and what the counter may
  be at each step of that job.
* `SearchCounted`: `Counted` adds the attempt that waits behind a blink.
* `BulbTypes` needs two more counts: a time that runs has room for the callback of its
  end (`CallsFit`), and a buffer is in the pool, held by an alarm or being sent, or lost with an
  alarm that was cancelled (`BuffersCount`).
* `BulbGroups`: the bulb implements `GroupsSpec`, so the theorems of `GroupsProofs` are the
  bulb's (`BulbTable`).

### Only model-checked

* Liveness: `DownloadEnds`, `UpdateCompletes`, `AlwaysComesUp`, `EveryKindTried`.
  TLAPS has no rules for fairness and ENABLED here.
* The violations of section 5: a counterexample is a run, not a theorem.

## 5. What the runs found

Five runs are expected to be violated; TLC's trace is the explanation.

| run | what happens |
|---|---|
| `client_wait` | after WAIT_FOR_DATA the resend alarm is cancelled: if the next answer is lost the download stands still (`DownloadEnds`) |
| `client_stale_resume` | NVRAM still says "downloading" after a fast upgrade; the new firmware resumes another file over the old bank, and without an integrity tag that is marked ready (`ReadyMeansGood`) |
| `xmodem_repair` | after a damaged packet the repeated one is put behind the first and never looked at; the file does not arrive (`FileArrives`) |
| `button_forgets` | a press while the last kind of rejoin is active leaves the device without a parent and without an alarm (`NeverForgotten`) |
| `groups_repeat` | a group removed twice: the entry of the first removal is still in memory, the second one finds it in an empty table and decrements the 8-bit counter from 0 (`RemovingNothingChangesNothing`). "Remove Group" is answered the same for members and others, so a client that repeats a lost command is enough; a binding to a device prevents it (`DeviceBindingProtects`) |

Further observations. They contradict no line of the documentation, but the passing
runs have to exclude them. Those that name a constant or a condition are found by TLC when it is
changed or dropped; the others are read off the source.

* "late_end" among the habits of the first environment of `client` (one version
  and no reset are enough): an Upgrade End Response that comes late, in another
  download of the same version, has the half-filled bank marked as ready, because
  the handler looks at the version only (`ReadyMeansGood`).
* "notify" in the second environment of `client`: an image notify during the query
  leads to two image responses; the second erases the bank while NVRAM still says
  "downloading at ..."; after a reset the client resumes above erased flash
  (`DownloadedIsFlashed`).
* "aborts" there: the resume state survives an abort; with a reset
  before, the next download begins at offset 0xfffff800 (`StoresTheFile`).
* `HeaderAfterLastBlock` without `Mistaken` (four blocks, one fault, a sender that stops): any
  single byte 0x04 is the end of the file (`xmodem.c:73`), and the number of block 4 is one. With
  its SOH lost and nothing after it a header is made for a part of the file.
* `BlocksInPlace` and `HeaderCoversData` without `Dangling` (three blocks on a clean line): the page
  of an odd last block is written `block_num - 2` blocks into the bank (`xmodem.c:202`), where no page begins
  and the block before it is: it spoils the blocks there.
* `OutagesAlike` with `delay <= fresh`: a join resets the delay to the initial one, but
  it is multiplied before it is waited for (`tr_network_rejoin.c:134-148`). Only the first outage since the start
  begins with the initial delay.
* `OneAtATime` without the condition on `user`: a press while a rejoin waits for
  its buffer starts a second one. `StopMeansStop` without it: a press while one is active, or
  a leave during the delay, makes the device rejoin again after it has joined, because
  stopping clears `active` before it calls the function that cancels the alarm
  only if `active` is set (`tr_network_rejoin.c:133`).
* `OneBlinkAtATime` and `BlinkEndsDark` without `Alone`: a blink that begins when the alarm of
  the last is due, or that the button begins in the middle of another, leaves two chains
  that decrement one counter: it may wrap to 255, and an LED may stay on.
* `SearchIsCounted` without its condition: a steering from the command line that
  fails decrements the counter from 0 to 255.
* Removing all groups with a group bound through two clusters wraps the
  counter, too. Removing the last binding of a source keeps the source in the table as long
  as there are other bindings, though a comment speaks of a "useless binding
  record" (`tr_bind.c:101`): the table of sources fills up. Bindings of other clusters to a group go
  with it. A binding is made also if the group table is full, and a group is
  added also if the binding table is.
* A print that comes between a packet's callback and the next packet cancels the
  alarm that holds the packet's buffer, which is lost; one that comes while a packet
  is under way starts a second chain. With few buffers the pool runs
  empty, and 0 is used as a buffer (`Broken`, reachable in `bulb`).
* The remote CLI's command handler frees the command's buffer, or reuses it for the default
  response, although the callback that will read it is already scheduled
  (`tr_remote_cli_server.c:255`, `:285`).
* The stripping of colours looks at the first character of each piece printed only,
  and a colour printed in one piece is "started" and not ended by it.
* `Prompt = FALSE` and `MaxFaults = 0` in `xmodem_repair`: a packet repeated too early has a number the
  receiver does not expect, to which it answers NAK for ever (`FileArrives`).
* Aborting from within the handler of the deferred response frees that response
  while the handler still uses it.
* `TailAssumption` in `Bootloader`: after the page copy a loop over the remaining bytes
  advances the flash address by 256 per byte. With the real addresses it stays outside
  the flash of 2 MB for any image of more than about 8 KB; a smaller one whose last page is
  partial would have bytes programmed far behind the slot. No application is so small.
* The header's length of a serial download is two blocks short, which suits files
  with two blocks of padding only.

What a broken image in the bank can do is bounded by the bootloader, which
computes the checksum again: `NeverBroken` holds in `client`, and the
bootloader runs assume nothing of the bank. A header that was itself computed
over a wrong bank passes that check: that is why `ReadyMeansGood` matters.

In the runs that pass, the habits behind these are left out of the environments:
"late_end" in `client`, duplicates and WAIT_FOR_DATA in its first environment,
aborts, notifies and other versions in its second, all but "late_end" in
`client_ends`; so are untagged files in both, and the overrun into the page buffer
in `xmodem` (`Behind`). `Bootloader` counts
on a file padded as the header's length demands.

## 6. Not modelled

* OTA client: device specific files, stop and pause from the command line,
  WAIT_FOR_MORE at the end, page requests. They are commands of their own that
  the default configuration does not use.
* A downloaded image whose Upgrade End Response is lost: it waits until the
  next join. The code promises nothing else.
* Compressed images and digests: nothing here produces the former; the
  latter's arithmetic is replaced by equality of contents.
* A bank information page that loses power while it is erased or programmed: its length
  may then be anything. In the client's model all flash operations are whole.
* Time: alarms fire at any moment after they are set, in any order. Delays
  longer than others are not used, except for the query alarm as said above.
* Rejoins from the command line, in `NetworkRejoin`; an application that refuses an
  attempt (this one never does).
* The delay of the attribute save, which starts anew with each write: the moment of
  a save is open in the model.
* A serial download below a download over the air that NVRAM still speaks of: the
  client resumes above whatever is in the bank.
* Scenes (the plugin only initialises the stack's), the trigger effect, attributes and tokens of the
  application; the command line's editing and its ring buffer, which one interrupt
  writes and one loop reads, under a lock.
* The remaining components of section 1, and all third party code.

## 7. The plan

Done, in this order: `OtaFlash` and `OtaStorage` with their proofs; `OtaClient` and
its refinement; `Installer` and `Bootloader`; `Xmodem`; `NetworkRejoin`;
`Identify`, `Groups` with `Bindings`, `Lights`, `RemoteCli` and `Bulb`; leaving in
`NetworkRejoin`; power failures in `Bootloader`; proofs about `Bulb` and `NetworkRejoin`;
proofs about `Bootloader` with its refinement, about the client with its refinement,
about `Xmodem`, and about `Groups` with its refinement.

Next:

1. A composition of bootloader, serial download and client over one flash: a
   serial download below a download that NVRAM still speaks of.
2. For the client with several versions on the server, the hypotheses under which
   `DownloadedIsFlashed` still holds.
