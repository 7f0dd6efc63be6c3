# Verification of amdtop

amdtop is a terminal monitor for AMD GPUs. One thread runs a curses event loop over four windows; the
main window shows one of ten pages ("tabs"), each filled by ioctls of the amdgpu driver or by files of
sysfs, debugfs and procfs. This directory holds TLA+ models of the program, the TLC configurations
that check them and proofs that TLAPS checks. Paths are relative to the repository root.

## 1. The system

| component | source | state | operations |
|---|---|---|---|
| event loop, context | `tui/main.c`, `context.c` | `requeset_exit`, the active device and tab | `main`, `signal_handler`, `getAcitveDevice` |
| window manager | `tui/window.c` | four windows with layout, curses window, period, `last_update_time` | `InitWinLayout`, `WindowsInit`, `WindowsUpdate`, `WindowsDispatchInput` |
| device window | `tui/devicewindow.c` | - | F3/F4 switch the device; every 500 ms look for drivers that appeared |
| tab window | `tui/tabwindow.c` | the `*` mark | Ctrl-N/Ctrl-P switch the tab |
| main window | `tui/mainwindow.c` | - | init and update of the active page, exit prompt, help |
| status window | `tui/statuswindow.c` | - | describes the active device, shows its load every 500 ms |
| page registry | `tui/tabinfo.c` | `last_update_time` of each page | `TabinfoInit`, `TabinfoExit`, `TabinfoUpdate` |
| pages | `tui/*info.c` | static copies of query results, most with a tag | `init`, `update` |
| device table | `tui/device.c` | `devs[]`, `driverisLoaded` | enumeration of PCI devices, `UpdateDeviceInfo` |
| DRM device lookup | `core/gpudevice.c` | file descriptors | open every node, compare PCI addresses, close the others |
| GPU queries | `core/gpuinfo.c` | - | one ioctl or sysfs file each |
| mode resources | `core/gpumode.c` | heap blocks handed to the caller | resources, connectors, properties, blobs, encoders, crtcs |
| debugfs readers | `core/gpudridebug.c` | - | rings, fences, clients |
| atombios reader | `core/atombios.c` | pointers into the image | `atombios_init` and look-ups |
| utilities | `utils/utils.c` | - | `/proc/meminfo`, `/proc/cpuinfo`, allocation, clock |

**How they interact.** Everything is a call on one thread. `main` waits in `getch()` with a timeout of
100 ms. A key goes to the windows in order until one handles it, a timeout runs the windows that are due,
in order, `KEY_RESIZE` lays all windows out anew. Handlers share the context: the device window changes
`activeDeviceID` and then clears and initialises the main and the status window; the tab window changes
`activeTabID` and does so with the main window; the dialogs of the main window call `getch()`
themselves. Each handler stops at its first error, and an error of one window ends the pass for those
after it. Before the loop `main` enumerates the PCI functions of class 03 into the device table and searches
a DRM node for each card; the device window repeats the search for cards that have none. Pages call the
queries of `core/`, which keep no state but the descriptors of the devices and the blocks they return.
The environment is the user, the terminal, the kernel (queries fail, drivers appear, nodes and monitors
come and go, the sizes of mode objects change) and signals.

**What is hard.** Not parallelism, but a long sequence of legal events in which handlers stop half way:

- the selection is changed before the page that shows it is known to work;
- a draw reaches the terminal only with `wrefresh`, which error paths skip, and covers what the window
  held only where the handler cleared it first, which one of them does not;
- an update callback uses curses windows and bars that an earlier init set up and a resize deleted;
- a modal `getch()` takes a `KEY_RESIZE`, and has no timeout in which a signal would be noticed;
- windows with different periods share one pass that any of them can end;
- layouts are computed in `uint32_t` and read back as `int`;
- arrays of eight displays, cards, nodes and forty clients are filled without a look at their size;
- pages remember results under a tag, set before, after or in the middle of the queries;
- a query is many ioctls, and monitors come and go between them;
- a getter asks for a size, allocates, and asks again: in between the size may have changed;
- error paths of the search and of the getters leave early, with descriptors and blocks in hand, and
  some of them report success without a result;
- the readers of text files guess at formats: prefixes of names, fields of fixed width, missing ends.

**What makes each component correct.** *Loop and windows:* an update only reaches a page that is ready;
terminal, mark and status follow the selection, and nothing of what was there before remains but for one
reason; only a dialog loses a resize; a signal ends the program. *Clock:* each window and page is refreshed,
on time unless an error of its own or of an earlier window delays it. *Layout:* the windows tile the context,
what is drawn at computed places fits. *Pages:* what is shown is about the active device and complete.
*Display page:* what is shown looks like what the last query read, and catches up with the monitors. *Device
table:* a card is bound to its own node or to none, every descriptor belongs to somebody, no device is freed
twice, what can be loaded is loaded. *Mode resources:* what is got is freed, no pointer is used that is not
valid, a query returns. *Stat page:* one update is one moment, the load is that of its interval, no bar
divides by zero. *Readers:* they return what the file says, inside their arrays.

## 2. Modules

| module | models | proofs | TLC |
|---|---|---|---|
| `Monitor` | the event loop with the four windows and the pages as kinds | `MonitorProofs` | `MCMonitor` |
| `Scheduler` | the clock of the loop | `WindowProofs` | `MCScheduler` |
| `Layout` | layout arithmetic for every terminal size | `WindowProofs` | `MCLayout` |
| `PageCache` | what eight pages remember of the devices | `PageCacheProofs` | `MCPageCache` |
| `Display` | the Display page against monitors that come and go | `DisplayProofs` | `MCDisplay` |
| `ModeQuery` | one query of that page call by call: pointers, heap, sizes | `ModeQueryProofs` | `MCModeQuery` |
| `Devices` | the device table and the search for DRM nodes | `DevicesProofs` | `MCDevices` |
| `Binding` | what the device table promises of a card (abstract) | `DevicesProofs` | `MCDevices` |
| `StatPage` | an update of the Stat page query by query, bars, load | `StatPageProofs` | `MCStatPage` |
| `Debugfs`, `TextFiles`, `Bios` | the readers, as operators on files | `ReadersProofs` | `MCReaders` |
| `Readers` | files that grow, and what the readers should return | `ReadersProofs` | `MCReaders` |

The modules share no variables. Where one abstracts what another models, it says so below: `Monitor` knows
of a page only whether its callbacks fail, `PageCache`, `Display` and `StatPage` say what is on it;
`Display` takes a query as a sequence of readings, `ModeQuery` models the calls one of them is made of;
`Monitor` lets a driver appear or its search fail, `Devices` is that search.

### Monitor

`pc` is where the thread is: blocked in the loop's `getch()`, in a dialog's, or inside `WindowsUpdate` at
the device, main or status window; `closed` and `aborted` are the two ways out of `main`. An event is one
action (`Resize`, `SwitchDevice`, `SwitchTab`, `OpenDialog`, `ClosePrompt`, `CloseHelp`, ...), the pass
of a timeout is several (`Timeout`, `DeviceSkip`/`DeviceAppears`/`DeviceFails`/`DevicesDone`,
`MainUpdate`/`MainSkip`, `StatusUpdate`), so that `Signal` and `Winch`, the environment's, come between
the windows of a pass. `page` is what the last init drew and on which curses window (`live` is false when
that was deleted), `mainShown` and `statusShown` are what the terminal shows, with `mainBuffer` and
`statusBuffer`, the curses buffers behind them. The main window's is the set of what was drawn in it since
`WindowClear` (`Cleared`): the page of some tab and device, the message that its driver is missing, the one
that the window is too small, a dialog. All handlers but `deviceUpdate` clear the window before they call `mainInit`
(`ClearAndInit`); `HotplugInit` draws over what is there. `driverisLoaded` and `needRefresh` are the code's.
Three variables are history: `swallowed`, a dialog took the last `KEY_RESIZE`; `failed`, a callback of
a page has returned an error, and `DialogsEnd` and `StatusFollows` speak of the time before; `appeared`, the
driver of the active device was found since the main window was cleared.

`MainInit` is `mainInit`, called by six handlers: it refuses a page without a driver, refuses the Stat page in
a window that is too small, or runs the page's init, whose error comes before the `wrefresh` and leaves
`mainShown` as it was, with the page in the buffer or not (`PaintInPart`). Three tabs stand for the kinds of
pages the code distinguishes: Stat (refreshed, size-dependent), one of driver data whose update clears the
window (`ClearTabs`, the Display page), and one that needs no driver. `FallibleTabs` are those whose callbacks
may fail. Time is abstracted: a periodic handler may or may not be due. Values on pages are abstracted to the
tab and device they describe, and an arriving key to the handler it reaches.

### Scheduler

The ages of the windows (time since `last_update_time`) in units of 100 ms, the timeout of `getch()`, the
page's age, whether the active device's driver is `loaded`, without which `mainUpdate` leaves the page alone,
and the windows that are `due` in the present pass, for which `WindowsUpdate` reads the clock
once. A handler takes `0 .. MaxWork`. An update that succeeds resets the age, one that fails
leaves it and ends the pass. Keys return from `getch()` at any time; the dialogs change the timeout.
Ages stop at `Cap`, which is above every age the properties speak of (`CapAssumption`). `excused` and
`quiet` are history variables of `Timely` and of the liveness properties.

### Layout

`InitWinLayout` on every terminal, with `Minus` the subtraction of `uint32_t` and `ToInt` the conversion
to `int`, for words of any width (`HALF`, 2^31 in the code). The dialogs of `mainwindow.c` and the bars
and client rows of `stateinfo.c` are operators on the main window, translated with their types.

### PageCache

A query result is abstracted to the device it is about, `None` if it was never fetched. Each page has its
results, its tag where it has one, and an init that queries in the order of the code and may fail at any
query (`Outcomes`). `screen` is the page last drawn and the owners of the values on it; `crashed` is
reached when the Bios page is drawn before any image was parsed (`atombios_get_romheader` reads
through NULL, and `signal_handler` returns to the faulting instruction). `failures` counts failed attempts. The
order of the tabs is left to `Monitor`: here any other tab may come next. The results of a query that
fails are taken to be untouched.

### Display

`query_display_info` is modelled ioctl by ioctl as far as it can be interrupted: `BeginQuery` clears
`display_state`, `Reads` looks at one connector (`next`) and appends a display if a monitor is there,
`QueryFails` is any error return, and `QueryDone` the rest of the handler, which compares with
`needUpdateDisplayInfo`, copies, parses the EDIDs and draws. `Change`, the environment's, plugs, unplugs,
wakes or puts to sleep a monitor at any moment, also between two connectors; one connector is read at one
moment. `pc` says whether the query is the init's (`getAllInfo`, with the tag `current_device`) or the
update's. A display is abstracted to its connector, its monitor and whether that is on, and the monitor
to what its EDID and its resolution are: two displays look alike (`Look`) when both are asleep or when
they have the same resolution. An EDID that cannot be read stays empty, because `getConnectorPropBlob`
forgets the error when another property follows. `named` and `labelled` are the displays that
`update_display_info` reached before `parseEDIDInfo` returned an error. `buffer` is the main window since it was
cleared, `screen` what the terminal shows of it: displays that are drawn in a window that was not clear are
`mixed` with what it held. A device whose driver is late has the message of `mainInit` until `DriverAppears`, which
draws without clearing, also when the driver is that of another device than the active one. `Overruns` is the
display too many, for which `displayinfo[]` has no room (`MAX_DISPLAY_COUNT`); what happens after it is
undefined, and the model stops. `queried`, `undrawn` and `late` are history variables of the invariants.

### ModeQuery

`query_display_info` at the level of its calls. `pc` names the getter that is next, `Copy...` the second
half of a getter whose first ioctl was made and returned `sized`; between the halves `KernelChanges` may
change the number of connectors or of modes (`kernel`). Every ioctl may fail (`IoctlFails`) and every
allocation (`OutOfMemory`). `heap` counts the blocks allocated and not freed, by kind. A pointer of the
caller is `null`, `live`, `freed`, `stale` (of the query before: `modeRes` is static) or `gutted` (the
resource whose arrays could not be copied and were freed). `Crash` is the use of one that is not live where
the code dereferences it. `overread` are the getters that copied more entries than the kernel filled.
`failures` and `oom` are history. Contents are abstracted; `Display` models what the page shows of them.

### Devices and Binding

`Devices` has the control of the thread in `pc`: `enumerate` and `update` are the loops of
`InitDeviceContext` and `deviceUpdate`, each of which calls `UpdateDeviceInfo`, whose search is `open`
(`gpuGetDevices` opens one node after another, in the unsorted order of `readdir`) and `match`
(`gpuGetDeviceByBus` compares and closes them), and returns to its `caller`; `free` is
`FreeDeviceContext`. `devs` and `deviceCount` are the table, `gpuDevice` and `driverisLoaded` the fields of a
device, `open` the descriptors of the process. A node is absent, refused by `open`, opened but no DRM
device (`odd`), or good, and the environment changes this at any step (`NodeChanges`), as it brings drivers
(`DriverAppears`). An address is a `Domain` and a `Slot`, which stands for bus, device and function; the
search is given the domain modulo `ByteRange`. `troubled` is history: a search was cut short or met an odd
node, which is when descriptors leak. `devs` of the table and `devices` of the search have room for `MaxCards`
entries, which the code does not look at: with one more the model stops (`TableOverruns`, `SearchOverruns`). Where no
node is in sight the directory may be missing too, and the search crashes. Drivers stay once they are there;
the one moment at which it matters that they may go, between `access` and `readlink` of `DeviceGetDriverName`,
is in `UpdateDeviceInfo` as a crash: the error of `readlink` is used as a length.

`Binding` is the abstract specification: a card with a driver may be bound, once and for good, to a node
that answers to its address. `Binds` of `Devices` is `Binding`'s specification under the refinement mapping
`bound <- gpuDevice`; every step of enumeration, search, retry and release is a step of it or a stutter.

### StatPage

The page for one device. The value of a sensor is abstracted to the time it was read at, so that `buffer`
(the curses window) and `screen` (the terminal) say of each item how old it is; `UpdateSensors` answers some
number of the queries in their order, draws what it has and refreshes only at the end. `max` is where
the maxima of the bars come from: unset, the 100 of `barCreate`, or the device, which may
report 0 (`zeroMax`). `getCpuLoad` is computed in words of size `Word` from the ticks since the reading before.
`Prompt` is the exit prompt or the help, whose `wrefresh` brings the buffer to the terminal. A signal
ends the program wherever it is and needs no action here.

### Debugfs, TextFiles, Bios and Readers

The readers keep no state, so they are operators from a file to what the caller gets. A name is the sequence
of the pieces that tell names apart, so that one begins another exactly when the strings do; a line is a
record of what the code tells apart in it. `Debugfs` has rings, fences and clients, `TextFiles` the
look-ups in `/proc`, sysfs, `amdgpu.ids` and os-release, `Bios` the tables of the image the page draws and the
joining of the names of capabilities, for both things the C library may do with an overlapping `snprintf`.
`Readers` builds each kind of file line by line, as the kernel or a distribution writes it, and
compares the reader with what the file says: every reachable state is an input. `file` is the lines so
far, `topic` which file it is, and for the fences `rings` are the rings that have a block, `layout` the
kernel that wrote it. The loops of the readers are recursive functions over the lines where the code keeps
variables from one line to the next (`Reading`, `amdGpuRingInfo`), and the first or the last of a set of
lines where it only looks for one.

## 3. What the runs check

| run | properties | result |
|---|---|---|
| `monitor_faulty` | `TypeOK`, `PageReady`, `ScreenFollows`, `NothingRemains`, `LayoutFollows`, `DialogsEnd`, `StatusFollows` | hold (3.3 M states) |
| `monitor_exit` | `ExitHonoured` | holds (207 k) |
| `monitor_help` | `AnyKeyLeavesHelp` | violated: finding 1 |
| `scheduler_clock` | `TypeOK`, `Timely`, `KeepsRefreshing` | hold (333 k) |
| `layout_fit` | `WindowsFit`, `ContentsFit` | hold (25.6 k) |
| `pagecache_pages` | `TypeOK`, `SoundPages`, `CleanTruthful`, `TagAfterData` | hold (637 k) |
| `display_plugs` | `TypeOK`, `ScreenIsCurrent`, `ShowsQueried`, `CatchesUp` | hold (977 k) |
| `display_serial` | `SerialUnknownShown` | violated: finding 2 |
| `modequery_heap` | `TypeOK`, `HeapAccounted`, `MemorySafe`, `QueryReturns` | hold (56.6 k) |
| `devices_nodes` | `TypeOK`, `BoundToOwn`, `DescriptorsOwned`, `FreeSafe`, `RetryLoads`, `Binds` | hold (1.73 M) |
| `statpage_bars` | `TypeOK`, `OfOneUpdate`, `LoadShown`, `DividesSafely` | hold (263 k) |
| `readers_files` | `FencesRight`, `ClientsListed`, `NamesFound`, `LookupsRight`, `BiosInBounds` | hold (94 k) |

What the less obvious ones say: `ScreenFollows` is that, as long as no error of a page can have disturbed it, the
terminal shows what belongs to the active tab and device and nothing of a dialog; `NothingRemains` that it shows
all of the window's buffer, and "Driver is not Loaded!" beside a page only where the driver appeared under the
message. `ScreenIsCurrent` says the same of the displays: mixed with something else only if a driver appeared since
the window was cleared. `WindowsFit` is also that the windows cover the context; `ContentsFit` is that
the help (from 52 columns), the exit prompt (from 59 by 18), the bars (from 24 columns) and the client
rows (from 26 lines) stay in the main window. `SoundPages` is that the Ring and the Fence page show the active
device and the Driver page nothing incomplete, after failures too. `DescriptorsOwned` and `HeapAccounted`
state exactly what is lost and when: a descriptor only by a search that was cut short or met an
odd node, a block only by a failing call, but one mode resource by every query. `FreeSafe` is no more than
that nothing is freed twice, because half of the devices are not freed at all, or all but one when the table is
full and the count overwritten. The arrays that are filled without a look at their size are the subject of
`TypeOK` of `Display` and `Devices` and of `ClientsListed`: they are overrun, but by nothing else than more
connectors, cards, nodes or clients than they have room for, and in the last case by what is left of the last
client's line.

For each property of a passing run a mutated definition, next to the one it changes ("the bug of ..."),
shows that the run would notice a plausible bug.

**Bounds.** `MCMonitor`: two devices (switching only exists with two), one tab of each kind, two terminal
sizes, of which the small one neither fits the Stat page nor the help; what happens depends on the kind of the
tab and on which of two devices is active, so more add repetitions. `monitor_exit` has one size, because
resizes are the business of the other runs. `MCScheduler`: the periods 500, 1000, 100 and 500 ms scaled to 2,
3, 1 and 2 keep their order and the sharing of a pass; `MaxWork` 1, `Cap` 11. `MCLayout`: every terminal up to
160 by 160, which passes both thresholds (112 columns and 42 lines after the share of 80 percent), with `HALF`
1024 so that a wrapped value differs from all sizes that occur. `MCPageCache`: two devices, enough to leave a
device and come back; one failed attempt anywhere; two IP types and two firmware types, the least at which a
query can fail between others. `MCDisplay`: a device with three connectors, the least with an order to tear
and one more than there is room for, which is two; a second that has no outputs and whose driver comes late;
two monitors of different resolutions, one without a serial number, of which one that moves during a query
makes a third display; one failing ioctl and two changes, which suffice to move a monitor from a connector
that was read to one that was not, or to wake one while another sleeps. `MCModeQuery`: counts up to two, two
properties with the EDID first, so that an error of its blob is followed by another property; two queries,
because the pointer of the first is still there in the second; three events, of which one can be a change of
size, one a failure, one memory that runs out. `MCDevices`: an AMD card, one of another vendor, one whose
domain exceeds the byte and then equals that of the first card, which is the smallest collision, and perhaps a
fourth that never has a driver; one virtual node; `MaxOpen` 5, so that two leaking searches exhaust the
descriptors; `MaxCards` 3, so that three cards fill the table, and a fourth card or a fourth node is too many;
two events, as one loses a node and one brings it back. `MCStatPage`: three times, which tell the last update
from the one before and from the present; two failures; changes with no tick at all, with only idle, only busy
ticks, and with an idle tick taken back. `MCReaders`: five entries of each kind, where two suffice for one to
hide another; room for two clients and three told of, for 40 and 100.

`CHECK_DEADLOCK FALSE` is set where the program or its input stops: in `Monitor` and `Devices` when it
ended, in `PageCache`, `ModeQuery`, `Devices` and `StatPage` when it crashed, in `Display` and `Devices` when an
array was overrun, in `ModeQuery` after the last query, in `Readers` when the file is full.

**Fairness.** `Monitor`: `WF` of `Start`, `Timeout`, `Resize` and `WindowsUpdate`; handlers return, and a
`getch()` with a timeout, or with a `KEY_RESIZE` waiting, returns. Nobody has to press a key. `Scheduler`:
`WF` of `TimesOut` and `Pass` for the same reasons; `KeepsRefreshing` speaks of the time after keys and errors
have stopped (`<>[]quiet`), and exempts the endless timeout of finding 1 and the page of a device without a
driver. `Display`: `WF` of `Update`, which the loop calls every 500 ms (`KeepsRefreshing`), and of `Handlers`,
since each ioctl returns; `CatchesUp` speaks of the time after the last key, and the bounds end changes and
errors. `Devices`: `WF` of `Enumerate`, `Search` and `Update`, since calls return and the loop calls
`deviceUpdate` while the program runs; nothing makes a node appear, `RetryLoads` assumes that all is well from
some time on (`Healthy`: the cards with a driver have their nodes, no other node disturbs, and there is room
for all that are there). In `Display` and `Devices` the fairness of `Update` presumes what `Scheduler` and
`Monitor` look at: that no dialog waits for its key in `getch()` and no failed help page left its endless
timeout. A dialog that is never answered stops all updates, and then neither `CatchesUp` nor `RetryLoads`
holds of the program. `ModeQuery`: `WF` of `Getters`, as every ioctl returns; nobody has to start a query.

## 4. What the code does other than it says

1. *Help* (`mainwindow.c:139`): "type any key exit this help!". If the page cannot be drawn again,
   `helperHandler` returns before `timeout(200)` and before a refresh: the help stays and, with
   `timeout(-1)` in force, nothing is updated until the next key.
2. *Display* (`displayinfo.c:219`): a missing serial number becomes "unknow", and is then returned as an
   error: while such a monitor is connected neither init nor update draws what is new. Only a later init
   that finds nothing changed draws the page, without the name of that display's connector.

Further behaviour the models show, or that was met while writing them, about which no text of the
repository says otherwise. *Windows:*

- If the new page's init fails after a switch of the tab, the terminal keeps the old page beside the
  new mark (`tabwindow.c:80`).
- When a driver appears, `deviceUpdate` calls `WindowInit` of the main window without the `WindowClear` that
  every other caller has before it (`devicewindow.c:136`): "Driver is not Loaded!" (`mainwindow.c:20`) stays
  where the page that follows does not write over it, and so does what an earlier page left, until another
  handler clears the window. The status window is not initialised at all: "No Driver" stays in it beside the
  load of the device.
- `startx < 0` of the help is tested after a `uint32_t` difference was halved and is never true: below 52
  columns the help is an empty window that waits for a key (`mainwindow.c:112`). The Stat page looks at the
  width only: below 15 rows of the main window its count of client rows wraps (`stateinfo.c:323`).
- `needRefresh` is cleared in a small window and never set again: after enlarging the terminal the
  Stat page is drawn on each init and never updated (`PageReady` holds because of it, `PageRefreshes`
  of `Monitor` is disabled for good).
- A device with a kernel driver but without a DRM node makes `deviceUpdate` fail in each pass, before the
  main and the status window: neither is updated again (the case `Fails(Device)` of `Scheduler`, which
  `Timely` excuses).
- After a failed query the Device, Firmware, Bios, System and Stat pages may show another device's values,
  or none; the Bios page may read through NULL. The passing properties say what remains true:
  `CleanTruthful` before a failure, `SoundPages` and `TagAfterData` also after it.
- A monitor that is replaced by one that looks the same is not noticed by the Display page, nor are the
  displays of another device: name and serial number stay those of the first (`ShowsQueried` compares looks).
- `getAllInfo` of the Display page sets its tag first: after a failed query the next init draws the displays
  of the device before, until an update finds a difference (`ShowsQueried` asks for a complete query).

- `displayinfo[]` has eight entries and the loop over the connectors does not count (`displayinfo.c:260`): a
  ninth display is written behind it. A monitor that is moved to a later connector during a query counts twice.

*Devices:*

- The table of devices (`device.c:114`) and the array of nodes on the stack of `gpuGetDevices`
  (`gpudevice.c:67`) have eight entries, which nothing checks. A driver that is unbound between `access` and
  `readlink` makes `DeviceGetDriverName` index with -1 (`device.c:206`).
- `opendir` of `/dev/dri` is not checked: without the directory `readdir` is called with NULL (`crashed` of
  `Devices`). The result of reading the nodes is that of the last one, so an unusable last node hides the
  others and their descriptors stay open.
- `FreeDevice` counts the devices down while its caller counts up to that number: half are freed; in a full
  table it overwrites the count itself. The domain is cut to a byte, so a card beyond it is not found or bound to
  another card's node (`BoundToOwn` asks for domains below `ByteRange`). The retry also searches cards of another
  vendor, which the enumeration left alone.

*Queries:*

- The modes of a connector are copied from beyond what was fetched when their number grows between two ioctls;
  the id arrays are not, as their sizes are compared. Several error labels of the getters return 0 without a
  result: out of memory, the caller uses NULL or the pointer of the query before.
- Every query leaves its mode resource, every failing one may leave its connector, and a failing second ioctl
  its buffers.
- A few values are not what their label says: the memory clock of the p-state is its graphics clock
  (`stateinfo.c:208`), the JPEG rings are those of the VCN encoder (`ringinfo.c:23`), the MC firmware is that of
  MEC (`gpuinfo.c:108`), and GDDR3 is called "GDDR2" (`gpuinfo.c:411`). The models keep the order and the number of
  the queries, in which the argument plays no part.

*Readers:*

- The client list ends at the first name with a space or pid of six digits; an owner without an account is read
  through NULL; the reader is told of 100 entries of an array of 40, and takes what is left of
  the line of a fortieth client with a wide user id for one more. The column for "authenticated" says "n"
  for everyone (`stateinfo.c:248`).
- A ring is found in the fence file by the beginning of its name, so `uvd` may show the fences of `uvd_enc0`;
  a ring whose block ends the file has its last line counted twice. Neither the array of rings nor that of the
  instances of the Ring page is protected against more than fit.
- An apostrophe or a comma in `amdgpu.ids` ends the search for the entries behind it; the number of threads
  keeps digits of the number of cores if it has fewer; a table a BIOS image lacks is read from its start; and
  `snprintf` from a buffer into itself counts up to beyond its end on C libraries that copy in place.
- The load of a processor without idle ticks is shown as 0 (`LoadShown`).

## 5. What is proved

The proofs hold for every value of the constants under the named assumptions of the modules. Most
only give a constant its type. More than that say:

- `AddressAssumption` (`Devices`): no two PCI functions have one address; `NodeAssumption`: `/dev/dri` has
  finitely many nodes;
- `WordAssumption` of `Layout`: a word holds three times the largest terminal, and 512; `WordAssumption` of
  `StatPage`: a word holds a thousand times the idle ticks of a run (2^64 does, for millions of years), since
  `getCpuLoad` multiplies before it divides;
- `NameAssumption`, `CpuLinesAssumption` (`Readers`): names and keys are not empty, and no key of
  `/proc/cpuinfo` has one of the two items looked for as a proper beginning; `CapabilitySizeAssumption` (`Bios`):
  the buffer has at least its 100 bytes.

- **Monitor** (any number of devices and tabs, any kinds of pages and sizes): `TypeCorrect`;
  `UpdatesReachReadyPages`, `TerminalFollows`, `OnlyTheMessageRemains` (`PageReady`, `ScreenFollows`,
  `NothingRemains`); `ResizesAreSeen` (`LayoutFollows`); `DialogsLeaveNothing` (`DialogsEnd`);
  `StatusDescribes` (`StatusFollows`); `ExitIsNear`: after the request to exit the thread takes at most
  `DeviceCount + 4` steps more, which is what `ExitHonoured` needs beside the fairness. `IInv` is `TypeOK`
  with `PageReady` and `ScreenFollows`; lemmas say what `mainInit` establishes, so that its six callers are
  one step each. The point of `PageReady` is that a page that was refused for want of a driver becomes ready
  only through `DeviceAppears`, which initialises the main window, and that `PageRuns` changes in no other
  way.
- **Scheduler** (any periods and durations): `TypeCorrect`, `WindowsAreTimely` (`Timely`). The limit is not
  inductive: the invariant `Bounded` counts the work the present pass has spent before the window's turn and
  tells a window that is still to come from one that was visited.
- **Layout** (any terminal, any word width): `UsableTerminalsFit` (`WindowsFit`), `DrawnContentsFit`
  (`ContentsFit`). The only invariant needed is that the layout is that of the present terminal
  (`AlwaysLaidOut`); the rest is arithmetic on what `Share` leaves of a dimension (`ShareFits`).
- **PageCache** (any number of devices, IP types and failures): `TypeCorrect`, `UntaggedPagesSound`
  (`SoundPages`), `DeviceTagFollows` (`TagAfterData`) and `CleanPagesTruthful` (`CleanTruthful`). `IInv` adds
  that on the Fence page the listed rings are the active device's, and how many results a page has;
  `CachesTrue` is what holds of the caches until a query fails: results are those of the device their tag names.
- **Display** (any devices, connectors, monitors, room for displays and numbers of changes and errors):
  `TypeCorrect`, `TerminalIsCurrent` (`ScreenIsCurrent`) and `TerminalShowsQuery` (`ShowsQueried`). No number
  of connectors is assumed: `TypeCorrect` is that an overrun needs a connector behind the room. `IInv` says of
  a query that runs that it is one of the active device and has stored at most one display per connector read
  (`Counting`), of an init that its window is clear unless a driver appeared (`Fresh`), and of one that has
  ended that `current_display_state` looks like what it read (`Compared`); the lemma `SameLooks` is what
  `needUpdateDisplayInfo` is relied on for. `UndisturbedQueries` says that every step of a query extends the
  list by what is connected (`Describes`), unless a monitor changes in that step.
- **ModeQuery** (any counts, properties, queries and events): `TypeCorrect`, `LossesBounded`
  (`HeapAccounted`), `PointersSafe` (`MemorySafe`). `HeapAccounted` alone is not inductive: `ControlInv` ties the
  pointers to the call that is next, `AccountInv` is `HeapAccounted` kind by kind, with the blocks that are in use.
  `QueriesDescend`: every step but the start of a query lowers a lexicographic measure (events left, sizing of the
  resource, connectors, call, properties, whether the present one was read), and the order is well-founded.
- **Devices** (any cards, addresses and nodes, also more of them than there is room for): `TypeCorrect`,
  `OwnNode` (`BoundToOwn`), `NothingLeaks` (`DescriptorsOwned`), `FreedOnce` (`FreeSafe`), and
  `ImplementsBinding` (`Binds`), the refinement. `IInv` has a part for each concern: `TableInv` (a card is at
  its own place until it is freed, and a search is for the card of the loop index, which has a driver),
  `SearchInv` (the nodes of a search are different and open, the one found answers), `BindInv` (a loaded card
  has a node that answers, the others have none) and `FreeInv` (the devices before the loop index are freed,
  those from there to the count are not). `PassesDescend`: every step but the start of a pass and the exit
  lowers the measure of events, devices, stage of the search and nodes left, in that order.
- **StatPage** (any words, changes and failures): `TypeCorrect`, `ShownTogether` (`OfOneUpdate`),
  `LoadIsRight` (`LoadShown`), `BarsDivide` (`DividesSafely`). `BufferInv` says that in the buffer no value is
  newer than one that is queried before it; `MaximaInv` that bars without a maximum are never drawn: they
  exist only before the first init.

- **Readers** (files of any length): `FencesAreRight` (`FencesRight`), `ClientsAreListed` (`ClientsListed`),
  `NamesAreFound` (`NamesFound`), `LookupsAreRight` (`LookupsRight`), `BiosStaysInBounds` (`BiosInBounds`). What
  a loop over a file computes needs induction, and the induction theorems of the library take an operator for
  a parameter, which the provers cannot instantiate. Here an induction is about the set of the numbers
  that have a property (`Induction`), and what it rests on is that a set of naturals has a least element
  (`LeastNumber`, from the well-foundedness of `<`); `Loop` is that a recursive definition over the lines has a
  value. `FencesInv` says what the reader knows at the end of a file (`ReadSoFar`): nothing as long as no ring
  has a name with that beginning, all fences of the ring if it is the only one, whatever blocks came before and
  after; it is inductive because a block that is appended is read by the reader of its own name (`OwnBlock`) and
  only ends what the others read (`OtherBlock`). The other invariants say of which lines a file is made.

Only model-checked: the liveness properties (`ExitHonoured`, `KeepsRefreshing`, `CatchesUp`, `RetryLoads`,
`QueryReturns`), since liveness under fairness is out of the prover's reach. What of four of them is safety is
proved: that the exit is at most `DeviceCount + 4` steps away (`ExitIsNear`), that a query reads what is
connected if nothing changes under it (`UndisturbedQueries`), and that searches and queries have no infinite
descent (`PassesDescend`, `QueriesDescend`). What is left to the runs is that a step is enabled and, by the
fairness, taken, and for `RetryLoads` that the pass that ends has loaded every card.

## 6. What is not modelled

- *About page*: constant text; it occurs in `Monitor` as a tab that needs no driver.
- *Imported headers* (`core/import`, `tui/import`) and `list.h`: declarations and a list library the program
  does not call. They are most of the repository's lines.
- *Test programs*: they print what the queries return on the machine at hand and assert nothing. *Build files.*
- *Texts, colours, frames, the characters of a bar, the tables of names* of types, modes and firmwares.
- *Values*: of sensors, of modes and EDIDs beyond what `needUpdateDisplayInfo` compares, inside a BIOS table;
  the numbers in the name of a ring, which no page reads.
- *Functions nothing calls*: `DeviceGetPciInfo`, `getIRQInfo`, `getIrqCount`, `getFileContent`,
  `gpuQueryGpuCap`, `gpuFreeModeResource`, the function tables of `atombios.c`.
- *Arrays without a bound* of the Ring page and of the ring list: listed as a hazard, as the models keep
  sequences where the code has arrays; the environment may exceed them, and nothing in the code prevents it.
- *A missing* `/dev/dri` and an unbound driver are in `Devices` (`crashed`), but no property speaks of them: the
  program ends there. So do the models at an overrun; what the program does after it is not modelled. That a
  driver is unbound at other times changes nothing the program looks at again: `driverisLoaded` is not taken back.
- *Where on the window* a page writes is not modelled: what a handler does not clear is taken to remain, though a
  later page may happen to write over it.

`Monitor` is not shown to refine a more abstract viewer. Its properties would be that viewer's: one
selection, one view of it, or an error still on the screen; they are stated and proved one by one.
