----------------------------- MODULE PageCache -----------------------------
(***************************************************************************)
(* What the pages remember of the devices they describe.  Each page keeps  *)
(* the results of its queries in static variables, most with a tag that is *)
(* to save the queries of a page drawn again; the pages set it at three    *)
(* different moments: after all queries (Device, Driver), before the first *)
(* (Bios, System), or never (Ring, Firmware, Fence).  A query that fails   *)
(* in the middle leaves the results of several devices side by side.       *)
(*                                                                         *)
(* A result is abstracted to the device it is about; None is a result that *)
(* was never fetched.  The devices are those whose driver is loaded (see   *)
(* Monitor for the others), the Display page has a module of its own.      *)
(***************************************************************************)
EXTENDS Integers, FiniteSets, Functions

CONSTANTS
    Devices,     \* the devices whose driver is loaded
    None,        \* no device
    MaxFailures, \* bound: how many attempts to fill a page may fail
    IpTypes,     \* IP_INFO_COUNT, each with its instances
    FwTypes      \* FW_INFO_COUNT

ASSUME SizeAssumption == IpTypes \in Nat \ {0} /\ FwTypes \in Nat \ {0} /\ MaxFailures \in Nat

DeviceQueries == 4       \* device, VRAM, GTT and visible memory
DriverQueries == 3       \* the DRM version and two module parameters
SystemQueries == 3       \* the release, the DMI entries, the processor
MaxQueries    == 4       \* those for the maxima of the Stat page's bars
BiosQueries   == 4       \* the length, the image, the version, and the header
BiosParts     == {"length", "version", "parsed"}

Owner == Devices \cup {None}
Page  == {"Stat", "System", "Device", "Driver", "Ring", "Firmware", "Bios", "Fence"}

ASSUME NoneAssumption == None \notin Devices \cup Page

VARIABLES
    active,      \* the active device
    page,        \* the active tab
    screen,      \* the page last drawn, and whom the values drawn on it are about:
                 \* nobody if its init failed (Monitor has what the terminal shows)
    devInfo, devTag,         \* deviceinfo.c: the results, current_device
    driverInfo, driverFirst, \* driverinfo.c
    sysInfo, sysFirst,       \* systeminfo.c
    ipInfo,                  \* ringinfo.c
    fwInfo,                  \* firmwareinfo.c
    biosInfo, biosTag,       \* biosinfo.c: gpuVBiosInfo and gAtombios, cur_device
    gpuRings,                \* fenceinfo.c
    statMax,                 \* stateinfo.c: whose maxima the bars have
    crashed,     \* a page was drawn from a pointer that is still NULL
    failures     \* history: how many attempts failed

deviceVars == <<devInfo, devTag>>
driverVars == <<driverInfo, driverFirst>>
systemVars == <<sysInfo, sysFirst>>
biosVars   == <<biosInfo, biosTag>>
vars == <<active, page, screen, deviceVars, driverVars, systemVars, ipInfo, fwInfo,
          biosVars, gpuRings, statMax, crashed, failures>>

Init ==
    /\ active \in Devices /\ page = None /\ screen = [page |-> None, of |-> {}]
    /\ devInfo = [i \in 1 .. DeviceQueries |-> None] /\ devTag = None
    /\ driverInfo = [i \in 1 .. DriverQueries |-> None] /\ driverFirst = TRUE
    /\ sysInfo = [i \in 1 .. SystemQueries |-> None] /\ sysFirst = TRUE
    /\ ipInfo = [i \in 1 .. IpTypes |-> None]
    /\ fwInfo = [i \in 1 .. FwTypes |-> None]
    /\ biosInfo = [p \in BiosParts |-> None] /\ biosTag = None
    /\ gpuRings = None /\ statMax = None
    /\ crashed = FALSE /\ failures = 0

-----------------------------------------------------------------------------
(* Queries and drawing.  of is whom the drawn values are about; a page     *)
(* whose init fails was cleared and draws none.                            *)

MayFail == failures < MaxFailures

\* how many of n queries in a row succeed
Outcomes(n) == IF MayFail THEN 0 .. n ELSE {n}

Counted(ok) == failures' = IF ok THEN failures ELSE failures + 1

\* the first k of the results now are about the active device; the bug would
\* be a page that gives up what it has when it asks again
FetchedAnew(info, k) == [i \in 1 .. k |-> active']
Fetched(info, k) == [i \in DOMAIN info |-> IF i <= k THEN active' ELSE info[i]]

Drawn(of) == screen' = [page |-> page', of |-> of] /\ UNCHANGED crashed
Cleared   == screen' = [page |-> page', of |-> {}] /\ UNCHANGED crashed

-----------------------------------------------------------------------------
(* The init callbacks, each in the context of the device and the tab that  *)
(* are active after the step.                                              *)

\* the bug of a page that takes itself to be current before it is
DeviceTagEarly(k) == active'
DeviceTag(k) == IF k = DeviceQueries THEN active' ELSE devTag

\* getAllInfo of deviceinfo.c: an error of the first query is not returned
DeviceInit ==
    /\ UNCHANGED <<driverVars, systemVars, ipInfo, fwInfo, biosVars, gpuRings, statMax>>
    /\ \/ /\ active' = devTag
          /\ UNCHANGED <<deviceVars, failures>> /\ Drawn({active'} \cup Range(devInfo))
       \/ /\ active' # devTag
          /\ \E k \in Outcomes(DeviceQueries) :
                /\ devInfo' = Fetched(devInfo, k)
                /\ devTag' = DeviceTag(k)
                /\ Counted(k = DeviceQueries)
                /\ IF k \in {0, DeviceQueries} THEN Drawn({active'} \cup Range(devInfo'))
                                            ELSE Cleared

\* the driver is that of the system, so nothing on this page is of a device:
\* only a missing result would show
DriverFirst(k) == driverFirst /\ k < DriverQueries
Missing(info)  == Range(info) \cap {None}

DriverInit ==
    /\ UNCHANGED <<deviceVars, systemVars, ipInfo, fwInfo, biosVars, gpuRings, statMax>>
    /\ \/ ~driverFirst /\ UNCHANGED <<driverVars, failures>> /\ Drawn(Missing(driverInfo))
       \/ /\ driverFirst
          /\ \E k \in Outcomes(DriverQueries) :
                /\ driverInfo' = Fetched(driverInfo, k)
                /\ driverFirst' = DriverFirst(k)
                /\ Counted(k = DriverQueries)
                /\ IF k = DriverQueries THEN Drawn(Missing(driverInfo')) ELSE Cleared

\* getInfo of systeminfo.c is tried once
SystemInit ==
    /\ UNCHANGED <<deviceVars, driverVars, ipInfo, fwInfo, biosVars, gpuRings, statMax>>
    /\ sysFirst' = FALSE
    /\ \/ ~sysFirst /\ UNCHANGED <<sysInfo, failures>> /\ Drawn(Missing(sysInfo))
       \/ /\ sysFirst
          /\ \E k \in Outcomes(SystemQueries) :
                /\ sysInfo' = Fetched(sysInfo, k)
                /\ Counted(k = SystemQueries)
                /\ IF k = SystemQueries THEN Drawn(Missing(sysInfo')) ELSE Cleared

\* getRingInfo of ringinfo.c, whose tag is never set; with an error it would
\* be a bug to draw what there is
RingDrawsAnyway(k) == TRUE
RingDraws(k) == k = IpTypes

RingInit ==
    /\ UNCHANGED <<deviceVars, driverVars, systemVars, fwInfo, biosVars, gpuRings, statMax>>
    /\ \E k \in Outcomes(IpTypes) :
          /\ ipInfo' = Fetched(ipInfo, k)
          /\ Counted(k = IpTypes)
          /\ IF RingDraws(k) THEN Drawn(Range(ipInfo')) ELSE Cleared

\* getFirmwareInfo goes on after an error and returns that of the last query
FirmwareInit ==
    /\ UNCHANGED <<deviceVars, driverVars, systemVars, ipInfo, biosVars, gpuRings, statMax>>
    /\ \E answered \in IF MayFail THEN SUBSET (1 .. FwTypes) ELSE {1 .. FwTypes} :
          /\ fwInfo' = [i \in 1 .. FwTypes |-> IF i \in answered THEN active' ELSE fwInfo[i]]
          /\ Counted(answered = 1 .. FwTypes)
          /\ IF FwTypes \in answered THEN Drawn(Range(fwInfo')) ELSE Cleared

\* getAllInfo of biosinfo.c: the tag comes first.  Of the queries the length,
\* the version and, with atombios_init, the image that is parsed reach the
\* page, and a page drawn before any image was parsed reads through NULL
BiosTag == active'

BiosFetched(k) ==
    [p \in BiosParts |-> IF \/ p = "length" /\ k >= 1
                            \/ p = "version" /\ k >= 3
                            \/ p = "parsed" /\ k = BiosQueries
                         THEN active' ELSE biosInfo[p]]

BiosDrawn(info) ==
    IF info["parsed"] = None THEN crashed' = TRUE /\ UNCHANGED screen
                             ELSE Drawn(Range(info))

BiosInit ==
    /\ UNCHANGED <<deviceVars, driverVars, systemVars, ipInfo, fwInfo, gpuRings, statMax>>
    /\ biosTag' = BiosTag
    /\ \/ active' = biosTag /\ UNCHANGED <<biosInfo, failures>> /\ BiosDrawn(biosInfo)
       \/ /\ active' # biosTag
          /\ \E k \in Outcomes(BiosQueries) :
                /\ biosInfo' = BiosFetched(k)
                /\ Counted(k = BiosQueries)
                /\ IF k = BiosQueries THEN BiosDrawn(biosInfo') ELSE Cleared

\* getRingInfo of fenceinfo.c lists the rings again each time; with a tag
\* like that of the other pages a return to a device would show the rings of
\* the one before
RingsListedOnce == IF gpuRings = None THEN active' ELSE gpuRings
RingsListed == active'

FenceInit ==
    /\ UNCHANGED <<deviceVars, driverVars, systemVars, ipInfo, fwInfo, biosVars, statMax,
                   failures>>
    /\ gpuRings' = RingsListed
    /\ Drawn({gpuRings'})

\* tabStateInfoInit creates the bars, then sets their maxima if all queries
\* for them succeed, then draws the values
StatInit ==
    /\ UNCHANGED <<deviceVars, driverVars, systemVars, ipInfo, fwInfo, biosVars, gpuRings>>
    /\ \E k \in Outcomes(MaxQueries), values \in {TRUE, ~MayFail} :
          /\ statMax' = IF k = MaxQueries THEN active' ELSE None
          /\ Counted(k = MaxQueries /\ values)
          /\ IF k = MaxQueries /\ values THEN Drawn({statMax', active'}) ELSE Cleared

PageInit ==
    \/ page' = "Stat"     /\ StatInit
    \/ page' = "System"   /\ SystemInit
    \/ page' = "Device"   /\ DeviceInit
    \/ page' = "Driver"   /\ DriverInit
    \/ page' = "Ring"     /\ RingInit
    \/ page' = "Firmware" /\ FirmwareInit
    \/ page' = "Bios"     /\ BiosInit
    \/ page' = "Fence"    /\ FenceInit

-----------------------------------------------------------------------------
(* The event loop, reduced to what reaches a page.                         *)

Runs == page # None /\ ~crashed

\* InitWindowContext, before any event
Start == page = None /\ page' = "Stat" /\ UNCHANGED active /\ PageInit

SwitchDevice == Runs /\ active' \in Devices \ {active} /\ UNCHANGED page /\ PageInit

\* the tabs are neighbours in a ring (see Monitor), here any one comes next
SwitchTab == Runs /\ page' \in Page \ {page} /\ UNCHANGED active /\ PageInit

\* a resize, a closed dialog, a driver that appeared
Redraw == Runs /\ UNCHANGED <<active, page>> /\ PageInit

\* tabStateInfoUpdate: new values next to the maxima the init left
StatUpdate ==
    /\ Runs /\ page = "Stat"
    /\ \/ screen' = [page |-> page, of |-> {statMax, active}] /\ UNCHANGED failures
       \/ MayFail /\ Counted(FALSE) /\ UNCHANGED screen
    /\ UNCHANGED <<active, page, deviceVars, driverVars, systemVars, ipInfo, fwInfo, biosVars,
                   gpuRings, statMax, crashed>>

\* tabFenceInfoUpdate: the fences of the rings the init listed
FenceUpdate ==
    /\ Runs /\ page = "Fence"
    /\ screen' = [page |-> page, of |-> {gpuRings}]
    /\ UNCHANGED <<active, page, deviceVars, driverVars, systemVars, ipInfo, fwInfo, biosVars,
                   gpuRings, statMax, crashed, failures>>

Next == Start \/ SwitchDevice \/ SwitchTab \/ Redraw \/ StatUpdate \/ FenceUpdate

Spec == Init /\ [][Next]_vars

-----------------------------------------------------------------------------
(* Properties.                                                             *)

\* The caches hold results of known devices, or none, however the queries of
\* the init callbacks end.
TypeOK ==
    /\ active \in Devices /\ page \in Page \cup {None}
    /\ screen \in [page : Page \cup {None}, of : SUBSET Owner]
    /\ devInfo \in [1 .. DeviceQueries -> Owner] /\ devTag \in Owner
    /\ driverInfo \in [1 .. DriverQueries -> Owner] /\ driverFirst \in BOOLEAN
    /\ sysInfo \in [1 .. SystemQueries -> Owner] /\ sysFirst \in BOOLEAN
    /\ ipInfo \in [1 .. IpTypes -> Owner] /\ fwInfo \in [1 .. FwTypes -> Owner]
    /\ biosInfo \in [BiosParts -> Owner] /\ biosTag \in Owner
    /\ gpuRings \in Owner /\ statMax \in Owner
    /\ crashed \in BOOLEAN /\ failures \in 0 .. MaxFailures

\* What the Ring and the Fence page show is about the active device, whatever
\* failed on the way: they are the pages whose tag is never set, so each init
\* of theirs (tabRingInfoInit, tabFenceInfoInit) asks for everything again,
\* and a fence update relies on the rings of the init before it.  And the Driver
\* page never shows a field that was not fetched, since "first" of driverinfo.c
\* stays true until one attempt has answered every query.
SoundPages ==
    /\ screen.page \in {"Ring", "Fence"} => screen.of \subseteq {active}
    /\ screen.page = "Driver" => screen.of = {}

\* The Device page takes itself to be about another device only together with
\* the last of its results, so that a failed attempt is repeated by the next
\* init (getAllInfo of deviceinfo.c).
TagAfterData == [][devTag' # devTag => Range(devInfo') = {devTag'}]_vars

\* As long as no query has failed, every page shows the active device and no
\* missing result, and none reads through NULL, in whatever order devices and
\* tabs are turned to: the caches of the pages never show one device for
\* another.  (After a failure the Device, Firmware, Bios and Stat pages may.)
CleanTruthful ==
    failures = 0 => /\ ~crashed
                    /\ screen.of \subseteq (IF screen.page \in {"Driver", "System"} THEN {} ELSE {active})
=============================================================================
