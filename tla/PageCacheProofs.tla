-------------------------- MODULE PageCacheProofs --------------------------
(***************************************************************************)
(* Proofs about PageCache, for any number of devices, IP types, firmware   *)
(* types and failures: the pages without a tag show the active device, the *)
(* Driver page no gap, the tag of the Device page follows its data, and    *)
(* without failures every page is truthful.                                *)
(*                                                                         *)
(* SoundPages alone is not inductive: an update of the Fence page draws    *)
(* what an earlier step listed, the Driver page what earlier attempts left.*)
(***************************************************************************)
EXTENDS PageCache, TLAPS

IInv ==
    /\ page = "Fence" => gpuRings = active
    /\ ~crashed => screen.page = page
    /\ crashed => page = "Bios"
    /\ ~driverFirst => None \notin Range(driverInfo)
    /\ SoundPages

\* What the caches hold as long as no query has failed.
CachesTrue ==
    /\ ~crashed
    /\ devTag # None => Range(devInfo) \subseteq {devTag}
    /\ ~sysFirst => None \notin Range(sysInfo)
    /\ biosTag # None => \A p \in BiosParts : biosInfo[p] = biosTag
    /\ page = "Stat" => statMax = active
    /\ screen.of \subseteq (IF screen.page \in {"Driver", "System"} THEN {} ELSE {active})
Truth == failures = 0 => CachesTrue

LEMMA Queries ==
    /\ DeviceQueries \in Nat \ {0} /\ DriverQueries \in Nat \ {0}
    /\ SystemQueries \in Nat \ {0} /\ MaxQueries \in Nat \ {0} /\ BiosQueries \in Nat \ {0}
<1> QED
  BY DEF DeviceQueries, DriverQueries, SystemQueries, MaxQueries, BiosQueries

\* Queries keep the type of their results; once all of a page's have answered,
\* its results are the active device's.
LEMMA FetchedAll ==
    ASSUME NEW n \in Nat \ {0}, NEW info \in [1 .. n -> Owner], active' \in Devices, NEW k
    PROVE  /\ Fetched(info, k) \in [1 .. n -> Owner]
           /\ Range(Fetched(info, k)) \subseteq Owner
           /\ k = n => Range(Fetched(info, k)) = {active'} /\ None \notin Range(Fetched(info, k))
<1>1. Fetched(info, k) \in [1 .. n -> Owner]
  BY DEF Fetched, Owner
<1>2. Range(Fetched(info, k)) \subseteq Owner
  BY <1>1 DEF Range
<1>3. ASSUME k = n PROVE Range(Fetched(info, k)) = {active'}
  <2>1. \A i \in 1 .. n : Fetched(info, n)[i] = active'
    BY DEF Fetched
  <2>2. 1 \in 1 .. n /\ DOMAIN Fetched(info, n) = 1 .. n
    BY DEF Fetched
  <2> QED
    BY <1>3, <2>1, <2>2 DEF Range
<1> QED
  BY <1>1, <1>2, <1>3, NoneAssumption

\* An attempt is counted exactly if it fails, and fails only while it may.
LEMMA CountedAttempt ==
    ASSUME TypeOK, NEW n \in Nat, NEW k \in Outcomes(n),
           NEW ok \in BOOLEAN, ok \/ MayFail, Counted(ok)
    PROVE  /\ failures' \in 0 .. MaxFailures
           /\ failures' = 0 => failures = 0 /\ ok
<1>1. failures \in 0 .. MaxFailures /\ MaxFailures \in Nat
  BY SizeAssumption DEF TypeOK
<1> QED
  BY <1>1 DEF Counted, MayFail

LEMMA OutcomeOfAll ==
    ASSUME NEW n \in Nat, NEW k \in Outcomes(n)
    PROVE  k \in 0 .. n /\ (k = n \/ MayFail)
<1> QED
  BY DEF Outcomes

\* An attempt that ends with its last query is counted as it should be.
LEMMA CountedQueries ==
    ASSUME TypeOK, NEW n \in Nat, NEW k \in Outcomes(n), Counted(k = n)
    PROVE  /\ failures' \in 0 .. MaxFailures
           /\ failures' = 0 => failures = 0 /\ k = n
<1>1. (k = n) \in BOOLEAN /\ ((k = n) \/ MayFail)
  BY OutcomeOfAll
<1>2. failures \in 0 .. MaxFailures /\ MaxFailures \in Nat
  BY SizeAssumption DEF TypeOK
<1> QED
  BY <1>1, <1>2 DEF Counted, MayFail

Inv == TypeOK /\ IInv /\ Truth

\* The page is initialised for a device and a tab of which at most one is new.
Turns ==
    /\ Inv /\ ~crashed
    /\ active' \in Devices /\ page' \in Page /\ (page' # page => active' = active)

\* What drawing leaves on the screen is of the type it should be.
LEMMA DrawnType ==
    ASSUME TypeOK, page' \in Page, NEW of, of \subseteq Owner, Drawn(of)
    PROVE  /\ screen' \in [page : Page \cup {None}, of : SUBSET Owner]
           /\ screen'.page = page' /\ screen'.of = of /\ crashed' = crashed
<1> QED
  BY DEF Drawn

LEMMA ClearedType ==
    ASSUME TypeOK, page' \in Page, Cleared
    PROVE  /\ screen' \in [page : Page \cup {None}, of : SUBSET Owner]
           /\ screen'.page = page' /\ screen'.of = {} /\ crashed' = crashed
<1> QED
  BY DEF Cleared

LEMMA DeviceCase == ASSUME Turns, page' = "Device", DeviceInit PROVE Inv'
<1> USE DEF Turns, Inv
<1>0. TypeOK /\ Range(devInfo) \subseteq Owner /\ active' \in Owner
  BY DEF TypeOK, Range, Owner
<1>1. CASE active' = devTag /\ UNCHANGED <<deviceVars, failures>>
           /\ Drawn({active'} \cup Range(devInfo))
  <2>1. /\ screen' \in [page : Page \cup {None}, of : SUBSET Owner] /\ crashed' = crashed
        /\ screen'.page = page' /\ screen'.of = {active'} \cup Range(devInfo)
    BY <1>0, <1>1, DrawnType
  <2>2. TypeOK'
    BY <1>0, <1>1, <2>1
    DEF TypeOK, DeviceInit, driverVars, systemVars, biosVars, deviceVars
  <2>3. IInv'
    BY <1>1, <2>1 DEF IInv, SoundPages, DeviceInit, driverVars
  <2>4. Truth'
    BY <1>1, <2>1, NoneAssumption
    DEF Truth, CachesTrue, DeviceInit, deviceVars, driverVars, systemVars, biosVars
  <2> QED
    BY <2>2, <2>3, <2>4
<1>2. CASE active' # devTag /\ \E k \in Outcomes(DeviceQueries) :
                /\ devInfo' = Fetched(devInfo, k)
                /\ devTag' = DeviceTag(k)
                /\ Counted(k = DeviceQueries)
                /\ IF k \in {0, DeviceQueries} THEN Drawn({active'} \cup Range(devInfo'))
                                            ELSE Cleared
  <2>1. PICK k \in Outcomes(DeviceQueries) :
                /\ devInfo' = Fetched(devInfo, k)
                /\ devTag' = DeviceTag(k)
                /\ Counted(k = DeviceQueries)
                /\ IF k \in {0, DeviceQueries} THEN Drawn({active'} \cup Range(devInfo'))
                                            ELSE Cleared
    BY <1>2
  <2>2. /\ devInfo' \in [1 .. DeviceQueries -> Owner] /\ Range(devInfo') \subseteq Owner
        /\ k = DeviceQueries => Range(devInfo') = {active'}
    BY <1>0, <2>1, FetchedAll, Queries DEF TypeOK
  <2>3. failures' \in 0 .. MaxFailures /\ (failures' = 0 => failures = 0 /\ k = DeviceQueries)
    BY <1>0, <2>1, CountedQueries, Queries
  <2>4. /\ screen' \in [page : Page \cup {None}, of : SUBSET Owner] /\ crashed' = crashed
        /\ screen'.page = page'
        /\ screen'.of = {active'} \cup Range(devInfo') \/ k # DeviceQueries
    <3>1. CASE k \in {0, DeviceQueries}
      BY <1>0, <2>1, <2>2, <3>1, DrawnType
    <3>2. CASE k \notin {0, DeviceQueries}
      BY <1>0, <2>1, <3>2, ClearedType
    <3> QED
      BY <3>1, <3>2
  <2>5. devTag' \in Owner /\ (k = DeviceQueries => devTag' = active')
    BY <1>0, <2>1 DEF DeviceTag, TypeOK
  <2>6. TypeOK'
    BY <1>0, <2>2, <2>3, <2>4, <2>5 DEF TypeOK, DeviceInit, driverVars, systemVars, biosVars
  <2>7. IInv'
    BY <2>4 DEF IInv, SoundPages, DeviceInit, driverVars
  <2>8. Truth'
    BY <2>2, <2>3, <2>4, <2>5, NoneAssumption
    DEF Truth, CachesTrue, DeviceInit, driverVars, systemVars, biosVars
  <2> QED
    BY <2>6, <2>7, <2>8
<1> QED
  BY <1>1, <1>2 DEF DeviceInit

LEMMA DriverCase == ASSUME Turns, page' = "Driver", DriverInit PROVE Inv'
<1> USE DEF Turns, Inv
<1>0. TypeOK /\ Missing(driverInfo) \subseteq Owner
  BY DEF Missing, Owner
<1>1. CASE ~driverFirst /\ UNCHANGED <<driverVars, failures>> /\ Drawn(Missing(driverInfo))
  <2>1. /\ screen' \in [page : Page \cup {None}, of : SUBSET Owner] /\ crashed' = crashed
        /\ screen'.page = page' /\ screen'.of = Missing(driverInfo)
    BY <1>0, <1>1, DrawnType
  <2>2. Missing(driverInfo) = {}
    BY <1>1 DEF IInv, Missing
  <2>3. TypeOK'
    BY <1>0, <1>1, <2>1
    DEF TypeOK, DriverInit, driverVars, systemVars, biosVars, deviceVars
  <2>4. IInv'
    BY <1>1, <2>1, <2>2 DEF IInv, SoundPages, DriverInit, driverVars
  <2>5. Truth'
    BY <1>1, <2>1, <2>2
    DEF Truth, CachesTrue, DriverInit, deviceVars, systemVars, biosVars
  <2> QED
    BY <2>3, <2>4, <2>5
<1>2. CASE driverFirst /\ \E k \in Outcomes(DriverQueries) :
                /\ driverInfo' = Fetched(driverInfo, k)
                /\ driverFirst' = DriverFirst(k)
                /\ Counted(k = DriverQueries)
                /\ IF k = DriverQueries THEN Drawn(Missing(driverInfo')) ELSE Cleared
  <2>1. PICK k \in Outcomes(DriverQueries) :
                /\ driverInfo' = Fetched(driverInfo, k)
                /\ driverFirst' = DriverFirst(k)
                /\ Counted(k = DriverQueries)
                /\ IF k = DriverQueries THEN Drawn(Missing(driverInfo')) ELSE Cleared
    BY <1>2
  <2>2. /\ driverInfo' \in [1 .. DriverQueries -> Owner]
        /\ k = DriverQueries => None \notin Range(driverInfo')
    BY <1>0, <2>1, FetchedAll, Queries DEF TypeOK
  <2>3. failures' \in 0 .. MaxFailures /\ (failures' = 0 => failures = 0 /\ k = DriverQueries)
    BY <1>0, <2>1, CountedQueries, Queries
  <2>4. /\ screen' \in [page : Page \cup {None}, of : SUBSET Owner] /\ crashed' = crashed
        /\ screen'.page = page' /\ screen'.of = {}
    <3>1. CASE k = DriverQueries
      <4>1. Missing(driverInfo') = {} /\ Missing(driverInfo') \subseteq Owner
        BY <2>2, <3>1 DEF Missing
      <4> QED
        BY <1>0, <2>1, <3>1, <4>1, DrawnType
    <3>2. CASE k # DriverQueries
      BY <1>0, <2>1, <3>2, ClearedType
    <3> QED
      BY <3>1, <3>2
  <2>5. k \in 0 .. DriverQueries
    BY OutcomeOfAll, Queries
  <2>6. driverFirst' \in BOOLEAN /\ (k # DriverQueries => driverFirst')
    <3>1. k # DriverQueries => k < DriverQueries
      BY <2>5, Queries
    <3>2. driverFirst' = (driverFirst /\ k < DriverQueries)
      BY <2>1 DEF DriverFirst
    <3> QED
      BY <1>2, <3>1, <3>2, Zenon
  <2>7. TypeOK'
    BY <1>0, <2>2, <2>3, <2>4, <2>6 DEF TypeOK, DriverInit, deviceVars, systemVars, biosVars
  <2>8. IInv'
    BY <2>2, <2>4, <2>6 DEF IInv, SoundPages, DriverInit
  <2>9. Truth'
    BY <2>3, <2>4 DEF Truth, CachesTrue, DriverInit, deviceVars, systemVars, biosVars
  <2> QED
    BY <2>7, <2>8, <2>9
<1> QED
  BY <1>1, <1>2 DEF DriverInit

LEMMA SystemCase == ASSUME Turns, page' = "System", SystemInit PROVE Inv'
<1> USE DEF Turns, Inv
<1>0. TypeOK /\ Missing(sysInfo) \subseteq Owner /\ Missing(sysInfo)' \subseteq Owner
  BY DEF Missing, Owner
<1>1. CASE ~sysFirst /\ UNCHANGED <<sysInfo, failures>> /\ Drawn(Missing(sysInfo))
  <2>1. /\ screen' \in [page : Page \cup {None}, of : SUBSET Owner] /\ crashed' = crashed
        /\ screen'.page = page' /\ screen'.of = Missing(sysInfo)
    BY <1>0, <1>1, DrawnType
  <2>2. TypeOK'
    BY <1>0, <1>1, <2>1
    DEF TypeOK, SystemInit, driverVars, systemVars, biosVars, deviceVars
  <2>3. IInv'
    BY <2>1 DEF IInv, SoundPages, SystemInit, driverVars
  <2>4. Truth'
    BY <1>1, <2>1 DEF Truth, CachesTrue, SystemInit, deviceVars, biosVars, Missing
  <2> QED
    BY <2>2, <2>3, <2>4
<1>2. CASE sysFirst /\ \E k \in Outcomes(SystemQueries) :
                /\ sysInfo' = Fetched(sysInfo, k)
                /\ Counted(k = SystemQueries)
                /\ IF k = SystemQueries THEN Drawn(Missing(sysInfo')) ELSE Cleared
  <2>1. PICK k \in Outcomes(SystemQueries) :
                /\ sysInfo' = Fetched(sysInfo, k)
                /\ Counted(k = SystemQueries)
                /\ IF k = SystemQueries THEN Drawn(Missing(sysInfo')) ELSE Cleared
    BY <1>2
  <2>2. /\ sysInfo' \in [1 .. SystemQueries -> Owner]
        /\ k = SystemQueries => None \notin Range(sysInfo')
    BY <1>0, <2>1, FetchedAll, Queries DEF TypeOK
  <2>3. failures' \in 0 .. MaxFailures /\ (failures' = 0 => failures = 0 /\ k = SystemQueries)
    BY <1>0, <2>1, CountedQueries, Queries
  <2>4. /\ screen' \in [page : Page \cup {None}, of : SUBSET Owner] /\ crashed' = crashed
        /\ screen'.page = page' /\ screen'.of = {}
    <3>1. CASE k = SystemQueries
      <4>1. Missing(sysInfo') = {} /\ Missing(sysInfo') \subseteq Owner
        BY <2>2, <3>1 DEF Missing
      <4> QED
        BY <1>0, <2>1, <3>1, <4>1, DrawnType
    <3>2. CASE k # SystemQueries
      BY <1>0, <2>1, <3>2, ClearedType
    <3> QED
      BY <3>1, <3>2
  <2>5. TypeOK'
    BY <1>0, <2>2, <2>3, <2>4 DEF TypeOK, SystemInit, deviceVars, driverVars, biosVars
  <2>6. IInv'
    BY <2>4 DEF IInv, SoundPages, SystemInit, driverVars
  <2>7. Truth'
    BY <2>2, <2>3, <2>4 DEF Truth, CachesTrue, SystemInit, deviceVars, biosVars
  <2> QED
    BY <2>5, <2>6, <2>7
<1> QED
  BY <1>1, <1>2 DEF SystemInit

LEMMA RingCase == ASSUME Turns, page' = "Ring", RingInit PROVE Inv'
<1> USE DEF Turns, Inv
<1>1. PICK k \in Outcomes(IpTypes) :
          /\ ipInfo' = Fetched(ipInfo, k)
          /\ Counted(k = IpTypes)
          /\ IF RingDraws(k) THEN Drawn(Range(ipInfo')) ELSE Cleared
  BY DEF RingInit
<1>2. /\ ipInfo' \in [1 .. IpTypes -> Owner] /\ Range(ipInfo') \subseteq Owner
      /\ k = IpTypes => Range(ipInfo') = {active'}
  BY <1>1, FetchedAll, SizeAssumption DEF TypeOK
<1>3. failures' \in 0 .. MaxFailures /\ (failures' = 0 => failures = 0)
  BY <1>1, CountedQueries, SizeAssumption
<1>4. /\ screen' \in [page : Page \cup {None}, of : SUBSET Owner] /\ crashed' = crashed
      /\ screen'.page = page' /\ screen'.of \subseteq {active'}
  <2>1. CASE RingDraws(k)
    BY <1>1, <1>2, <2>1, DrawnType DEF RingDraws
  <2>2. CASE ~RingDraws(k)
    BY <1>1, <2>2, ClearedType
  <2> QED
    BY <2>1, <2>2
<1>5. TypeOK'
  BY <1>2, <1>3, <1>4 DEF TypeOK, RingInit, deviceVars, driverVars, systemVars, biosVars
<1>6. IInv'
  BY <1>4 DEF IInv, SoundPages, RingInit, driverVars
<1>7. Truth'
  BY <1>3, <1>4 DEF Truth, CachesTrue, RingInit, deviceVars, systemVars, biosVars
<1> QED
  BY <1>5, <1>6, <1>7

LEMMA FirmwareCase == ASSUME Turns, page' = "Firmware", FirmwareInit PROVE Inv'
<1> USE DEF Turns, Inv
<1>1. PICK answered \in IF MayFail THEN SUBSET (1 .. FwTypes) ELSE {1 .. FwTypes} :
          /\ fwInfo' = [i \in 1 .. FwTypes |-> IF i \in answered THEN active' ELSE fwInfo[i]]
          /\ Counted(answered = 1 .. FwTypes)
          /\ IF FwTypes \in answered THEN Drawn(Range(fwInfo')) ELSE Cleared
  BY DEF FirmwareInit
<1>2. fwInfo' \in [1 .. FwTypes -> Owner] /\ Range(fwInfo') \subseteq Owner
  BY <1>1 DEF TypeOK, Range, Owner
<1>3. answered = 1 .. FwTypes => Range(fwInfo') \subseteq {active'}
  BY <1>1 DEF Range
<1>4. /\ failures' \in 0 .. MaxFailures
      /\ failures' = 0 => failures = 0 /\ answered = 1 .. FwTypes
  <2>1. (answered = 1 .. FwTypes) \in BOOLEAN /\ ((answered = 1 .. FwTypes) \/ MayFail)
    OBVIOUS
  <2> QED
    BY <1>1, <2>1, SizeAssumption DEF Counted, MayFail, TypeOK
<1>5. /\ screen' \in [page : Page \cup {None}, of : SUBSET Owner] /\ crashed' = crashed
      /\ screen'.page = page' /\ (screen'.of = {} \/ screen'.of = Range(fwInfo'))
  <2>1. CASE FwTypes \in answered
    BY <1>1, <1>2, <2>1, DrawnType
  <2>2. CASE FwTypes \notin answered
    BY <1>1, <2>2, ClearedType
  <2> QED
    BY <2>1, <2>2
<1>6. TypeOK'
  BY <1>2, <1>4, <1>5 DEF TypeOK, FirmwareInit, deviceVars, driverVars, systemVars, biosVars
<1>7. IInv'
  BY <1>5 DEF IInv, SoundPages, FirmwareInit, driverVars
<1>8. Truth'
  BY <1>3, <1>4, <1>5 DEF Truth, CachesTrue, FirmwareInit, deviceVars, systemVars, biosVars
<1> QED
  BY <1>6, <1>7, <1>8

LEMMA BiosCase == ASSUME Turns, page' = "Bios", BiosInit PROVE Inv'
<1> USE DEF Turns, Inv
<1>0. TypeOK /\ active' \in Owner /\ biosTag' = active'
  BY DEF BiosInit, BiosTag, Owner
<1>1. PICK info \in [BiosParts -> Owner] :
          /\ biosInfo' = info
          /\ failures' \in 0 .. MaxFailures
          /\ failures' = 0 => failures = 0 /\ \A p \in BiosParts : info[p] = active'
          /\ BiosDrawn(info) \/ (failures' # 0 /\ Cleared)
  <2>1. CASE active' = biosTag /\ UNCHANGED <<biosInfo, failures>> /\ BiosDrawn(biosInfo)
    <3>1. biosInfo \in [BiosParts -> Owner] /\ failures \in 0 .. MaxFailures
      BY <1>0 DEF TypeOK
    <3>2. failures = 0 => \A p \in BiosParts : biosInfo[p] = active'
      BY <2>1, NoneAssumption DEF Truth, CachesTrue
    <3>3. biosInfo' = biosInfo /\ failures' = failures /\ BiosDrawn(biosInfo)
      BY <2>1
    <3> QED
      BY <3>1, <3>2, <3>3
  <2>2. CASE active' # biosTag /\ \E k \in Outcomes(BiosQueries) :
                /\ biosInfo' = BiosFetched(k)
                /\ Counted(k = BiosQueries)
                /\ IF k = BiosQueries THEN BiosDrawn(biosInfo') ELSE Cleared
    <3>1. PICK k \in Outcomes(BiosQueries) :
                /\ biosInfo' = BiosFetched(k)
                /\ Counted(k = BiosQueries)
                /\ IF k = BiosQueries THEN BiosDrawn(biosInfo') ELSE Cleared
      BY <2>2
    <3>2. /\ failures' \in 0 .. MaxFailures
          /\ failures' = 0 => failures = 0 /\ k = BiosQueries
      BY <1>0, <3>1, CountedQueries, Queries
    <3>3. biosInfo' \in [BiosParts -> Owner]
      BY <1>0, <3>1 DEF BiosFetched, TypeOK
    <3>4. k = BiosQueries => \A p \in BiosParts : biosInfo'[p] = active'
      BY <3>1 DEF BiosFetched, BiosParts, BiosQueries
    <3>5. k # BiosQueries => failures' # 0
      BY <3>2
    <3>6. BiosDrawn(biosInfo') \/ (failures' # 0 /\ Cleared)
      BY <3>1, <3>5
    <3> QED
      BY <3>2, <3>3, <3>4, <3>5, <3>6
  <2> QED
    BY <2>1, <2>2 DEF BiosInit
<1>2. Range(info) \subseteq Owner /\ "parsed" \in BiosParts
  BY DEF Range, BiosParts
<1>3. /\ screen' \in [page : Page \cup {None}, of : SUBSET Owner] /\ crashed' \in BOOLEAN
      /\ ~crashed' => screen'.page = page'
      /\ screen'.page \in {"Ring", "Fence", "Driver"} => screen' = screen
      /\ failures' = 0 => ~crashed' /\ screen'.page = page' /\ screen'.of \subseteq {active'}
  <2>1. CASE BiosDrawn(info) /\ info["parsed"] = None
    <3>1. crashed' = TRUE /\ screen' = screen
      BY <2>1 DEF BiosDrawn
    <3>2. failures' # 0
      BY <1>1, <1>2, <2>1, NoneAssumption
    <3> QED
      BY <1>0, <3>1, <3>2 DEF TypeOK
  <2>2. CASE BiosDrawn(info) /\ info["parsed"] # None
    <3>1. Drawn(Range(info))
      BY <2>2 DEF BiosDrawn
    <3>2. /\ screen' \in [page : Page \cup {None}, of : SUBSET Owner] /\ crashed' = crashed
          /\ screen'.page = page' /\ screen'.of = Range(info)
      BY <1>0, <1>2, <3>1, DrawnType
    <3>3. failures' = 0 => Range(info) \subseteq {active'}
      BY <1>1 DEF Range
    <3> QED
      BY <1>0, <3>2, <3>3 DEF TypeOK
  <2>3. CASE failures' # 0 /\ Cleared
    BY <1>0, <2>3, ClearedType DEF TypeOK
  <2> QED
    BY <1>1, <2>1, <2>2, <2>3
<1>4. TypeOK'
  BY <1>0, <1>1, <1>3 DEF TypeOK, BiosInit, deviceVars, driverVars, systemVars
<1>5. IInv'
  <2>1. SoundPages'
    <3>1. screen'.page \in {"Ring", "Fence", "Driver"} => active' = active
      BY <1>3 DEF IInv
    <3> QED
      BY <1>3, <3>1 DEF IInv, SoundPages
  <2> QED
    BY <1>3, <2>1 DEF IInv, BiosInit, driverVars
<1>6. Truth'
  BY <1>0, <1>1, <1>3 DEF Truth, CachesTrue, BiosInit, deviceVars, systemVars
<1> QED
  BY <1>4, <1>5, <1>6

LEMMA FenceCase == ASSUME Turns, page' = "Fence", FenceInit PROVE Inv'
<1> USE DEF Turns, Inv
<1>1. gpuRings' = active' /\ gpuRings' \in Owner /\ failures' = failures
  BY DEF FenceInit, RingsListed, Owner
<1>2. /\ screen' \in [page : Page \cup {None}, of : SUBSET Owner] /\ crashed' = crashed
      /\ screen'.page = page' /\ screen'.of = {active'}
  BY <1>1, DrawnType DEF FenceInit
<1>3. TypeOK'
  BY <1>1, <1>2 DEF TypeOK, FenceInit, deviceVars, driverVars, systemVars, biosVars
<1>4. IInv'
  BY <1>1, <1>2 DEF IInv, SoundPages, FenceInit, driverVars
<1>5. Truth'
  BY <1>1, <1>2 DEF Truth, CachesTrue, FenceInit, deviceVars, systemVars, biosVars
<1> QED
  BY <1>3, <1>4, <1>5

LEMMA StatCase == ASSUME Turns, page' = "Stat", StatInit PROVE Inv'
<1> USE DEF Turns, Inv
<1>1. PICK k \in Outcomes(MaxQueries), values \in {TRUE, ~MayFail} :
          /\ statMax' = IF k = MaxQueries THEN active' ELSE None
          /\ Counted(k = MaxQueries /\ values)
          /\ IF k = MaxQueries /\ values THEN Drawn({statMax', active'}) ELSE Cleared
  BY DEF StatInit
<1>2. statMax' \in Owner /\ {statMax', active'} \subseteq Owner
  BY <1>1 DEF Owner
<1>3. /\ failures' \in 0 .. MaxFailures
      /\ failures' = 0 => failures = 0 /\ k = MaxQueries /\ values
  <2>1. k = MaxQueries \/ MayFail
    BY OutcomeOfAll, Queries
  <2>2. values \/ MayFail
    BY <1>1
  <2>3. failures \in 0 .. MaxFailures /\ MaxFailures \in Nat
    BY SizeAssumption DEF TypeOK
  <2>4. CASE k = MaxQueries /\ values
    BY <1>1, <2>3, <2>4 DEF Counted
  <2>5. CASE ~(k = MaxQueries /\ values)
    <3>1. MayFail
      BY <2>1, <2>2, <2>5
    <3>2. failures' = failures + 1
      BY <1>1, <2>5 DEF Counted
    <3> QED
      BY <2>3, <3>1, <3>2 DEF MayFail
  <2> QED
    BY <2>4, <2>5
<1>4. /\ screen' \in [page : Page \cup {None}, of : SUBSET Owner] /\ crashed' = crashed
      /\ screen'.page = page' /\ (screen'.of = {} \/ screen'.of = {statMax', active'})
  <2>1. CASE k = MaxQueries /\ values
    BY <1>1, <1>2, <2>1, DrawnType
  <2>2. CASE ~(k = MaxQueries /\ values)
    BY <1>1, <2>2, ClearedType
  <2> QED
    BY <2>1, <2>2
<1>5. TypeOK'
  BY <1>2, <1>3, <1>4 DEF TypeOK, StatInit, deviceVars, driverVars, systemVars, biosVars
<1>6. IInv'
  BY <1>4 DEF IInv, SoundPages, StatInit, driverVars
<1>7. Truth'
  BY <1>1, <1>3, <1>4 DEF Truth, CachesTrue, StatInit, deviceVars, systemVars, biosVars
<1> QED
  BY <1>5, <1>6, <1>7

\* Every init callback keeps the invariant, also one that fails half-way.
LEMMA PageInitInv == ASSUME Turns, PageInit PROVE Inv'
<1> QED
  BY DeviceCase, DriverCase, SystemCase, RingCase, FirmwareCase, BiosCase, FenceCase, StatCase
  DEF PageInit

LEMMA InitInv == Init => Inv
<1> SUFFICES ASSUME Init PROVE Inv
  OBVIOUS
<1>1. TypeOK
  <2>1. None \in Owner /\ MaxFailures \in Nat
    BY SizeAssumption DEF Owner
  <2>2. /\ devInfo \in [1 .. DeviceQueries -> Owner] /\ driverInfo \in [1 .. DriverQueries -> Owner]
        /\ sysInfo \in [1 .. SystemQueries -> Owner] /\ ipInfo \in [1 .. IpTypes -> Owner]
        /\ fwInfo \in [1 .. FwTypes -> Owner] /\ biosInfo \in [BiosParts -> Owner]
    BY <2>1 DEF Init
  <2>3. screen \in [page : Page \cup {None}, of : SUBSET Owner]
    BY DEF Init
  <2>4. driverFirst \in BOOLEAN /\ sysFirst \in BOOLEAN /\ crashed \in BOOLEAN
    BY DEF Init
  <2>5. active \in Devices /\ page = None /\ failures \in 0 .. MaxFailures
        /\ devTag = None /\ biosTag = None /\ gpuRings = None /\ statMax = None
    BY <2>1 DEF Init
  <2> QED
    BY <2>1, <2>2, <2>3, <2>4, <2>5 DEF TypeOK
<1>2. page = None /\ None \notin Page
  BY NoneAssumption DEF Init
<1>3. IInv
  BY <1>2 DEF Init, IInv, SoundPages, Page
<1>4. Truth
  BY <1>2 DEF Init, Truth, CachesTrue, Page
<1> QED
  BY <1>1, <1>3, <1>4 DEF Inv

LEMMA NextInv == Inv /\ [Next]_vars => Inv'
<1> SUFFICES ASSUME Inv, [Next]_vars PROVE Inv'
  OBVIOUS
<1>0. TypeOK /\ "Stat" \in Page /\ (crashed => page = "Bios") /\ None \notin Page
  BY NoneAssumption DEF Inv, IInv, Page
<1>1. CASE Start
  <2>1. ~crashed
    BY <1>0, <1>1 DEF Start, Page
  <2> QED
    BY <1>0, <1>1, <2>1, PageInitInv DEF Start, Turns, TypeOK
<1>2. CASE SwitchDevice
  BY <1>0, <1>2, PageInitInv DEF SwitchDevice, Runs, Turns, TypeOK
<1>3. CASE SwitchTab
  BY <1>0, <1>3, PageInitInv DEF SwitchTab, Runs, Turns, TypeOK
<1>4. CASE Redraw
  BY <1>0, <1>4, PageInitInv DEF Redraw, Runs, Turns, TypeOK
<1>5. CASE StatUpdate
  <2>1. \/ screen' = [page |-> page, of |-> {statMax, active}] /\ failures' = failures
        \/ MayFail /\ failures' = failures + 1 /\ screen' = screen
    BY <1>5, Zenon DEF StatUpdate, Counted
  <2>2. {statMax, active} \subseteq Owner /\ page = "Stat" /\ failures \in 0 .. MaxFailures
    BY <1>0, <1>5 DEF StatUpdate, TypeOK, Owner
  <2>3. failures' \in 0 .. MaxFailures /\ (failures' = 0 => failures = 0)
    BY <2>1, <2>2, SizeAssumption DEF MayFail
  <2>4. screen' \in [page : Page \cup {None}, of : SUBSET Owner]
    BY <1>0, <2>1, <2>2 DEF TypeOK
  <2>5. TypeOK'
    BY <1>0, <1>5, <2>3, <2>4
    DEF TypeOK, StatUpdate, deviceVars, driverVars, systemVars, biosVars
  <2>6. IInv'
    BY <1>5, <2>1, <2>2 DEF Inv, IInv, SoundPages, StatUpdate, driverVars
  <2>7. Truth'
    BY <1>5, <2>1, <2>2, <2>3
    DEF Inv, Truth, CachesTrue, StatUpdate, deviceVars, systemVars, biosVars
  <2> QED
    BY <2>5, <2>6, <2>7 DEF Inv
<1>6. CASE FenceUpdate
  <2>1. screen' = [page |-> page, of |-> {gpuRings}] /\ page = "Fence" /\ gpuRings = active
    BY <1>6 DEF FenceUpdate, Inv, IInv
  <2>2. TypeOK'
    BY <1>0, <1>6, <2>1
    DEF TypeOK, Owner, FenceUpdate, deviceVars, driverVars, systemVars, biosVars
  <2>3. IInv'
    BY <1>6, <2>1 DEF Inv, IInv, SoundPages, FenceUpdate, driverVars
  <2>4. Truth'
    BY <1>6, <2>1 DEF Inv, Truth, CachesTrue, FenceUpdate, deviceVars, systemVars, biosVars
  <2> QED
    BY <2>2, <2>3, <2>4 DEF Inv
<1>7. CASE UNCHANGED vars
  <2>1. TypeOK'
    BY <1>0, <1>7 DEF TypeOK, vars, deviceVars, driverVars, systemVars, biosVars
  <2>2. IInv' /\ Truth'
    BY <1>7 DEF Inv, IInv, Truth, CachesTrue, SoundPages, vars, deviceVars, driverVars,
                systemVars, biosVars
  <2> QED
    BY <2>1, <2>2 DEF Inv
<1> QED
  BY <1>1, <1>2, <1>3, <1>4, <1>5, <1>6, <1>7 DEF Next

\* The invariant that carries the theorems (PageInit and the two updates).
THEOREM Invariance == Spec => []Inv
<1> QED
  BY InitInv, NextInv, PTL DEF Spec

\* The caches and the screen keep the values the init callbacks can give them.
THEOREM TypeCorrect == Spec => []TypeOK
<1>1. Inv => TypeOK
  BY DEF Inv
<1> QED
  BY <1>1, Invariance, PTL

\* The Ring and the Fence page show the active device and the Driver page no
\* gap, whatever fails (getRingInfo of ringinfo.c and of fenceinfo.c, whose tags
\* stay NULL, and "first" of driverinfo.c).
THEOREM UntaggedPagesSound == Spec => []SoundPages
<1>1. Inv => SoundPages
  BY DEF Inv, IInv
<1> QED
  BY <1>1, Invariance, PTL

\* Without failures every page shows the active device alone, nothing missing,
\* and none is drawn from a NULL pointer.
THEOREM CleanPagesTruthful == Spec => []CleanTruthful
<1>1. Inv => CleanTruthful
  BY DEF Inv, Truth, CachesTrue, CleanTruthful
<1> QED
  BY <1>1, Invariance, PTL

\* The Device page changes its tag only once all its results are those of the
\* device it then names (getAllInfo of deviceinfo.c).
THEOREM DeviceTagFollows == Spec => TagAfterData
<1>1. Inv /\ Inv' /\ [Next]_vars => [devTag' # devTag => Range(devInfo') = {devTag'}]_vars
  <2> SUFFICES ASSUME Inv, Inv', Next, devTag' # devTag
               PROVE  Range(devInfo') = {devTag'}
    BY DEF vars
  <2>1. DeviceInit
    BY DEF Next, Start, SwitchDevice, SwitchTab, Redraw, StatUpdate, FenceUpdate, PageInit,
           StatInit, SystemInit, DriverInit, RingInit, FirmwareInit, BiosInit, FenceInit,
           deviceVars
  <2>2. PICK k \in Outcomes(DeviceQueries) :
            devInfo' = Fetched(devInfo, k) /\ devTag' = DeviceTag(k)
    BY <2>1 DEF DeviceInit, deviceVars
  <2>3. k = DeviceQueries /\ devTag' = active'
    BY <2>2 DEF DeviceTag
  <2>4. devInfo \in [1 .. DeviceQueries -> Owner] /\ active' \in Devices
    BY DEF Inv, TypeOK
  <2> QED
    BY <2>2, <2>3, <2>4, FetchedAll, Queries
<1> QED
  BY <1>1, Invariance, PTL DEF Spec, TagAfterData
=============================================================================
