------------------------------ MODULE Pci_proofs ------------------------------
(***************************************************************************)
(* Proofs about Pci: what pci_init lists and what it leaves out, for every *)
(* machine, every number of buses, devices and functions and every size of *)
(* the array.                                                              *)
(***************************************************************************)
EXTENDS Pci, TLAPS

(* Where the scan is; everything before has been looked at.                *)
Cursor == <<bus, device, function>>

CountersOK ==
    /\ machine \in [present : SUBSET Places, multi : SUBSET Slots]
    /\ pc \in {"bus_0", "buses", "done"}
    /\ bus \in 0 .. Buses - 2 /\ device \in 0 .. Devices /\ function \in 0 .. Functions - 1
    /\ pc = "bus_0" => bus = 0
    /\ function # 0 =>
          /\ device < Devices
          /\ Answers(<<bus, device, 0>>) /\ <<bus, device>> \in machine.multi
    /\ pci_devices \in Seq(Places)

ListBehind == \A i \in DOMAIN pci_devices : Before(pci_devices[i], Cursor)

Found(fn) == \E i \in DOMAIN pci_devices : pci_devices[i] = fn

FullBefore(fn) == Len(pci_devices) = MaxDevices /\ Before(pci_devices[MaxDevices], fn)

(* A real function the scan has passed is in the list, or the array was    *)
(* full before.                                                            *)
PassedListed ==
    \A fn \in machine.present :
        Real(fn) /\ Before(fn, Cursor) => Found(fn) \/ FullBefore(fn)

(* The scan ends on bus 0 of a machine without further buses, or on the    *)
(* last bus but one.                                                       *)
EndReached ==
    pc = "done" =>
        /\ device = Devices
        /\ bus = Buses - 2 \/ (bus = 0 /\ HostBridgeSingle)

PciInv == CountersOK /\ ListSound /\ ListBehind /\ PassedListed /\ EndReached

(* The parts of an address are in their ranges.                            *)
LEMMA PlaceParts ==
    ASSUME NEW fn \in Places
    PROVE  /\ fn[1] \in 0 .. Buses - 1 /\ fn[2] \in 0 .. Devices - 1
           /\ fn[3] \in 0 .. Functions - 1
           /\ fn = <<fn[1], fn[2], fn[3]>>
BY DEF Places

(* The scan starts with an empty list, at the first function.              *)
LEMMA PciInitInv == PciInit => PciInv
<1> SUFFICES ASSUME PciInit PROVE PciInv
  OBVIOUS
<1>1. CountersOK
  <2>1. 0 \in 0 .. Buses - 2 /\ 0 \in 0 .. Devices /\ 0 \in 0 .. Functions - 1
    BY BusesAssumption, DevicesAssumption, FunctionsAssumption
  <2>2. machine \in [present : SUBSET Places, multi : SUBSET Slots]
    BY MachinesAssumption DEF PciInit
  <2>3. pci_devices \in Seq(Places)
    <3>1. pci_devices = << >>
      BY DEF PciInit
    <3> QED
      BY <3>1
  <2> QED
    BY <2>1, <2>2, <2>3 DEF PciInit, CountersOK
<1>2. ListSound /\ ListBehind /\ EndReached
  <2>1. pci_devices = << >> /\ pc # "done"
    BY DEF PciInit
  <2>2. Len(<< >>) = 0 /\ DOMAIN << >> = {}
    OBVIOUS
  <2> QED
    BY <2>1, <2>2, MaxDevicesAssumption DEF ListSound, ListBehind, EndReached
<1>3. PassedListed
  <2> SUFFICES ASSUME NEW fn \in machine.present PROVE ~ Before(fn, Cursor)
    BY DEF PassedListed
  <2>1. fn \in Places
    BY <1>1 DEF CountersOK
  <2>2. fn[1] \in Nat /\ fn[2] \in Nat /\ fn[3] \in Nat
    BY <2>1, PlaceParts
  <2>3. Cursor[1] = 0 /\ Cursor[2] = 0 /\ Cursor[3] = 0
    BY DEF PciInit, Cursor
  <2> QED
    BY <2>2, <2>3 DEF Before
<1> QED
  BY <1>1, <1>2, <1>3 DEF PciInv

(* What pci_check_device does to the list.                                 *)
LEMMA CheckDevice ==
    ASSUME NEW list \in Seq(Places), Len(list) <= MaxDevices, NEW fn \in Places
    PROVE  LET new == pci_check_device(list, fn)
           IN  /\ new \in Seq(Places) /\ Len(new) <= MaxDevices
               /\ \A i \in DOMAIN list : i \in DOMAIN new /\ new[i] = list[i]
               /\ \A i \in DOMAIN new :
                     i \in DOMAIN list \/ (i = Len(list) + 1 /\ new[i] = fn /\ Answers(fn))
               /\ \/ \E i \in DOMAIN new : new[i] = fn
                  \/ ~ Answers(fn)
                  \/ new = list /\ Len(list) = MaxDevices
<1> DEFINE new == pci_check_device(list, fn)
<1>1. CASE Answers(fn) /\ Len(list) < MaxDevices
  <2>1. new = Append(list, fn)
    BY <1>1 DEF pci_check_device
  <2>2. /\ new \in Seq(Places) /\ Len(new) = Len(list) + 1
        /\ \A i \in 1 .. Len(list) : new[i] = list[i]
        /\ new[Len(list) + 1] = fn
    BY <2>1
  <2> QED
    BY <1>1, <2>2, MaxDevicesAssumption
<1>2. CASE ~ (Answers(fn) /\ Len(list) < MaxDevices)
  <2>1. new = list
    BY <1>2 DEF pci_check_device
  <2> QED
    BY <1>2, <2>1, MaxDevicesAssumption
<1> QED
  BY <1>1, <1>2

(* The counters of the loops of pci_check_bus.                             *)
LEMMA CountersStep ==
    ASSUME PciInv, check_function
    PROVE  /\ Cursor \in Places /\ CountersOK'
           /\ Answers(Cursor) => Real(Cursor)
           /\ \A fn \in Places : Before(fn, Cursor) \/ fn = Cursor => Before(fn, Cursor')
           /\ \A fn \in machine.present :
                 Real(fn) /\ Before(fn, Cursor') => Before(fn, Cursor) \/ fn = Cursor
<1> USE DEF PciInv, check_function
<1>1. /\ machine \in [present : SUBSET Places, multi : SUBSET Slots] /\ machine' = machine
      /\ bus \in 0 .. Buses - 2 /\ device \in 0 .. Devices - 1 /\ function \in 0 .. Functions - 1
      /\ pc' = pc /\ bus' = bus /\ Len(pci_devices) <= MaxDevices
      /\ pci_devices \in Seq(Places)
  <2>1. device \in 0 .. Devices /\ device < Devices
    BY DEF CountersOK
  <2>2. device \in 0 .. Devices - 1
    BY <2>1, DevicesAssumption
  <2> QED
    BY <2>2 DEF CountersOK, ListSound
<1>2. Cursor \in Places
  BY <1>1, BusesAssumption DEF Cursor, Places
<1>3. pci_devices' \in Seq(Places)
  BY <1>1, <1>2, CheckDevice DEF Cursor
<1>4. \/ /\ LastFunction /\ function' = 0 /\ device' = device + 1
      \/ /\ ~ LastFunction /\ function' = function + 1 /\ device' = device
  OBVIOUS
<1>5. ~ LastFunction => /\ function + 1 \in 0 .. Functions - 1
                        /\ Answers(<<bus, device, 0>>) /\ <<bus, device>> \in machine.multi
  <2> SUFFICES ASSUME ~ LastFunction
               PROVE  /\ function + 1 \in 0 .. Functions - 1
                      /\ Answers(<<bus, device, 0>>) /\ <<bus, device>> \in machine.multi
    OBVIOUS
  <2>1. function + 1 # Functions
    BY DEF LastFunction
  <2>2. function + 1 \in 0 .. Functions - 1
    BY <1>1, <2>1, FunctionsAssumption
  <2>3. CASE function = 0
    BY <2>2, <2>3 DEF LastFunction, Multifunction
  <2>4. CASE function # 0
    BY <2>2, <2>4 DEF CountersOK
  <2> QED
    BY <2>3, <2>4
<1>6. CountersOK'
  <2>1. function' \in 0 .. Functions - 1 /\ device' \in 0 .. Devices
    BY <1>1, <1>4, <1>5, DevicesAssumption, FunctionsAssumption
  <2>2. function' # 0 => /\ device' < Devices /\ device' = device
                         /\ Answers(<<bus, device, 0>>) /\ <<bus, device>> \in machine.multi
    BY <1>1, <1>4, <1>5
  <2>3. pc \in {"bus_0", "buses", "done"} /\ (pc = "bus_0" => bus = 0)
    BY DEF CountersOK
  <2> QED
    BY <1>1, <1>3, <2>1, <2>2, <2>3 DEF CountersOK, Answers
<1>7. Cursor[1] = bus /\ Cursor[2] = device /\ Cursor[3] = function
  BY DEF Cursor
<1>8. Answers(Cursor) => Real(Cursor)
  BY <1>1, <1>7 DEF Real, CountersOK, Cursor
<1>9. Cursor'[1] = bus /\ Cursor'[2] = device' /\ Cursor'[3] = function'
  BY <1>1 DEF Cursor
<1>10. ASSUME NEW fn \in Places, Before(fn, Cursor) \/ fn = Cursor
       PROVE  Before(fn, Cursor')
  <2>1. fn[1] \in Int /\ fn[2] \in Int /\ fn[3] \in Int
    BY PlaceParts
  <2> QED
    BY <1>1, <1>4, <1>7, <1>9, <1>10, <2>1 DEF Before
<1>11. ASSUME NEW fn \in machine.present, Real(fn), Before(fn, Cursor')
       PROVE  Before(fn, Cursor) \/ fn = Cursor
  <2>1. fn \in Places
    BY <1>1
  <2>2. /\ fn[1] \in Int /\ fn[2] \in Int /\ fn[3] \in 0 .. Functions - 1
        /\ fn = <<fn[1], fn[2], fn[3]>>
    BY <2>1, PlaceParts
  <2>3. CASE fn[1] = bus /\ fn[2] = device
    <3>1. CASE LastFunction
      <4>1. fn[3] <= function
        BY <1>1, <1>11, <2>2, <2>3, <3>1 DEF LastFunction, Real, Multifunction, Answers
      <4> QED
        BY <1>1, <1>7, <2>2, <2>3, <4>1 DEF Before, Cursor
    <3>2. CASE ~ LastFunction
      BY <1>1, <1>4, <1>7, <1>9, <1>11, <2>2, <2>3, <3>2 DEF Before, Cursor
    <3> QED
      BY <3>1, <3>2
  <2>4. CASE ~ (fn[1] = bus /\ fn[2] = device)
    BY <1>1, <1>4, <1>7, <1>9, <1>11, <2>2, <2>4 DEF Before
  <2> QED
    BY <2>3, <2>4
<1> QED
  BY <1>2, <1>6, <1>8, <1>10, <1>11

(* Looking at one function more keeps the list sound and complete.         *)
LEMMA CheckFunctionInv ==
    ASSUME PciInv, check_function
    PROVE  PciInv'
<1> DEFINE list == pci_devices
           new == pci_devices'
<1>1. /\ Cursor \in Places /\ CountersOK'
      /\ Answers(Cursor) => Real(Cursor)
      /\ \A fn \in Places : Before(fn, Cursor) \/ fn = Cursor => Before(fn, Cursor')
      /\ \A fn \in machine.present :
            Real(fn) /\ Before(fn, Cursor') => Before(fn, Cursor) \/ fn = Cursor
  BY CountersStep
<1>2. /\ list \in Seq(Places) /\ Len(list) <= MaxDevices /\ machine' = machine /\ pc' = pc
      /\ pc # "done" /\ machine.present \subseteq Places
  BY DEF PciInv, CountersOK, ListSound, check_function
<1>3. /\ new \in Seq(Places) /\ Len(new) <= MaxDevices
      /\ \A i \in DOMAIN list : i \in DOMAIN new /\ new[i] = list[i]
      /\ \A i \in DOMAIN new :
            i \in DOMAIN list \/ (i = Len(list) + 1 /\ new[i] = Cursor /\ Answers(Cursor))
      /\ \/ \E i \in DOMAIN new : new[i] = Cursor
         \/ ~ Answers(Cursor)
         \/ new = list /\ Len(list) = MaxDevices
  <2>1. new = pci_check_device(list, Cursor)
    BY DEF check_function, Cursor
  <2> QED
    BY <1>1, <1>2, <2>1, CheckDevice
<1>4. /\ \A i \in DOMAIN list : Real(list[i]) /\ list[i] \in Places /\ Before(list[i], Cursor)
      /\ \A i, j \in DOMAIN list : i < j => Before(list[i], list[j])
  BY <1>2 DEF PciInv, ListSound, ListBehind
<1>5. \A fn : Real(fn)' = Real(fn) /\ Answers(fn)' = Answers(fn)
  BY <1>2 DEF Real, Answers
<1> HIDE DEF list, new
<1>6. ListSound'
  <2>1. ASSUME NEW i \in DOMAIN new PROVE Real(new[i])
    BY <1>1, <1>3, <1>4
  <2>2. ASSUME NEW i \in DOMAIN new, NEW j \in DOMAIN new, i < j PROVE Before(new[i], new[j])
    <3>1. CASE j \in DOMAIN list
      <4>1. i \in DOMAIN list
        BY <1>2, <1>3, <2>2, <3>1
      <4> QED
        BY <1>3, <1>4, <2>2, <3>1, <4>1
    <3>2. CASE j = Len(list) + 1 /\ new[j] = Cursor
      <4>1. i \in DOMAIN list
        BY <1>2, <1>3, <2>2, <3>2
      <4> QED
        BY <1>3, <1>4, <3>2, <4>1
    <3> QED
      BY <1>3, <3>1, <3>2
  <2> QED
    BY <1>3, <1>5, <2>1, <2>2 DEF ListSound, new
<1>7. ListBehind'
  <2>1. ASSUME NEW i \in DOMAIN new PROVE Before(new[i], Cursor')
    <3>1. new[i] \in Places /\ (Before(new[i], Cursor) \/ new[i] = Cursor)
      BY <1>1, <1>3, <1>4
    <3> QED
      BY <1>1, <3>1
  <2> QED
    BY <2>1 DEF ListBehind, new
<1>8. PassedListed'
  <2> SUFFICES ASSUME NEW fn \in machine.present, Real(fn), Before(fn, Cursor')
               PROVE  Found(fn)' \/ FullBefore(fn)'
    BY <1>2, <1>5 DEF PassedListed
  <2>1. Before(fn, Cursor) \/ fn = Cursor
    BY <1>1
  <2>2. CASE Before(fn, Cursor)
    <3>1. Found(fn) \/ FullBefore(fn)
      BY <2>2 DEF PciInv, PassedListed
    <3>2. CASE Found(fn)
      BY <1>3, <3>2 DEF Found, new, list
    <3>3. CASE FullBefore(fn)
      <4>1. Len(list) = MaxDevices /\ MaxDevices \in DOMAIN list
        BY <1>2, <3>3, MaxDevicesAssumption DEF FullBefore, list
      <4>2. Len(new) = MaxDevices /\ new[MaxDevices] = list[MaxDevices]
        BY <1>2, <1>3, <4>1, MaxDevicesAssumption
      <4> QED
        BY <3>3, <4>2 DEF FullBefore, new, list
    <3> QED
      BY <3>1, <3>2, <3>3
  <2>3. CASE fn = Cursor
    <3>1. Answers(Cursor)
      BY <2>3 DEF Answers
    <3>2. CASE \E i \in DOMAIN new : new[i] = Cursor
      BY <2>3, <3>2 DEF Found, new
    <3>3. CASE new = list /\ Len(list) = MaxDevices
      <4>1. MaxDevices \in DOMAIN list
        BY <1>2, <3>3, MaxDevicesAssumption
      <4> QED
        BY <1>4, <2>3, <3>3, <4>1 DEF FullBefore, new
    <3> QED
      BY <1>3, <3>1, <3>2, <3>3
  <2> QED
    BY <2>1, <2>2, <2>3
<1>9. EndReached'
  BY <1>2 DEF EndReached
<1> QED
  BY <1>1, <1>6, <1>7, <1>8, <1>9 DEF PciInv

(* A number below n is its own remainder.                                  *)
LEMMA SmallRemainder ==
    ASSUME NEW n \in Nat \ {0}, NEW a \in 0 .. n - 1
    PROVE  a % n = a
<1>1. n * 0 = 0
  OBVIOUS
<1>2. 0 \in Nat /\ a = n * 0 + a
  BY <1>1
<1> QED
  BY <1>2

(* The next bus is that of the counter, which does not wrap: 255 is        *)
(* compared before it would.                                               *)
LEMMA BusDoneInv ==
    ASSUME PciInv, bus_done
    PROVE  PciInv'
<1>0. CountersOK /\ ListSound /\ ListBehind /\ PassedListed /\ EndReached
  BY DEF PciInv
<1>1. /\ machine \in [present : SUBSET Places, multi : SUBSET Slots] /\ machine' = machine
      /\ bus \in 0 .. Buses - 2 /\ device = Devices /\ function = 0 /\ function' = function
      /\ pci_devices \in Seq(Places) /\ pci_devices' = pci_devices
      /\ pc \in {"bus_0", "buses"} /\ (pc = "bus_0" => bus = 0)
  <2>1. function = 0
    <3>1. ~ (device < Devices)
      BY DevicesAssumption DEF bus_done
    <3> QED
      BY <1>0, <3>1 DEF CountersOK
  <2> QED
    BY <1>0, <2>1 DEF CountersOK, bus_done
<1>2. (bus + 1) % Buses = bus + 1
  <2>1. bus + 1 \in 0 .. Buses - 1 /\ Buses \in Nat \ {0}
    BY <1>1, BusesAssumption
  <2> QED
    BY <2>1, SmallRemainder
<1>3. /\ \A fn : Real(fn)' = Real(fn) /\ Answers(fn)' = Answers(fn)
      /\ ListSound'
  BY <1>0, <1>1 DEF Real, Answers, ListSound
<1>4. CASE pc' = "done" /\ UNCHANGED <<bus, device>>
  <2>1. bus = Buses - 2 \/ (bus = 0 /\ HostBridgeSingle)
    <3>1. (pc = "bus_0" /\ HostBridgeSingle) \/ ~ (bus + 1 < Buses - 1)
      BY <1>2, <1>4 DEF bus_done, BusLeft
    <3>2. ~ (bus + 1 < Buses - 1) => bus = Buses - 2
      BY <1>1, BusesAssumption
    <3> QED
      BY <1>1, <3>1, <3>2
  <2>2. EndReached'
    BY <1>1, <1>3, <1>4, <2>1 DEF EndReached, HostBridgeSingle, Multifunction
  <2>3. CountersOK'
    BY <1>0, <1>1, <1>4 DEF CountersOK, Answers
  <2>4. ListBehind' /\ PassedListed'
    BY <1>0, <1>1, <1>3, <1>4 DEF ListBehind, PassedListed, Cursor, Found, FullBefore
  <2> QED
    BY <1>3, <2>2, <2>3, <2>4 DEF PciInv
<1>5. CASE pc' = "buses" /\ bus' = bus + 1 /\ device' = 0 /\ BusLeft(bus + 1)
  <2>1. bus + 1 \in 0 .. Buses - 2
    <3>1. bus + 1 < Buses - 1
      BY <1>5 DEF BusLeft
    <3> QED
      BY <1>1, <3>1, BusesAssumption
  <2>2. CountersOK'
    <3>1. 0 \in 0 .. Devices
      BY DevicesAssumption
    <3> QED
      BY <1>0, <1>1, <1>5, <2>1, <3>1 DEF CountersOK
  <2>3. ASSUME NEW fn \in Places PROVE Before(fn, Cursor') <=> Before(fn, Cursor)
    <3>1. fn[1] \in Int /\ fn[2] \in 0 .. Devices - 1 /\ fn[3] \in Nat
      BY PlaceParts
    <3>2. /\ Cursor[1] = bus /\ Cursor[2] = Devices /\ Cursor[3] = 0
          /\ Cursor'[1] = bus + 1 /\ Cursor'[2] = 0 /\ Cursor'[3] = 0
      BY <1>1, <1>5 DEF Cursor
    <3>3. bus \in Int /\ Devices \in Int
      BY <1>1, DevicesAssumption
    <3> QED
      BY <3>1, <3>2, <3>3 DEF Before
  <2>4. ListBehind' /\ PassedListed'
    <3>1. \A i \in DOMAIN pci_devices : pci_devices[i] \in Places
      BY <1>1
    <3>2. ListBehind'
      BY <1>0, <1>1, <2>3, <3>1 DEF ListBehind
    <3>3. machine.present \subseteq Places
      BY <1>1
    <3>4. PassedListed'
      BY <1>0, <1>1, <1>3, <2>3, <3>3 DEF PassedListed, Found, FullBefore
    <3> QED
      BY <3>2, <3>4
  <2>5. EndReached'
    BY <1>5 DEF EndReached
  <2> QED
    BY <1>3, <2>2, <2>4, <2>5 DEF PciInv
<1> QED
  BY <1>2, <1>4, <1>5 DEF bus_done

(* The scan keeps the invariant to its end.                                *)
LEMMA PciInvariant == PciSpec => []PciInv
<1>1. ASSUME PciInv, UNCHANGED pci_vars PROVE PciInv'
  <2>1. CountersOK' /\ EndReached'
    BY <1>1 DEF pci_vars, PciInv, CountersOK, EndReached, HostBridgeSingle, Multifunction, Answers
  <2>2. ListSound'
    BY <1>1 DEF pci_vars, PciInv, ListSound, Real, Answers
  <2>3. ListBehind' /\ PassedListed'
    BY <1>1 DEF pci_vars, PciInv, ListBehind, PassedListed, Cursor, Real, Answers, Found, FullBefore
  <2> QED
    BY <2>1, <2>2, <2>3 DEF PciInv
<1>2. PciInv /\ [pci_init]_pci_vars => PciInv'
  BY <1>1, CheckFunctionInv, BusDoneInv DEF pci_init
<1> QED
  BY <1>2, PciInitInv, PTL DEF PciSpec

(* What pci_init has put into pci_devices is real, in order and within the *)
(* array, on every machine.                                                *)
THEOREM PciListSound == PciSpec => []ListSound
<1>1. PciInv => ListSound
  BY DEF PciInv
<1> QED
  BY <1>1, PciInvariant, PTL

(* On every machine a real function that pci_init leaves out is missing    *)
(* for one of three reasons: the array was full before it, the host bridge *)
(* has a single function, or it is on the bus the loop does not reach.     *)
THEOREM PciMissingExplained == PciSpec => []MissingExplained
<1>1. PciInv => MissingExplained
  <2> SUFFICES ASSUME PciInv, pc = "done", NEW fn \in machine.present, Real(fn),
                      fn \notin ToSet(pci_devices)
               PROVE  \/ FullBefore(fn)
                      \/ /\ fn[1] # 0
                         /\ Answers(<<0, 0, 0>>) /\ <<0, 0>> \notin machine.multi
                      \/ fn[1] = Buses - 1
    BY DEF MissingExplained, FullBefore
  <2>1. fn \in Places /\ device = Devices /\ bus \in 0 .. Buses - 2
        /\ (bus = Buses - 2 \/ (bus = 0 /\ HostBridgeSingle))
    BY DEF PciInv, CountersOK, EndReached
  <2>2. /\ fn[1] \in 0 .. Buses - 1 /\ fn[2] \in 0 .. Devices - 1
    BY <2>1, PlaceParts
  <2>3. CASE Before(fn, Cursor)
    BY <2>3 DEF PciInv, PassedListed, Found, ToSet
  <2>4. CASE ~ Before(fn, Cursor)
    <3>1. fn[1] > bus
      BY <2>1, <2>2, <2>4, DevicesAssumption DEF Before, Cursor
    <3> QED
      BY <2>1, <2>2, <3>1, BusesAssumption DEF HostBridgeSingle, Multifunction
  <2> QED
    BY <2>3, <2>4
<1> QED
  BY <1>1, PciInvariant, PTL

=============================================================================
