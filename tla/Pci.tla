-------------------------------- MODULE Pci --------------------------------
(***************************************************************************)
(* The enumeration of PCI functions, kernel/modules/pci/pci.c: bus 0, and  *)
(* the other buses if the host bridge says that it has several functions.  *)
(*                                                                         *)
(* External: configuration space.  A function that is present answers; a   *)
(* read of an absent one returns all ones.  A device that is not marked    *)
(* multifunction may answer for every function number all the same.        *)
(***************************************************************************)
EXTENDS Naturals, SequencesExt

CONSTANTS
    Buses,         \* 256: what a uint8_t counts
    Devices,       \* 32
    Functions,     \* 8
    MaxDevices,    \* PCI_MAX_DEVICES
    Machines       \* configuration spaces: [present, multi]

ASSUME BusesAssumption == Buses \in Nat \ {0, 1}
ASSUME DevicesAssumption == Devices \in Nat \ {0}
ASSUME FunctionsAssumption == Functions \in Nat \ {0}
ASSUME MaxDevicesAssumption == MaxDevices \in Nat \ {0}

Slots == (0 .. Buses - 1) \X (0 .. Devices - 1)
Places == (0 .. Buses - 1) \X (0 .. Devices - 1) \X (0 .. Functions - 1)

ASSUME MachinesAssumption == Machines \subseteq [present : SUBSET Places, multi : SUBSET Slots]

VARIABLES
    machine,       \* present: the <<bus, device, function>> that answer;
                   \* multi: the <<bus, device>> marked multifunction
    pc,            \* "bus_0", "buses" or "done"
    bus, device, function,   \* the loop counters
    pci_devices    \* the entries in use; pci_device_count is its length

pci_vars == <<machine, pc, bus, device, function, pci_devices>>

PciInit ==
    /\ machine \in Machines
    /\ pc = "bus_0"
    /\ bus = 0 /\ device = 0 /\ function = 0
    /\ pci_devices = << >>

-----------------------------------------------------------------------------
(* The vendor in the first register is not PCI_VENDOR_INVALID.             *)
Answers(fn) == fn \in machine.present

(* Bit 7 of the header type; it is set in all ones.                        *)
Multifunction(b, d) == Answers(<<b, d, 0>>) => <<b, d>> \in machine.multi

(* Mutant: the limit is looked at after the entry has been taken.          *)
pci_check_device_late(list, fn) ==
    IF Answers(fn) /\ Len(list) <= MaxDevices THEN Append(list, fn) ELSE list

pci_check_device(list, fn) ==
    IF Answers(fn) /\ Len(list) < MaxDevices THEN Append(list, fn) ELSE list

(* An absent function 0 is passed over, and the other numbers are looked   *)
(* at on a multifunction device only.                                      *)
LastFunction ==
    \/ function + 1 = Functions
    \/ function = 0 /\ ~ (Answers(<<bus, device, 0>>) /\ Multifunction(bus, device))

(* One function in the loops of pci_check_bus.                             *)
check_function ==
    /\ pc # "done"
    /\ device < Devices
    /\ pci_devices' = pci_check_device(pci_devices, <<bus, device, function>>)
    /\ IF LastFunction
       THEN function' = 0 /\ device' = device + 1
       ELSE function' = function + 1 /\ UNCHANGED device
    /\ UNCHANGED <<machine, pc, bus>>

(* Mutants: the test is true of every uint8_t; the test is turned round.   *)
BusLeft_always(b) == b <= Buses - 1
HostBridgeSingle_not == Multifunction(0, 0)

BusLeft(b) == b < Buses - 1

HostBridgeSingle == ~ Multifunction(0, 0)

bus_done ==
    /\ pc # "done"
    /\ device = Devices
    /\ IF \/ pc = "bus_0" /\ HostBridgeSingle
          \/ ~ BusLeft((bus + 1) % Buses)
       THEN pc' = "done" /\ UNCHANGED <<bus, device>>
       ELSE pc' = "buses" /\ bus' = (bus + 1) % Buses /\ device' = 0
    /\ UNCHANGED <<machine, function, pci_devices>>

pci_init == check_function \/ bus_done

PciSpec == PciInit /\ [][pci_init]_pci_vars /\ WF_pci_vars(pci_init)

-----------------------------------------------------------------------------
(* Properties                                                              *)

(* A function of the machine, as the standard counts them: number 0 of a   *)
(* device that is there, or another number of a multifunction device.      *)
Real(fn) ==
    /\ Answers(fn) /\ Answers(<<fn[1], fn[2], 0>>)
    /\ fn[3] = 0 \/ <<fn[1], fn[2]>> \in machine.multi

Before(x, y) ==
    \/ x[1] < y[1]
    \/ x[1] = y[1] /\ x[2] < y[2]
    \/ x[1] = y[1] /\ x[2] = y[2] /\ x[3] < y[3]

(* Whatever the machine looks like, the list never outgrows the array and  *)
(* holds real functions only, each once, in the order of their addresses:  *)
(* no alias of a device that ignores the function number, nothing that all *)
(* ones could be taken for.                                                *)
ListSound ==
    /\ Len(pci_devices) <= MaxDevices
    /\ \A i \in DOMAIN pci_devices : Real(pci_devices[i])
    /\ \A i, j \in DOMAIN pci_devices : i < j => Before(pci_devices[i], pci_devices[j])

(* A real function is missing in the end only because the array was full   *)
(* (and then everything in it comes first), because it is behind a bridge  *)
(* of a machine whose host bridge has a single function, or because it is  *)
(* on the last bus, which the loop leaves out.                             *)
MissingExplained ==
    pc = "done" =>
        \A fn \in machine.present :
            Real(fn) /\ fn \notin ToSet(pci_devices) =>
                \/ /\ Len(pci_devices) = MaxDevices
                   /\ Before(pci_devices[MaxDevices], fn)
                \/ /\ fn[1] # 0
                   /\ Answers(<<0, 0, 0>>) /\ <<0, 0>> \notin machine.multi
                \/ fn[1] = Buses - 1

(* The loop over a uint8_t ends.                                           *)
ScanEnds == <>(pc = "done")
=============================================================================
