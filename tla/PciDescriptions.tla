---------------------------- MODULE PciDescriptions ----------------------------
(***************************************************************************)
(* devices/pci/descriptors.c: names for the numbers in a PCI header.  A    *)
(* name counts as one character.  A number without a name is returned as   *)
(* Unnamed: the function returns what itoa makes of it.  The cases of the  *)
(* outer switches do not break: class 3 goes on into 6 or 12, and 1 into   *)
(* 3, when nothing is returned.                                            *)
(***************************************************************************)
EXTENDS Strings

PCI_DEVICE_CLASSES ==
  <<"Unclassified", "Mass Storage Controller", "Network Controller",
    "Display Controller", "Multimedia Controller", "Memory Controller",
    "Bridge Device", "Simple Communication Controller",
    "Base System Peripheral", "Input Device Controller", "Docking Station",
    "Processor", "Serial Bus Controller", "Wireless Controller",
    "Intelligent Controller", "Satellite Communication Controller",
    "Encryption Controller", "Signal Processing Controller",
    "Processing Accelerator", "Non Essential Instrumentation">>

MassStorageNames ==
  <<"SCSI Bus Controller", "IDE Controller", "Floppy Disk Controller",
    "IPI Bus Controller", "RAID Controller", "ATA Controller", "Serial ATA",
    "Serial Attached SCSI", "Non-Volatile Memory Controller">>

SerialBusNames ==
  <<"FireWire (IEEE 1394) Controller", "ACCESS Bus", "SSA", "USB Controller",
    "Fibre Channel", "SMBus", "Infiniband", "IPMI Interface",
    "SERCOS Interface (IEC 61491)", "CANbus">>

BridgeNames ==
  <<"Host Bridge", "ISA Bridge", "EISA Bridge", "MCA Bridge",
    "PCI-to-PCI Bridge", "PCMCIA Bridge", "NuBus Bridge", "CardBus Bridge",
    "RACEway Bridge", "PCI-to-PCI Bridge", "InfiniBand-to-PCI Host Bridge">>

StorageInterfaces == <<"Vendor Specific Interface", "AHCI 1.0", "Serial Storage Bus">>
DisplayInterfaces == <<"VGA Controller", "8514-Compatible Controller">>
UsbInterfaces ==
  [c \in {0, 16, 32, 48, 128, 254} |->
     CASE c = 0   -> "UHCI Controller"
       [] c = 16  -> "OHCI Controller"
       [] c = 32  -> "EHCI (USB2) Controller"
       [] c = 48  -> "XHCI (USB3) Controller"
       [] c = 128 -> "Unspecified"
       [] c = 254 -> "USB Device (Not a Host Controller)"]

INTEL == 32902   \* 0x8086
VendorNames ==
  [v \in {INTEL, 4130, 4318, 4660} |->
     CASE v = INTEL -> "Intel Corporation"
       [] v = 4130  -> "Advanced Micro Devices, Inc."
       [] v = 4318  -> "NVIDIA Corporation"
       [] v = 4660  -> "QEMU"]
IntelDevices ==
  [d \in {10688, 10520, 10530, 10544} |->
     CASE d = 10688 -> "Express DRAM Controller"
       [] d = 10520 -> "LPC Interface Controller"
       [] d = 10530 -> "6 port SATA Controller [AHCI mode]"
       [] d = 10544 -> "SMBus Controller"]

-----------------------------------------------------------------------------
Members(f) == {f[k] : k \in DOMAIN f}

Names ==
  Members(PCI_DEVICE_CLASSES) \cup Members(MassStorageNames) \cup Members(SerialBusNames)
    \cup Members(BridgeNames) \cup Members(StorageInterfaces)
    \cup Members(DisplayInterfaces) \cup Members(UsbInterfaces)
    \cup Members(VendorNames) \cup Members(IntelDevices)
    \cup {"Other", "SerialBusController - Other", "VGA Compatible Controller"}

ASSUME NamesAssumption == Names \subseteq Char

Named(name)   == [name |-> name, number |-> 0]
Unnamed(code) == [name |-> NUL, number |-> code]

(* From a switch over consecutive codes, and over codes far apart. *)
NameIn(names, code) ==
  IF code + 1 \in DOMAIN names THEN Named(names[code + 1]) ELSE Unnamed(code)
NameOf(names, code) ==
  IF code \in DOMAIN names THEN Named(names[code]) ELSE Unnamed(code)

pci_get_vendor_name(vendor) == NameOf(VendorNames, vendor)

pci_get_device_name(vendor, device) ==
  IF vendor = INTEL THEN NameOf(IntelDevices, device) ELSE Unnamed(device)

pci_get_mass_storage_controller_subclass_name(subclass) ==
  IF subclass = 128 THEN Named("Other") ELSE NameIn(MassStorageNames, subclass)

pci_get_serial_bus_controller_subclass_name(subclass) ==
  IF subclass = 128 THEN Named("SerialBusController - Other")
  ELSE NameIn(SerialBusNames, subclass)

pci_get_bridge_device_subclass_name(subclass) ==
  IF subclass = 128 THEN Named("Other") ELSE NameIn(BridgeNames, subclass)

(* Mutant: mass storage goes on into the next case like the display. *)
SubclassFallingThrough(class, subclass) ==
  IF class = 3 /\ subclass = 0 THEN Named("VGA Compatible Controller")
  ELSE IF class \in {1, 3, 6} THEN pci_get_bridge_device_subclass_name(subclass)
  ELSE IF class = 12 THEN pci_get_serial_bus_controller_subclass_name(subclass)
  ELSE Unnamed(subclass)

pci_get_subclass_name(class, subclass) ==
  IF class = 1 THEN pci_get_mass_storage_controller_subclass_name(subclass)
  ELSE IF class = 3 /\ subclass = 0 THEN Named("VGA Compatible Controller")
  ELSE IF class \in {3, 6} THEN pci_get_bridge_device_subclass_name(subclass)
  ELSE IF class = 12 THEN pci_get_serial_bus_controller_subclass_name(subclass)
  ELSE Unnamed(subclass)

pci_get_program_interface_name(class, subclass, interface) ==
  IF class = 1 /\ subclass = 6 /\ interface <= 2
    THEN NameIn(StorageInterfaces, interface)
  ELSE IF class \in {1, 3} /\ subclass = 0 /\ interface <= 1
    THEN NameIn(DisplayInterfaces, interface)
  ELSE IF class \in {1, 3, 12} /\ subclass = 3
    THEN NameOf(UsbInterfaces, interface)
  ELSE Unnamed(interface)
=============================================================================
