---------------------------- MODULE KernelLogProofs ----------------------------
(***************************************************************************)
(* Proofs about the log, for buffers, screens and fonts of any size, any   *)
(* messages and any number of calls.                                       *)
(***************************************************************************)
EXTENDS KernelLog, SequenceTheorems, FiniteSetTheorems, WellFoundedInduction, TLAPS

(* From the place of a pointer on there are digits up to the last cell. *)
Sound(pointer, b) == pointer.at # 0 => \A c \in pointer.at .. LAST_CELL : b[c] \in Char

(* What an argument refers to is there, and what itoa has written so far.  *)
(* Without it a string in the buffer could hold a NUL, and a line built    *)
(* from it would not be a text.                                            *)
PointersSound ==
  /\ itoa.i <= LAST_CELL
  /\ \A c \in itoa.i + 1 .. LAST_CELL : buf[c] \in Char
  /\ \A k \in DOMAIN names : Sound(names[k].string, buf)
  /\ \A k \in DOMAIN args : Sound(args[k].string, buf)

LogInv == LogTypeOK /\ PointersSound /\ PointerKept

-----------------------------------------------------------------------------
LEMMA CellsTyped ==
  /\ ITOA_CELLS \in Nat /\ LAST_CELL \in Nat /\ LAST_CELL >= 1
  /\ ITOA_CELLS = LAST_CELL + 2
BY StringsAssumption DEF LAST_CELL

LEMMA DigitsTyped == \A n \in 0 .. 15 : Digits[n + 1] \in Char
<1>1. \A n \in 0 .. 15 : n + 1 \in 1 .. 16
  OBVIOUS
<1> QED
  BY <1>1, StringsAssumption

LEMMA OneCharacter == \A c \in Char : <<c>> \in Texts
BY DEF Texts

LEMMA LiteralTyped ==
  ASSUME NEW text \in Texts
  PROVE  Literal(text) \in Pointer /\ \A b : Sound(Literal(text), b)
BY CellsTyped DEF Literal, Pointer, Sound

LEMMA ArgumentTyped ==
  ASSUME NEW pointer \in Pointer
  PROVE  String(pointer) \in Argument /\ String(pointer).string = pointer
BY DEF String, Argument, Cell

LEMMA EmptyText == <<>> \in Texts
BY DEF Texts

(* What a string in the buffer says is a text. *)
LEMMA TextOfTyped ==
  ASSUME NEW pointer \in Pointer, NEW b, Sound(pointer, b)
  PROVE  TextOf(pointer, b) \in Texts
<1>1. CASE pointer.at = 0
  BY <1>1 DEF TextOf, Pointer
<1>2. CASE pointer.at # 0
  <2>1. pointer.at \in 1 .. LAST_CELL
    BY <1>2, CellsTyped DEF Pointer
  <2>2. ITOA_CELLS - 1 - pointer.at \in Nat
    BY <2>1, CellsTyped
  <2>3. \A k \in 1 .. ITOA_CELLS - 1 - pointer.at : b[pointer.at + k - 1] \in Char
    <3> TAKE k \in 1 .. ITOA_CELLS - 1 - pointer.at
    <3>1. pointer.at + k - 1 \in pointer.at .. LAST_CELL
      BY <2>1, CellsTyped
    <3> QED
      BY <3>1, <1>2 DEF Sound
  <2>4. [k \in 1 .. ITOA_CELLS - 1 - pointer.at |-> b[pointer.at + k - 1]] \in Seq(Char)
    BY <2>2, <2>3, IsASeq
  <2> QED
    BY <1>2, <2>4 DEF TextOf, Texts
<1> QED
  BY <1>1, <1>2

LEMMA StrcatTyped ==
  ASSUME NEW dest \in Texts, NEW pointer \in Pointer, NEW b, Sound(pointer, b)
  PROVE  strcat(dest, pointer, b) \in Texts
<1>1. TextOf(pointer, b) \in Texts
  BY TextOfTyped
<1> QED
  BY <1>1 DEF strcat, Texts

LEMMA StrchrcatTyped ==
  ASSUME NEW dest \in Texts, NEW character \in Cell
  PROVE  strchrcat(dest, character) \in Texts
BY DEF strchrcat, Texts, Cell

-----------------------------------------------------------------------------
(* itoa's loop writes a digit below the ones it has written.               *)
LEMMA DigitTyped ==
  ASSUME LogTypeOK, PointersSound, ~ ItoaDone(itoa)
  PROVE  /\ ItoaDigit(itoa, buf) \in Buffer
         /\ ItoaDigit(itoa, buf)[LAST_CELL + 1] = NUL
         /\ ItoaDigit(itoa, buf)[itoa.i] \in Char
         /\ \A c \in 0 .. LAST_CELL : buf[c] \in Char => ItoaDigit(itoa, buf)[c] \in Char
<1> DEFINE digit == Digits[(itoa.val % itoa.base) + 1]
<1>1. /\ itoa \in Conversion /\ itoa.i \in 1 .. LAST_CELL
      /\ itoa.val \in Nat /\ itoa.base \in {10, 16}
  BY CellsTyped DEF LogTypeOK, PointersSound, ItoaDone, Conversion
<1>2. itoa.val % itoa.base \in 0 .. 15
  BY <1>1
<1>3. digit \in Char
  BY <1>2, DigitsTyped
<1>4. /\ buf \in [0 .. ITOA_CELLS - 1 -> Cell] /\ buf[LAST_CELL + 1] = NUL
  BY DEF LogTypeOK, Buffer
<1>5. ItoaDigit(itoa, buf) = [buf EXCEPT ![itoa.i] = digit]
  BY DEF ItoaDigit
<1>6. itoa.i \in 0 .. ITOA_CELLS - 1 /\ LAST_CELL + 1 \in 0 .. ITOA_CELLS - 1
      /\ itoa.i # LAST_CELL + 1 /\ 0 .. LAST_CELL \subseteq 0 .. ITOA_CELLS - 1
  BY <1>1, CellsTyped
<1> HIDE DEF digit
<1> QED
  BY <1>3, <1>4, <1>5, <1>6 DEF Buffer, Cell

LEMMA ItoaStringTyped ==
  ASSUME LogTypeOK, PointersSound
  PROVE  ItoaString(itoa) \in Pointer /\ Sound(ItoaString(itoa), buf)
<1>1. CASE itoa.i = LAST_CELL
  <2>1. "0" \in Char
    <3>1. Digits[1] = "0"
      BY DEF Digits
    <3> QED
      BY <3>1, DigitsTyped
  <2> QED
    BY <1>1, <2>1, OneCharacter, LiteralTyped DEF ItoaString
<1>2. CASE itoa.i # LAST_CELL
  <2>1. itoa.i + 1 \in 0 .. LAST_CELL
    BY <1>2, CellsTyped DEF LogTypeOK, PointersSound, Conversion
  <2> QED
    BY <1>2, <2>1, EmptyText DEF ItoaString, Pointer, Sound, PointersSound
<1> QED
  BY <1>1, <1>2

LEMMA ItoaBeginTyped ==
  ASSUME NEW val \in Nat, NEW base \in {10, 16}
  PROVE  /\ ItoaBegin(val, base) \in Conversion
         /\ ItoaBegin(val, base).i = LAST_CELL
BY CellsTyped DEF ItoaBegin, Conversion

(* A write keeps the text within the buffer, and damages the pointer only  *)
(* when it fills it.                                                       *)
LEMMA WriteTyped ==
  ASSUME LogInv,
         NEW written, written = boutcon_write_no_display(console, line)
  PROVE  /\ written \in BasicOutputConsole
         /\ Len(written.text) <= OUTBUFFER_SIZE
         /\ Len(written.text) = OUTBUFFER_SIZE => written.framebuffer = 0
         /\ written.framebuffer # given => Len(written.text) = OUTBUFFER_SIZE
<1>1. /\ console \in BasicOutputConsole /\ line \in Texts
      /\ console.text \in Seq(Char) /\ line \in Seq(Char)
      /\ console.framebuffer \in 0 .. 255
  BY DEF LogInv, LogTypeOK, BasicOutputConsole, Texts
<1>2. Len(console.text) \in Nat /\ Len(line) \in Nat
  BY <1>1
<1>3. CASE OUTBUFFER_SIZE - Len(console.text) < Len(line)
  BY <1>1, <1>3 DEF boutcon_write_no_display, LogInv, PointerKept
<1>4. CASE ~ (OUTBUFFER_SIZE - Len(console.text) < Len(line))
  <2> DEFINE text == strcat(console.text, Literal(line), <<>>)
  <2>1. text = console.text \o line
    BY DEF strcat, TextOf, Literal
  <2>0. console.text \o line \in Seq(Char)
        /\ Len(console.text \o line) = Len(console.text) + Len(line)
    BY <1>1, ConcatProperties
  <2>2. text \in Seq(Char) /\ Len(text) = Len(console.text) + Len(line)
    <3> HIDE DEF text
    <3> QED BY <2>1, <2>0
  <2>3. Len(text) <= OUTBUFFER_SIZE
    BY <2>2, <1>2, <1>4, ConsoleAssumption
  <2>4. written = [text |-> text,
                   framebuffer |-> IF Len(text) = OUTBUFFER_SIZE THEN 0 ELSE console.framebuffer]
    BY <1>4 DEF boutcon_write_no_display
  <2>5. console.framebuffer # given => Len(text) = OUTBUFFER_SIZE
    BY <2>2, <2>3, <1>2, ConsoleAssumption DEF LogInv, PointerKept
  <2> HIDE DEF text
  <2>6. /\ written.text = text
        /\ written.framebuffer = IF Len(text) = OUTBUFFER_SIZE THEN 0 ELSE console.framebuffer
    BY <2>4
  <2>7. written \in BasicOutputConsole
    BY <2>2, <2>4, <1>1 DEF BasicOutputConsole, Texts
  <2>8. written.framebuffer # given => Len(written.text) = OUTBUFFER_SIZE
    BY <2>5, <2>6
  <2> QED
    BY <2>3, <2>6, <2>7, <2>8
<1> QED
  BY <1>3, <1>4

LEMMA ScreenTyped ==
  ASSUME NEW s \in Screen, NEW c \in Char, NEW at, OnScreen(at)
  PROVE  fb_psf_draw_character(s, c, at) \in Screen
BY DEF Screen, OnScreen, fb_psf_draw_character

LEMMA ClearTyped == fb_clear \in Screen
BY ConsoleAssumption DEF fb_clear, Screen

LEMMA PlacedTyped ==
  ASSUME NEW c, NEW at \in [x : Nat, y : Nat]
  PROVE  Placed(at, c) \in [x : Nat, y : Nat]
BY ConsoleAssumption DEF Placed

-----------------------------------------------------------------------------
(* What a description is: a name, or a number for itoa.                    *)
Description == [name : Cell, number : Nat]

LEMMA NamedTyped ==
  /\ \A name \in Names : Named(name) \in Description
  /\ \A code \in Nat : Unnamed(code) \in Description
BY NamesAssumption DEF Named, Unnamed, Description, Cell

LEMMA NameInTyped ==
  ASSUME NEW table, Members(table) \subseteq Names, NEW code \in Nat
  PROVE  NameIn(table, code) \in Description /\ NameOf(table, code) \in Description
BY NamedTyped DEF NameIn, NameOf, Members

LEMMA TablesNamed ==
  /\ Members(PCI_DEVICE_CLASSES) \subseteq Names /\ Members(MassStorageNames) \subseteq Names
  /\ Members(SerialBusNames) \subseteq Names /\ Members(BridgeNames) \subseteq Names
  /\ Members(StorageInterfaces) \subseteq Names /\ Members(DisplayInterfaces) \subseteq Names
  /\ Members(UsbInterfaces) \subseteq Names /\ Members(VendorNames) \subseteq Names
  /\ Members(IntelDevices) \subseteq Names
  /\ {"Other", "SerialBusController - Other", "VGA Compatible Controller"} \subseteq Names
BY DEF Names

LEMMA SubclassTyped ==
  ASSUME NEW class \in Nat, NEW subclass \in Nat
  PROVE  pci_get_subclass_name(class, subclass) \in Description
<1>1. pci_get_mass_storage_controller_subclass_name(subclass) \in Description
  BY TablesNamed, NamedTyped, NameInTyped DEF pci_get_mass_storage_controller_subclass_name
<1>2. pci_get_bridge_device_subclass_name(subclass) \in Description
  BY TablesNamed, NamedTyped, NameInTyped DEF pci_get_bridge_device_subclass_name
<1>3. pci_get_serial_bus_controller_subclass_name(subclass) \in Description
  BY TablesNamed, NamedTyped, NameInTyped DEF pci_get_serial_bus_controller_subclass_name
<1> QED
  BY <1>1, <1>2, <1>3, TablesNamed, NamedTyped DEF pci_get_subclass_name

LEMMA DescribedTyped ==
  ASSUME NEW k \in 1 .. 5, NEW d \in DeviceHeader,
         k = 3 => d.device_class + 1 \in DOMAIN PCI_DEVICE_CLASSES
  PROVE  Described(k, d) \in Description
<1>1. /\ d.vendor_id \in Nat /\ d.device_id \in Nat /\ d.device_class \in Nat
      /\ d.device_subclass \in Nat /\ d.program_interface \in Nat
  BY DEF DeviceHeader
<1>2. CASE k = 1
  <2>1. NameOf(VendorNames, d.vendor_id) \in Description
    BY <1>1, TablesNamed, NameInTyped
  <2>2. Described(k, d) = NameOf(VendorNames, d.vendor_id)
    BY <1>2 DEF Described, pci_get_vendor_name
  <2> QED
    BY <2>1, <2>2
<1>3. CASE k = 2
  <2>1. NameOf(IntelDevices, d.device_id) \in Description
    BY <1>1, TablesNamed, NameInTyped
  <2>2. pci_get_device_name(d.vendor_id, d.device_id) \in Description
    BY <1>1, <2>1, NamedTyped DEF pci_get_device_name
  <2>3. Described(k, d) = pci_get_device_name(d.vendor_id, d.device_id)
    BY <1>3 DEF Described
  <2> QED
    BY <2>2, <2>3
<1>4. CASE k = 3
  <2>1. PCI_DEVICE_CLASSES[d.device_class + 1] \in Names
    BY <1>4, TablesNamed DEF Members
  <2> QED
    BY <1>4, <2>1, NamedTyped DEF Described
<1>5. CASE k = 4
  BY <1>1, <1>5, SubclassTyped DEF Described
<1>6. CASE k = 5
  <2>1. pci_get_program_interface_name(d.device_class, d.device_class, d.program_interface)
          \in Description
    BY <1>1, TablesNamed, NamedTyped, NameInTyped DEF pci_get_program_interface_name
  <2> QED
    BY <1>6, <2>1 DEF Described
<1> QED
  BY <1>2, <1>3, <1>4, <1>5, <1>6

-----------------------------------------------------------------------------
(* What the steps of klogf keep of the format and of the arguments.        *)
LEMMA TakenTyped ==
  ASSUME LogInv, NEW n \in 0 .. 2, NEW k \in 0 .. 1, n <= Len(fmt), k <= Len(args),
         Takes(n, k)
  PROVE  /\ fmt' \in Texts /\ args' \in Seq(Argument)
         /\ \A j \in DOMAIN args' : \E l \in DOMAIN args : args'[j] = args[l]
<1>1. fmt \in Seq(Char) /\ args \in Seq(Argument)
  BY DEF LogInv, LogTypeOK, Texts
<1>2. Len(fmt) \in Nat /\ Len(args) \in Nat
  BY <1>1
<1>3. \A i \in n + 1 .. Len(fmt) : i \in 1 .. Len(fmt)
  BY <1>2
<1>4. \A i \in k + 1 .. Len(args) : i \in 1 .. Len(args)
  BY <1>2
<1>5. fmt' \in Seq(Char)
  BY <1>1, <1>2, <1>3, SubSeqProperties DEF Takes
<1>6. /\ args' \in Seq(Argument)
      /\ \A j \in 1 .. Len(args') : k + j \in 1 .. Len(args) /\ args'[j] = args[k + j]
  BY <1>1, <1>2, <1>4, SubSeqProperties DEF Takes
<1>7. DOMAIN args' = 1 .. Len(args') /\ DOMAIN args = 1 .. Len(args)
  BY <1>1, <1>6
<1>8. \A j \in DOMAIN args' : \E l \in DOMAIN args : args'[j] = args[l]
  <2> TAKE j \in DOMAIN args'
  <2>1. k + j \in DOMAIN args /\ args'[j] = args[k + j]
    BY <1>6, <1>7
  <2> QED
    BY <2>1
<1> QED
  BY <1>5, <1>6, <1>8 DEF Texts

(* A step of klogf that leaves itoa's buffer alone. *)
LEMMA ReadsTyped ==
  ASSUME LogInv, NEW n \in 0 .. 2, NEW k \in 0 .. 1, n <= Len(fmt), k <= Len(args),
         NEW written \in Texts, Reads(n, k, written)
  PROVE  LogInv'
<1>1. /\ fmt' \in Texts /\ args' \in Seq(Argument)
      /\ \A j \in DOMAIN args' : \E l \in DOMAIN args : args'[j] = args[l]
  BY TakenTyped DEF Reads
<1>2. LogTypeOK'
  BY <1>1 DEF Reads, Appended, LogInv, LogTypeOK, logger, call
<1>3. PointersSound'
  BY <1>1 DEF Reads, LogInv, PointersSound, Sound
<1>4. PointerKept'
  BY DEF Reads, LogInv, PointerKept, logger
<1> QED
  BY <1>2, <1>3, <1>4 DEF LogInv

(* Evaluating an argument of the description. *)
LEMMA EvaluatedTyped ==
  ASSUME LogInv, NEW k \in 1 .. 5, NEW string \in Pointer, Sound(string, buf),
         Evaluated(k, string),
         UNCHANGED <<logger, buf, itoa, slot, fmt, args, line, device, called, calls>>,
         pc' \in {"describe"}
  PROVE  LogInv'
<1>1. PICK known \in SUBSET (1 .. 5) : names \in [known -> Argument]
  BY DEF LogInv, LogTypeOK
<1>2. String(string) \in Argument /\ String(string).string = string
  BY ArgumentTyped
<1>3. /\ names' \in [known \cup {k} -> Argument]
      /\ \A j \in DOMAIN names' : names'[j] = String(string) \/ (j \in DOMAIN names /\ names'[j] = names[j])
  BY <1>1, <1>2 DEF Evaluated
<1>4. known \cup {k} \in SUBSET (1 .. 5)
  BY <1>1
<1>5. LogTypeOK'
  BY <1>3, <1>4 DEF LogInv, LogTypeOK, logger
<1>6. PointersSound'
  <2>1. \A j \in DOMAIN names' : Sound(names'[j].string, buf)
    BY <1>2, <1>3 DEF LogInv, PointersSound
  <2> QED
    BY <2>1 DEF LogInv, PointersSound, Sound
<1>7. PointerKept'
  BY DEF LogInv, PointerKept, logger
<1> QED
  BY <1>5, <1>6, <1>7 DEF LogInv

(* A call of klogf begins: the arguments come from a message. *)
LEMMA MessageSound ==
  ASSUME NEW m \in Messages \cup {Banner}
  PROVE  /\ m \in Message /\ m.fmt \in Texts /\ m.args \in Seq(Argument)
         /\ [fmt |-> m.fmt, args |-> m.args] \in Message
         /\ \A k \in DOMAIN m.args : \A b : Sound(m.args[k].string, b)
BY LogAssumption DEF Message, Sound

LEMMA LogInitially == Init => LogInv
<1> SUFFICES ASSUME Init PROVE LogInv
  OBVIOUS
<1>1. itoa \in Conversion /\ itoa.i = LAST_CELL
  BY ItoaBeginTyped DEF Init
<1>2. buf \in Buffer /\ buf[LAST_CELL + 1] = NUL
  BY CellsTyped DEF Init, Buffer, Cell
<1>3. console \in BasicOutputConsole /\ screen \in Screen /\ console.text = <<>>
      /\ console.framebuffer = given /\ given \in 0 .. 255
  BY ClearTyped, EmptyText DEF Init, boutcon_init, BasicOutputConsole
<1>4. device \in DeviceHeader /\ called \in Message /\ args \in Seq(Argument)
  BY EmptyText DEF Init, DeviceHeader, Message
<1>5. \E known \in SUBSET (1 .. 5) : names \in [known -> Argument]
  <2>1. names \in [{} -> Argument]
    BY DEF Init
  <2> QED
    BY <2>1
<1>6. LogTypeOK
  BY <1>1, <1>2, <1>3, <1>4, <1>5, EmptyText, LogAssumption DEF Init, LogTypeOK
<1>7. PointersSound
  BY <1>1, CellsTyped DEF Init, PointersSound
<1>8. PointerKept
  BY <1>3, ConsoleAssumption DEF PointerKept
<1> QED
  BY <1>6, <1>7, <1>8 DEF LogInv

-----------------------------------------------------------------------------
LEMMA LogStep == LogInv /\ [Next]_vars => LogInv'
<1> SUFFICES ASSUME LogInv, [Next]_vars PROVE LogInv'
  OBVIOUS
<1> USE DEF LogInv
<1>0. LogTypeOK /\ PointersSound /\ PointerKept
  OBVIOUS
<1>1. CASE InitDisplay
  <2>1. Banner \in Messages \cup {Banner}
    OBVIOUS
  <2>2. /\ fmt' \in Texts /\ args' \in Seq(Argument) /\ called' \in Message
        /\ \A k \in DOMAIN args' : \A b : Sound(args'[k].string, b)
    BY <1>1, <2>1, MessageSound DEF InitDisplay, Begin
  <2>3. /\ console' \in BasicOutputConsole /\ console'.text = <<>>
        /\ console'.framebuffer = given' /\ given' \in 0 .. 255
    BY <1>1, EmptyText, ConsoleAssumption DEF InitDisplay, boutcon_init, BasicOutputConsole
  <2>4. LogTypeOK'
    BY <1>1, <2>2, <2>3, ClearTyped, EmptyText, SMTT(30) DEF InitDisplay, Begin, LogTypeOK
  <2>5. PointersSound'
    BY <1>1, <2>2 DEF InitDisplay, PointersSound, Sound
  <2>6. PointerKept'
    BY <2>3, ConsoleAssumption DEF PointerKept
  <2> QED
    BY <2>4, <2>5, <2>6
<1>2. CASE klog_set_log_mode
  <2>1. LogTypeOK'
    BY <1>2, LogAssumption DEF klog_set_log_mode, LogTypeOK, format, call
  <2> QED
    BY <1>2, <2>1 DEF klog_set_log_mode, format, PointersSound, Sound, PointerKept
<1>3. CASE CallKlogf
  <2>1. /\ fmt' \in Texts /\ args' \in Seq(Argument) /\ called' \in Message
        /\ \A k \in DOMAIN args' : \A b : Sound(args'[k].string, b)
    BY <1>3, MessageSound DEF CallKlogf, Begin
  <2>2. calls' \in 0 .. CALLS
    BY <1>3, LogAssumption DEF CallKlogf, LogTypeOK
  <2>3. LogTypeOK'
    BY <1>3, <2>1, <2>2, EmptyText DEF CallKlogf, Begin, LogTypeOK, logger
  <2>4. PointersSound'
    BY <1>3, <2>1 DEF CallKlogf, PointersSound, Sound
  <2> QED
    BY <1>3, <2>3, <2>4 DEF CallKlogf, PointerKept, logger
<1>4. CASE CallKlog
  <2>1. calls' \in 0 .. CALLS
    BY <1>4, LogAssumption DEF CallKlog, LogTypeOK
  <2>2. called' \in Message /\ line' \in Texts
    BY <1>4, EmptyText, LogAssumption DEF CallKlog, Message
  <2>3. LogTypeOK'
    BY <1>4, <2>1, <2>2 DEF CallKlog, LogTypeOK, logger
  <2> QED
    BY <1>4, <2>3 DEF CallKlog, PointersSound, Sound, PointerKept, logger
<1>5. CASE CallDescribe
  <2>1. calls' \in 0 .. CALLS
    BY <1>5, LogAssumption DEF CallDescribe, LogTypeOK
  <2>2. names' \in [{} -> Argument]
    BY <1>5 DEF CallDescribe
  <2>3. LogTypeOK'
    BY <1>5, <2>1, <2>2, LogAssumption DEF CallDescribe, LogTypeOK, logger
  <2> QED
    BY <1>5, <2>2, <2>3 DEF CallDescribe, PointersSound, Sound, PointerKept, logger
<1>6. ASSUME NEW k \in 1 .. 5, DescribeNoClass(k) PROVE LogInv'
  <2>1. LogTypeOK'
    BY <1>6 DEF DescribeNoClass, LogTypeOK, logger, format, call
  <2> QED
    BY <1>6, <2>1 DEF DescribeNoClass, PointersSound, Sound, PointerKept, logger, format, call
<1>7. ASSUME NEW k \in 1 .. 5, DescribeByName(k) PROVE LogInv'
  <2>1. Described(k, device) \in Description
    BY <1>7, DescribedTyped DEF DescribeByName, LogTypeOK
  <2>2. Described(k, device).name \in Char
    BY <1>7, <2>1 DEF DescribeByName, Description, Cell
  <2>3. <<Described(k, device).name>> \in Texts
    BY <2>2, OneCharacter
  <2> DEFINE string == Literal(<<Described(k, device).name>>)
  <2>4. string \in Pointer /\ Sound(string, buf)
    BY <2>3, LiteralTyped
  <2>5. /\ Evaluated(k, string) /\ pc' \in {"describe"}
        /\ UNCHANGED <<logger, buf, itoa, slot, fmt, args, line, device, called, calls>>
    BY <1>7 DEF DescribeByName
  <2> HIDE DEF string
  <2> QED
    BY <2>4, <2>5, EvaluatedTyped
<1>8. ASSUME NEW k \in 1 .. 5, DescribeByNumber(k) PROVE LogInv'
  <2>1. Described(k, device) \in Description
    BY <1>8, DescribedTyped DEF DescribeByNumber, LogTypeOK
  <2>2. itoa' \in Conversion /\ itoa'.i = LAST_CELL
    BY <1>8, <2>1, ItoaBeginTyped DEF DescribeByNumber, Description
  <2>3. LogTypeOK'
    BY <1>8, <2>2, SMTT(30) DEF DescribeByNumber, LogTypeOK, logger, call
  <2>4. PointersSound'
    BY <1>8, <2>2, CellsTyped DEF DescribeByNumber, PointersSound, Sound
  <2> QED
    BY <1>8, <2>3, <2>4 DEF DescribeByNumber, PointerKept, logger
<1>9. CASE FormatDescription
  <2>1. DeviceFormat \in Texts
    BY LogAssumption, ConsoleAssumption DEF DeviceFormat, Texts
  <2>2. PICK known \in SUBSET (1 .. 5) : names \in [known -> Argument]
    BY DEF LogTypeOK
  <2>3. \A k \in 1 .. 5 : names[k] \in Argument
    BY <1>9, <2>2 DEF FormatDescription
  <2>4. args' = [k \in 1 .. 5 |-> names[k]] /\ args' \in Seq(Argument)
    BY <1>9, <2>3, IsASeq DEF FormatDescription, Begin
  <2>5. called' \in Message
    BY <1>9, <2>1, <2>4 DEF FormatDescription, Begin, Message
  <2>6. LogTypeOK'
    BY <1>9, <2>1, <2>4, <2>5, EmptyText DEF FormatDescription, Begin, LogTypeOK, logger
  <2>7. PointersSound'
    BY <1>9, <2>4 DEF FormatDescription, PointersSound, Sound
  <2> QED
    BY <1>9, <2>6, <2>7 DEF FormatDescription, PointerKept, logger
<1>10. CASE WriteDigit
  <2>1. /\ buf' \in Buffer /\ buf'[LAST_CELL + 1] = NUL /\ buf'[itoa.i] \in Char
        /\ \A c \in 0 .. LAST_CELL : buf[c] \in Char => buf'[c] \in Char
    BY <1>10, DigitTyped DEF WriteDigit
  <2>2. /\ itoa \in Conversion /\ itoa.val # 0 /\ itoa.i # 0 /\ itoa.i <= LAST_CELL
        /\ itoa.base \in {10, 16} /\ itoa.val \in Nat /\ itoa.i \in 1 .. LAST_CELL
    BY <1>10, CellsTyped DEF WriteDigit, ItoaDone, LogTypeOK, PointersSound, Conversion
  <2>3. itoa.val \div itoa.base \in Nat /\ itoa.i - 1 \in 0 .. LAST_CELL - 1
    BY <2>2, CellsTyped
  <2>4. /\ itoa' = [itoa EXCEPT !.val = itoa.val \div itoa.base, !.i = itoa.i - 1]
    BY <1>10 DEF WriteDigit, ItoaNext
  <2>5. itoa' \in Conversion /\ itoa'.i = itoa.i - 1
    <3>1. itoa.i - 1 \in 0 .. ITOA_CELLS - 1
      BY <2>3, CellsTyped
    <3>2. itoa \in [val : Nat, base : {10, 16}, i : 0 .. ITOA_CELLS - 1]
      BY <2>2 DEF Conversion
    <3> HIDE <2>2
    <3> QED
      BY <2>3, <2>4, <3>1, <3>2 DEF Conversion
  <2>6. LogTypeOK'
    BY <1>10, <2>1, <2>5 DEF WriteDigit, LogTypeOK, logger, call
  <2>7. ASSUME NEW pointer \in Pointer, Sound(pointer, buf) PROVE Sound(pointer, buf')
    <3>1. \A c \in pointer.at .. LAST_CELL : pointer.at # 0 => c \in 0 .. LAST_CELL
      BY CellsTyped DEF Pointer
    <3> QED
      BY <2>1, <2>7, <3>1 DEF Sound
  <2>8. \A k \in DOMAIN names : names[k].string \in Pointer
    BY DEF LogTypeOK, Argument
  <2>9. \A k \in DOMAIN args : args[k].string \in Pointer
    <3>1. args \in Seq(Argument)
      BY DEF LogTypeOK
    <3>2. \A k \in DOMAIN args : args[k] \in Argument
      BY <3>1
    <3> QED
      BY <3>2 DEF Argument
  <2>10. \A c \in itoa'.i + 1 .. LAST_CELL : buf'[c] \in Char
    <3> TAKE c \in itoa'.i + 1 .. LAST_CELL
    <3>1. c = itoa.i \/ c \in itoa.i + 1 .. LAST_CELL
      BY <2>2, <2>5, CellsTyped
    <3>2. c \in 0 .. LAST_CELL
      BY <2>2, <2>5, CellsTyped
    <3> QED
      BY <2>1, <3>1, <3>2 DEF PointersSound
  <2>11. PointersSound'
    <3>1. names' = names /\ args' = args
      BY <1>10 DEF WriteDigit
    <3>2. itoa'.i <= LAST_CELL
      BY <2>2, <2>5, CellsTyped
    <3>3. \A k \in DOMAIN names : Sound(names[k].string, buf')
      BY <2>7, <2>8 DEF PointersSound
    <3>4. \A k \in DOMAIN args : Sound(args[k].string, buf')
      BY <2>7, <2>9 DEF PointersSound
    <3> QED
      BY <2>10, <3>1, <3>2, <3>3, <3>4 DEF PointersSound
  <2> QED
    BY <1>10, <2>6, <2>11 DEF WriteDigit, PointerKept, logger
<1>11. CASE ReturnArgument
  <2>1. ItoaString(itoa) \in Pointer /\ Sound(ItoaString(itoa), buf)
    BY ItoaStringTyped
  <2>2. slot \in 1 .. 5
    BY <1>11 DEF ReturnArgument, LogTypeOK
  <2>3. /\ Evaluated(slot, ItoaString(itoa)) /\ pc' \in {"describe"}
        /\ UNCHANGED <<logger, buf, itoa, slot, fmt, args, line, device, called, calls>>
    BY <1>11 DEF ReturnArgument
  <2> QED
    BY <2>1, <2>2, <2>3, EvaluatedTyped
<1>12. CASE ReturnNumber
  <2>1. ItoaString(itoa) \in Pointer /\ Sound(ItoaString(itoa), buf)
    BY ItoaStringTyped
  <2>2. line' \in Texts
    BY <1>12, <2>1, StrcatTyped DEF ReturnNumber, Appended, LogTypeOK
  <2>3. LogTypeOK'
    BY <1>12, <2>2 DEF ReturnNumber, Appended, LogTypeOK, logger, call
  <2> QED
    BY <1>12, <2>3 DEF ReturnNumber, PointersSound, Sound, PointerKept, logger
<1>13. /\ Len(fmt) \in Nat /\ Len(args) \in Nat /\ fmt \in Seq(Char) /\ args \in Seq(Argument)
       /\ fmt # <<>> => Len(fmt) >= 1 /\ fmt[1] \in Char
       /\ args # <<>> => Len(args) >= 1 /\ args[1] \in Argument
       /\ args # <<>> => 1 \in DOMAIN args
  BY EmptySeq, LenProperties DEF LogTypeOK, Texts
<1>14. CASE FormatLiteral
  <2>1. strchrcat(line, fmt[1]) \in Texts
    BY <1>13, <1>14, StrchrcatTyped DEF FormatLiteral, Cell, LogTypeOK
  <2> QED
    BY <1>13, <1>14, <2>1, ReadsTyped DEF FormatLiteral
<1>15. CASE FormatString
  <2>1. args[1].string \in Pointer /\ Sound(args[1].string, buf)
    BY <1>13, <1>15 DEF FormatString, Argument, PointersSound
  <2>2. strcat(line, args[1].string, buf) \in Texts
    BY <2>1, StrcatTyped DEF LogTypeOK
  <2> QED
    BY <1>13, <1>15, <2>2, ReadsTyped DEF FormatString, Converts
<1>16. CASE FormatCharacter
  <2>1. strchrcat(line, args[1].character) \in Texts
    BY <1>13, <1>16, StrchrcatTyped DEF FormatCharacter, Argument, LogTypeOK
  <2> QED
    BY <1>13, <1>16, <2>1, ReadsTyped DEF FormatCharacter, Converts
<1>17. CASE FormatNumber
  <2>1. itoa' \in Conversion /\ itoa'.i = LAST_CELL
    BY <1>13, <1>17, ItoaBeginTyped DEF FormatNumber, Argument
  <2>2. /\ fmt' \in Texts /\ args' \in Seq(Argument)
        /\ \A j \in DOMAIN args' : \E l \in DOMAIN args : args'[j] = args[l]
    BY <1>13, <1>17, TakenTyped DEF FormatNumber, Converts
  <2>3. LogTypeOK'
    BY <1>17, <2>1, <2>2 DEF FormatNumber, LogTypeOK, logger, call
  <2>4. PointersSound'
    BY <1>17, <2>1, <2>2, CellsTyped DEF FormatNumber, PointersSound, Sound
  <2> QED
    BY <1>17, <2>3, <2>4 DEF FormatNumber, PointerKept, logger
<1>18. CASE FormatMissing
  <2>1. LogTypeOK'
    BY <1>18 DEF FormatMissing, LogTypeOK, logger, format, call
  <2> QED
    BY <1>18, <2>1 DEF FormatMissing, PointersSound, Sound, PointerKept, logger, format
<1>19. CASE FormatPercent
  <2>1. line \o <<"%">> \in Texts
    BY LogAssumption DEF LogTypeOK, Texts
  <2> QED
    BY <1>13, <1>19, <2>1, ReadsTyped DEF FormatPercent, Converts
<1>20. line \o <<"%", "?">> \in Texts
  BY LogAssumption DEF LogTypeOK, Texts
<1>21. CASE FormatUnknown
  BY <1>13, <1>20, <1>21, ReadsTyped DEF FormatUnknown
<1>22. CASE FormatBeyondEnd
  <2>1. LogTypeOK'
    BY <1>20, <1>22, EmptyText DEF FormatBeyondEnd, LogTypeOK, logger, call
  <2> QED
    BY <1>22, <2>1 DEF FormatBeyondEnd, PointersSound, Sound, PointerKept, logger
<1>23. CASE EndFormat
  <2>1. LogTypeOK'
    BY <1>23 DEF EndFormat, LogTypeOK, logger, call
  <2> QED
    BY <1>23, <2>1 DEF EndFormat, PointersSound, Sound, PointerKept, logger
<1>24. CASE WriteDisplayed \/ WriteOnly
  <2>1. /\ console' \in BasicOutputConsole
        /\ Len(console'.text) <= OUTBUFFER_SIZE
        /\ Len(console'.text) = OUTBUFFER_SIZE => console'.framebuffer = 0
        /\ console'.framebuffer # given => Len(console'.text) = OUTBUFFER_SIZE
    BY <1>24, WriteTyped DEF WriteDisplayed, WriteOnly
  <2>2. LogTypeOK'
    <3>1. CASE WriteDisplayed
      <4>1. cursor' \in [x : Nat, y : Nat] /\ drawn' \in Nat /\ pc' = "draw"
        BY <3>1 DEF WriteDisplayed
      <4> QED
        BY <3>1, <2>1, <4>1 DEF WriteDisplayed, LogTypeOK, format, call
    <3>2. CASE WriteOnly
      BY <3>2, <2>1 DEF WriteOnly, LogTypeOK, format, call
    <3> QED
      BY <1>24, <3>1, <3>2
  <2> QED
    BY <1>24, <2>1, <2>2 DEF WriteDisplayed, WriteOnly, PointersSound, Sound, PointerKept, format
<1>25. CASE CorrectMode
  <2>1. LogTypeOK'
    BY <1>25 DEF CorrectMode, LogTypeOK, format, call
  <2> QED
    BY <1>25, <2>1 DEF CorrectMode, PointersSound, Sound, PointerKept, format
<1>26. CASE DrawCharacter
  <2> DEFINE character == console.text[drawn + 1]
             at == Placed(cursor, character)
  <2>1. /\ screen' \in Screen /\ cursor' \in [x : Nat, y : Nat] /\ drawn' \in Nat
        /\ pc' \in {"draw", "lost"}
    <3>1. console.text \in Seq(Char) /\ drawn \in Nat /\ drawn < Len(console.text)
      BY <1>26 DEF DrawCharacter, LogTypeOK, BasicOutputConsole, Texts
    <3>2. drawn + 1 \in 1 .. Len(console.text) /\ drawn + 1 \in Nat
      BY <3>1
    <3>3. character \in Char
      BY <3>1, <3>2
    <3> HIDE DEF character
    <3>4. at \in [x : Nat, y : Nat]
      BY PlacedTyped DEF LogTypeOK
    <3> HIDE DEF at
    <3>5. OnScreen(at) => fb_psf_draw_character(screen, character, at) \in Screen
      BY <3>3, ScreenTyped DEF LogTypeOK
    <3>6. [at EXCEPT !.x = @ + FONT_WIDTH] \in [x : Nat, y : Nat]
      BY <3>4, ConsoleAssumption
    <3>7. pc = "draw" /\ screen \in Screen /\ cursor \in [x : Nat, y : Nat]
      BY <1>26 DEF DrawCharacter, LogTypeOK
    <3>8. \/ pc' = "lost" /\ UNCHANGED <<screen, cursor, drawn>>
          \/ cursor' = at /\ drawn' = drawn + 1 /\ UNCHANGED <<screen, pc>>
          \/ /\ OnScreen(at) /\ screen' = fb_psf_draw_character(screen, character, at)
             /\ cursor' = [at EXCEPT !.x = @ + FONT_WIDTH] /\ drawn' = drawn + 1 /\ pc' = pc
      BY <1>26 DEF DrawCharacter, character, at
    <3> QED
      BY <3>1, <3>2, <3>4, <3>5, <3>6, <3>7, <3>8
  <2>2. UNCHANGED <<kernel_log_mode, console, given, shown, format, call>>
    BY <1>26 DEF DrawCharacter
  <2>3. LogTypeOK'
    BY <2>1, <2>2 DEF LogTypeOK, format, call
  <2> QED
    BY <2>2, <2>3 DEF PointersSound, Sound, PointerKept, format
<1>27. CASE EndDraw
  <2>1. console.text \in Texts
    BY DEF LogTypeOK, BasicOutputConsole
  <2>2. LogTypeOK'
    BY <1>27, <2>1 DEF EndDraw, LogTypeOK, format, call
  <2> QED
    BY <1>27, <2>2 DEF EndDraw, PointersSound, Sound, PointerKept, format
<1>28. CASE UNCHANGED vars
  <2>1. LogTypeOK'
    BY <1>28 DEF LogTypeOK, vars
  <2> QED
    BY <1>28, <2>1 DEF PointersSound, Sound, PointerKept, vars
<1> QED
  BY <1>1, <1>2, <1>3, <1>4, <1>5, <1>6, <1>7, <1>8, <1>9, <1>10, <1>11, <1>12,
     <1>14, <1>15, <1>16, <1>17, <1>18, <1>19, <1>21, <1>22, <1>23, <1>24, <1>25,
     <1>26, <1>27, <1>28
  DEF Next, Describing, Converting, klogf, klog

-----------------------------------------------------------------------------
(* The state of the log is what it should be, whatever is logged: every    *)
(* line klogf builds is a text, although parts of it are read from itoa's  *)
(* buffer while later calls of itoa write there, and no digit ever         *)
(* overwrites the NUL at the buffer's end (string.c:33-45).                *)
THEOREM LogTypeCorrect == Spec => []LogTypeOK
<1>1. LogInv => LogTypeOK
  BY DEF LogInv
<1> QED
  BY <1>1, LogInitially, LogStep, PTL DEF Spec

(* The text of the console never outgrows its buffer, and the lowest byte  *)
(* of the framebuffer pointer behind it is lost only with a text that      *)
(* fills the buffer to the last byte (basic_output_console.c:21-26).       *)
THEOREM PointerAlwaysKept == Spec => []PointerKept
<1>1. LogInv => PointerKept
  BY DEF LogInv
<1> QED
  BY <1>1, LogInitially, LogStep, PTL DEF Spec

-----------------------------------------------------------------------------
(* What is drawn where. *)
LEMMA ProductGrows ==
  ASSUME NEW n \in Nat, NEW a \in Int, NEW b \in Int, a < b
  PROVE  n * a + n <= n * b
<1>1. b - a - 1 \in Nat /\ b = a + 1 + (b - a - 1)  OBVIOUS
<1>2. n * (b - a - 1) \in Nat  BY <1>1
<1>3. n * b = n * a + n + n * (b - a - 1)  BY <1>1
<1> QED
  BY <1>2, <1>3

LEMMA ProductMonotone ==
  ASSUME NEW n \in Nat, NEW a \in Int, NEW b \in Int, a <= b
  PROVE  n * a <= n * b
<1>1. b - a \in Nat /\ b = a + (b - a)  OBVIOUS
<1>2. n * (b - a) \in Nat  BY <1>1
<1>3. n * b = n * a + n * (b - a)  BY <1>1
<1> QED
  BY <1>2, <1>3

LEMMA Divided ==
  ASSUME NEW n \in Nat \ {0}, NEW x \in Nat
  PROVE  /\ x \div n \in Nat /\ x % n \in 0 .. n - 1
         /\ x = n * (x \div n) + (x % n)
OBVIOUS

LEMMA RemainderOf ==
  ASSUME NEW n \in Nat \ {0}, NEW q \in Nat, NEW r \in 0 .. n - 1
  PROVE  (n * q + r) % n = r
<1> DEFINE x == n * q + r
           p == x \div n
           m == x % n
<1>1. x \in Nat  OBVIOUS
<1>2. p \in Nat /\ m \in 0 .. n - 1 /\ x = n * p + m
  BY <1>1, Divided
<1>3. n * p + m = n * q + r
  BY <1>2
<1> HIDE DEF x, p, m
<1>4. n * p \in Int /\ n * q \in Int
  BY <1>2
<1>5. ~ p < q
  <2>1. p < q => n * p + n <= n * q  BY <1>2, ProductGrows
  <2> QED
    BY <2>1, <1>2, <1>3, <1>4
<1>6. ~ q < p
  <2>1. q < p => n * q + n <= n * p  BY <1>2, ProductGrows
  <2> QED
    BY <2>1, <1>2, <1>3, <1>4
<1>7. p = q  BY <1>2, <1>5, <1>6
<1>8. m = r  BY <1>2, <1>3, <1>4, <1>7
<1> QED
  BY <1>8 DEF m, x

(* Of the remainders of neighbours. *)
LEMMA NextRemainder ==
  ASSUME NEW n \in Nat \ {0}, NEW p \in Nat \ {0}
  PROVE  IF p % n = 0 THEN (p - 1) % n = n - 1 ELSE p % n = ((p - 1) % n) + 1
<1> DEFINE q == (p - 1) \div n
           r == (p - 1) % n
<1>1. q \in Nat /\ r \in 0 .. n - 1 /\ p - 1 = n * q + r
  <2>1. p - 1 \in Nat  OBVIOUS
  <2> QED
    BY <2>1, Divided
<1> HIDE DEF q, r
<1>2. CASE r = n - 1
  <2>1. p = n * (q + 1) + 0 /\ q + 1 \in Nat /\ 0 \in 0 .. n - 1
    BY <1>1, <1>2
  <2>2. p % n = 0
    BY <2>1, RemainderOf
  <2> QED
    BY <1>2, <2>2 DEF r
<1>3. CASE r # n - 1
  <2>1. p = n * q + (r + 1) /\ r + 1 \in 0 .. n - 1 /\ r + 1 # 0
    BY <1>1, <1>3
  <2>2. p % n = r + 1
    BY <2>1, <1>1, RemainderOf
  <2> QED
    BY <2>1, <2>2 DEF r
<1> QED
  BY <1>2, <1>3

(* A multiple of n lies between numbers of the same remainder, the upper   *)
(* one included.                                                           *)
LEMMA MultipleBetween ==
  ASSUME NEW n \in Nat \ {0}, NEW a \in Nat, NEW b \in Nat, a < b, a % n = b % n
  PROVE  a < b - (b % n) /\ (b - (b % n)) % n = 0
<1>1. /\ a \div n \in Nat /\ a % n \in 0 .. n - 1 /\ a = n * (a \div n) + (a % n)
      /\ b \div n \in Nat /\ b % n \in 0 .. n - 1 /\ b = n * (b \div n) + (b % n)
  BY Divided
<1>2. /\ n * (a \div n) \in Int /\ n * (b \div n) \in Int
      /\ n * (a \div n) < n * (b \div n)
  BY <1>1
<1>3. a \div n < b \div n
  <2>1. b \div n <= a \div n => n * (b \div n) <= n * (a \div n)
    BY <1>1, ProductMonotone
  <2> QED
    BY <1>1, <1>2, <2>1
<1>4. n * (a \div n) + n <= n * (b \div n)
  BY <1>1, <1>3, ProductGrows
<1>5. b - (b % n) = n * (b \div n) + 0 /\ 0 \in 0 .. n - 1
  BY <1>1, <1>2
<1>6. (b - (b % n)) % n = 0
  BY <1>1, <1>5, RemainderOf
<1>7. a < b - (b % n)
  BY <1>1, <1>2, <1>4
<1> QED
  BY <1>6, <1>7

LEMMA FitsInRow ==
  ASSUME NEW f \in Nat \ {0}, NEW w \in Nat, NEW c \in Nat
  PROVE  f * c > w - f <=> c >= w \div f
<1>1. /\ w \div f \in Nat /\ w % f \in 0 .. f - 1 /\ w = f * (w \div f) + (w % f)
  BY Divided
<1> DEFINE q == w \div f
<1>2. f * q \in Int /\ f * c \in Int /\ q \in Nat
  BY <1>1
<1>3. CASE c >= q
  <2>1. f * q <= f * c  BY <1>2, <1>3, ProductMonotone
  <2> QED
    BY <1>1, <1>2, <1>3, <2>1
<1>4. CASE c < q
  <2>1. f * c + f <= f * q  BY <1>2, <1>4, ProductGrows
  <2> QED
    BY <1>1, <1>2, <1>4, <2>1
<1> QED
  BY <1>2, <1>3, <1>4

-----------------------------------------------------------------------------
(* The places in a text at which the row is full. *)
Wraps(text, i) ==
  {j \in 1 .. i : /\ text[j] # NEWLINE
                  /\ InParagraph(text, j) > 0
                  /\ InParagraph(text, j) % PerRow = 0}

(* The characters that InParagraph counts. *)
Paragraph(text, i) == {j \in 1 .. i - 1 : \A k \in j .. i - 1 : text[k] # NEWLINE}

LEMMA RowTyped == PerRow \in Nat \ {0}
<1>1. /\ PerRow \in Nat /\ WIDTH = FONT_WIDTH * PerRow + (WIDTH % FONT_WIDTH)
      /\ WIDTH % FONT_WIDTH \in 0 .. FONT_WIDTH - 1
  BY ConsoleAssumption, Divided DEF PerRow
<1>2. ASSUME PerRow = 0 PROVE FALSE
  <2>1. FONT_WIDTH * PerRow = 0
    BY <1>2, ConsoleAssumption
  <2> QED
    BY <1>1, <2>1, ConsoleAssumption
<1> QED
  BY <1>1, <1>2

LEMMA PartCounted ==
  ASSUME NEW n \in Nat, NEW S \in SUBSET (1 .. n)
  PROVE  IsFiniteSet(S) /\ Cardinality(S) \in Nat /\ Cardinality(S) <= n
<1>1. IsFiniteSet(1 .. n) /\ Cardinality(1 .. n) = n
  BY FS_Interval
<1>2. IsFiniteSet(S) /\ Cardinality(S) <= n
  BY <1>1, FS_Subset
<1> QED
  BY <1>2, FS_CardinalityType

(* Counting what lies before a position of a text. *)
LEMMA TextCounted ==
  ASSUME NEW text, NEW i \in Nat \ {0}
  PROVE  /\ IsFiniteSet(NewLines(text, i)) /\ Cardinality(NewLines(text, i)) \in Nat
         /\ IsFiniteSet(Wraps(text, i)) /\ Cardinality(Wraps(text, i)) \in Nat
         /\ IsFiniteSet(Paragraph(text, i)) /\ InParagraph(text, i) \in Nat
         /\ InParagraph(text, i) = Cardinality(Paragraph(text, i))
         /\ RowOf(text, i) = Cardinality(NewLines(text, i)) + Cardinality(Wraps(text, i))
<1>1. i \in Nat /\ i - 1 \in Nat
  OBVIOUS
<1>2. /\ NewLines(text, i) \in SUBSET (1 .. i - 1)
      /\ Wraps(text, i) \in SUBSET (1 .. i)
      /\ Paragraph(text, i) \in SUBSET (1 .. i - 1)
  BY DEF NewLines, Wraps, Paragraph
<1>3. InParagraph(text, i) = Cardinality(Paragraph(text, i))
  BY DEF InParagraph, Paragraph
<1>4. RowOf(text, i) = Cardinality(NewLines(text, i)) + Cardinality(Wraps(text, i))
  BY DEF RowOf, Wraps
<1> QED
  BY <1>1, <1>2, <1>3, <1>4, PartCounted

(* Without a new line between them, of two positions of a text. *)
LEMMA InOneParagraph ==
  ASSUME NEW text, NEW i \in Nat \ {0}, NEW j \in Nat, i <= j,
         \A k \in i .. j - 1 : text[k] # NEWLINE
  PROVE  InParagraph(text, j) = InParagraph(text, i) + (j - i)
<1> DEFINE before == Paragraph(text, i)
           between == i .. j - 1
<1>1. Paragraph(text, j) = before \cup between
  <2>1. ASSUME NEW c \in Paragraph(text, j) PROVE c \in before \cup between
    <3>1. c \in Int /\ c >= 1 /\ c <= j - 1 /\ \A k \in c .. j - 1 : text[k] # NEWLINE
      BY <2>1 DEF Paragraph
    <3>2. CASE c >= i
      BY <3>1, <3>2
    <3>3. CASE c < i
      <4>1. \A k \in c .. i - 1 : k \in c .. j - 1
        BY <3>1
      <4>2. c \in 1 .. i - 1
        BY <3>1, <3>3
      <4> QED
        BY <3>1, <4>1, <4>2 DEF Paragraph
    <3> QED
      BY <3>1, <3>2, <3>3
  <2>2. ASSUME NEW c \in before \cup between PROVE c \in Paragraph(text, j)
    <3>1. c \in 1 .. j - 1
      BY <2>2 DEF Paragraph
    <3>2. ASSUME NEW k \in c .. j - 1 PROVE text[k] # NEWLINE
      <4>1. CASE k >= i
        BY <3>1, <3>2, <4>1
      <4>2. CASE k < i
        <5>1. c \in before /\ k \in c .. i - 1
          BY <2>2, <3>1, <3>2, <4>2
        <5> QED
          BY <5>1 DEF Paragraph
      <4> QED
        BY <3>1, <3>2, <4>1, <4>2
    <3> QED
      BY <3>1, <3>2 DEF Paragraph
  <2> QED
    BY <2>1, <2>2
<1>2. /\ IsFiniteSet(before) /\ Cardinality(before) = InParagraph(text, i)
      /\ InParagraph(text, i) \in Nat
      /\ InParagraph(text, j) = Cardinality(Paragraph(text, j))
  BY TextCounted
<1>3. IsFiniteSet(between) /\ Cardinality(between) = j - i
  BY FS_Interval
<1>4. before \cap between = {}
  BY DEF Paragraph
<1>5. Cardinality(before \cap between) = 0
  BY <1>4, FS_EmptySet
<1> HIDE DEF before, between
<1> QED
  BY <1>1, <1>2, <1>3, <1>5, FS_Union

LEMMA ParagraphBegins ==
  ASSUME NEW text, NEW i \in Nat \ {0}, i = 1 \/ text[i - 1] = NEWLINE
  PROVE  InParagraph(text, i) = 0
<1>1. Paragraph(text, i) = {}
  BY DEF Paragraph
<1> QED
  BY <1>1, TextCounted, FS_EmptySet

LEMMA ProductInjective ==
  ASSUME NEW n \in Nat \ {0}, NEW a \in Int, NEW b \in Int, n * a = n * b
  PROVE  a = b
<1>1. n * a \in Int /\ n * b \in Int
  OBVIOUS
<1>2. ~ a < b
  BY <1>1, ProductGrows
<1>3. ~ b < a
  BY <1>1, ProductGrows
<1> QED
  BY <1>2, <1>3

(* No two characters of a text share a place on the screen. *)
LEMMA PlacesDistinct ==
  ASSUME NEW text, NEW i \in Nat \ {0}, NEW j \in Nat, i < j,
         text[i] # NEWLINE, text[j] # NEWLINE
  PROVE  Place(text, i) # Place(text, j)
<1> SUFFICES ASSUME Place(text, i) = Place(text, j) PROVE FALSE
  OBVIOUS
<1>1. j \in Nat \ {0}
  OBVIOUS
<1> DEFINE a == InParagraph(text, i)
           b == InParagraph(text, j)
<1>2. PerRow \in Nat \ {0} /\ a \in Nat /\ b \in Nat
  BY <1>1, RowTyped, TextCounted
<1> HIDE DEF a, b
<1>3. a % PerRow \in Nat /\ b % PerRow \in Nat
  BY <1>2, Divided
<1>4. /\ FONT_WIDTH * (a % PerRow) = FONT_WIDTH * (b % PerRow)
      /\ FONT_HEIGHT * RowOf(text, i) = FONT_HEIGHT * RowOf(text, j)
  BY DEF Place, a, b
<1>5. a % PerRow = b % PerRow
  BY <1>3, <1>4, ProductInjective, ConsoleAssumption
<1>6. RowOf(text, i) \in Nat /\ RowOf(text, j) \in Nat
  BY <1>1, TextCounted
<1>7. RowOf(text, i) = RowOf(text, j)
  BY <1>4, <1>6, ProductInjective, ConsoleAssumption
<1>8. NewLines(text, i) \subseteq NewLines(text, j) /\ Wraps(text, i) \subseteq Wraps(text, j)
  BY DEF NewLines, Wraps
<1>9. NewLines(text, i) = NewLines(text, j) /\ Wraps(text, i) = Wraps(text, j)
  <2>1. /\ Cardinality(NewLines(text, i)) <= Cardinality(NewLines(text, j))
        /\ Cardinality(Wraps(text, i)) <= Cardinality(Wraps(text, j))
    BY <1>1, <1>8, TextCounted, FS_Subset
  <2>2. /\ Cardinality(NewLines(text, i)) = Cardinality(NewLines(text, j))
        /\ Cardinality(Wraps(text, i)) = Cardinality(Wraps(text, j))
    BY <1>1, <1>7, <2>1, TextCounted
  <2> QED
    BY <1>1, <1>8, <2>2, TextCounted, FS_Subset
<1>10. \A k \in i .. j - 1 : text[k] # NEWLINE
  <2> TAKE k \in i .. j - 1
  <2>1. text[k] = NEWLINE => k \in NewLines(text, j)
    BY DEF NewLines
  <2>2. k \notin NewLines(text, i)
    BY DEF NewLines
  <2> QED
    BY <1>9, <2>1, <2>2
<1>11. b = a + (j - i)
  BY <1>10, InOneParagraph DEF a, b
<1> DEFINE full == b - (b % PerRow)
           k == i + (full - a)
<1>12. a < full /\ full % PerRow = 0
  <2>1. a < b
    BY <1>2, <1>11
  <2> QED
    BY <1>2, <1>5, <2>1, MultipleBetween
<1>13. b % PerRow >= 0 /\ full \in Int /\ full <= b
  BY <1>2, <1>3
<1> HIDE DEF full
<1>14. k \in i + 1 .. j
  BY <1>2, <1>11, <1>12, <1>13
<1>15. \A l \in i .. k - 1 : text[l] # NEWLINE
  BY <1>10, <1>14
<1>16. InParagraph(text, k) = a + (k - i)
  BY <1>14, <1>15, InOneParagraph DEF a
<1>17. a + (k - i) = full
  BY <1>2, <1>13
<1>18. text[k] # NEWLINE
  BY <1>10, <1>14
<1> HIDE DEF k
<1>19. InParagraph(text, k) = full /\ full > 0
  BY <1>2, <1>12, <1>13, <1>16, <1>17
<1>20. k \in Wraps(text, j) /\ k \notin Wraps(text, i)
  BY <1>12, <1>14, <1>18, <1>19 DEF Wraps
<1> QED
  BY <1>9, <1>20

(* A place depends on what comes before it only: nothing moves when a text *)
(* grows.                                                                  *)
LEMMA PlaceKept ==
  ASSUME NEW text, NEW longer, NEW i \in Nat \ {0}, \A k \in 1 .. i : longer[k] = text[k]
  PROVE  Place(longer, i) = Place(text, i)
<1>1. ASSUME NEW j \in 1 .. i PROVE InParagraph(longer, j) = InParagraph(text, j)
  <2>1. \A c \in 1 .. j - 1 : \A k \in c .. j - 1 : longer[k] = text[k]
    OBVIOUS
  <2>2. Paragraph(longer, j) = Paragraph(text, j)
    BY <2>1 DEF Paragraph
  <2> QED
    BY <2>2, TextCounted
<1>2. NewLines(longer, i) = NewLines(text, i)
  BY DEF NewLines
<1>3. Wraps(longer, i) = Wraps(text, i)
  BY <1>1 DEF Wraps
<1>4. RowOf(longer, i) = RowOf(text, i)
  BY <1>2, <1>3, TextCounted
<1>5. InParagraph(longer, i) = InParagraph(text, i)
  BY <1>1
<1> QED
  BY <1>4, <1>5 DEF Place

-----------------------------------------------------------------------------
(* Where the cursor is when n characters of a text are drawn. *)
RowsBegun(text, n) == Cardinality(NewLines(text, n + 1)) + Cardinality(Wraps(text, n))
InRow(p) == IF p = 0 THEN 0 ELSE ((p - 1) % PerRow) + 1

CursorAt(text, n) == [x |-> FONT_WIDTH * InRow(InParagraph(text, n + 1)),
                      y |-> FONT_HEIGHT * RowsBegun(text, n)]

LEMMA RowsCounted ==
  ASSUME NEW text, NEW n \in Nat
  PROVE  /\ RowsBegun(text, n) \in Nat
         /\ text[n + 1] = NEWLINE => RowsBegun(text, n + 1) = RowsBegun(text, n) + 1
         /\ text[n + 1] # NEWLINE =>
              /\ RowsBegun(text, n + 1) = RowOf(text, n + 1)
              /\ RowOf(text, n + 1) = RowsBegun(text, n)
                   + (IF /\ InParagraph(text, n + 1) > 0
                         /\ InParagraph(text, n + 1) % PerRow = 0 THEN 1 ELSE 0)
<1> DEFINE i == n + 1
<1>1. i \in Nat \ {0} /\ i + 1 \in Nat \ {0} /\ i + 1 - 1 = i /\ i - 1 = n
  OBVIOUS
<1>2. /\ IsFiniteSet(NewLines(text, i)) /\ Cardinality(NewLines(text, i)) \in Nat
      /\ IsFiniteSet(Wraps(text, n)) /\ Cardinality(Wraps(text, n)) \in Nat
  <2>1. Wraps(text, n) \in SUBSET (1 .. n)
    BY DEF Wraps
  <2> QED
    BY <1>1, <2>1, TextCounted, PartCounted
<1>3. 1 .. i = (1 .. n) \cup {i} /\ i \notin 1 .. n
  OBVIOUS
<1> HIDE DEF i
<1>4. NewLines(text, i + 1) = IF text[i] = NEWLINE THEN NewLines(text, i) \cup {i}
                              ELSE NewLines(text, i)
  BY <1>1, <1>3 DEF NewLines
<1>5. i \notin NewLines(text, i) /\ i \notin Wraps(text, n)
  BY <1>1, <1>3 DEF NewLines, Wraps
<1>6. CASE text[i] = NEWLINE
  <2>1. Wraps(text, i) = Wraps(text, n)
    BY <1>3, <1>6 DEF Wraps
  <2>2. Cardinality(NewLines(text, i + 1)) = Cardinality(NewLines(text, i)) + 1
    BY <1>2, <1>4, <1>5, <1>6, FS_AddElement
  <2> QED
    BY <1>2, <1>6, <2>1, <2>2 DEF RowsBegun, i
<1>7. CASE text[i] # NEWLINE
  <2> DEFINE full == InParagraph(text, i) > 0 /\ InParagraph(text, i) % PerRow = 0
  <2>1. Wraps(text, i) = IF full THEN Wraps(text, n) \cup {i} ELSE Wraps(text, n)
    BY <1>3, <1>7 DEF Wraps
  <2> HIDE DEF full
  <2>2. Cardinality(Wraps(text, i)) = Cardinality(Wraps(text, n)) + (IF full THEN 1 ELSE 0)
    <3>1. CASE full
      BY <1>2, <1>5, <2>1, <3>1, FS_AddElement
    <3>2. CASE ~ full
      BY <1>2, <2>1, <3>2
    <3> QED
      BY <3>1, <3>2
  <2>3. RowOf(text, i) = Cardinality(NewLines(text, i)) + Cardinality(Wraps(text, i))
    BY <1>1, TextCounted
  <2>4. NewLines(text, i + 1) = NewLines(text, i)
    BY <1>4, <1>7
  <2> QED
    BY <1>2, <1>7, <2>2, <2>3, <2>4 DEF RowsBegun, i, full
<1> QED
  BY <1>6, <1>7

LEMMA CursorBegins ==
  ASSUME NEW text
  PROVE  CursorAt(text, 0) = [x |-> 0, y |-> 0]
<1>1. NewLines(text, 0 + 1) = {} /\ Wraps(text, 0) = {}
  BY DEF NewLines, Wraps
<1>2. RowsBegun(text, 0) = 0
  BY <1>1, FS_EmptySet DEF RowsBegun
<1>3. InParagraph(text, 0 + 1) = 0
  BY ParagraphBegins
<1> QED
  BY <1>2, <1>3, ConsoleAssumption DEF CursorAt, InRow

(* Of the p characters before the next one of its paragraph: how many are  *)
(* in the row, and where the next one belongs.                             *)
LEMMA NextInRow ==
  ASSUME NEW p \in Nat
  PROVE  /\ InRow(p) \in Nat /\ p % PerRow \in Nat
         /\ InRow(p + 1) = (p % PerRow) + 1
         /\ IF p > 0 /\ p % PerRow = 0
            THEN InRow(p) >= PerRow
            ELSE InRow(p) < PerRow /\ p % PerRow = InRow(p)
<1>1. PerRow \in Nat \ {0}
  BY RowTyped
<1>2. p % PerRow \in 0 .. PerRow - 1
  BY <1>1, Divided
<1>3. InRow(p + 1) = (p % PerRow) + 1
  BY DEF InRow
<1>4. CASE p = 0
  <2>1. p = PerRow * 0 + 0 /\ 0 \in 0 .. PerRow - 1
    BY <1>1, <1>4
  <2>2. p % PerRow = 0
    BY <1>1, <2>1, RemainderOf
  <2> QED
    BY <1>1, <1>2, <1>3, <1>4, <2>2 DEF InRow
<1>5. CASE p # 0
  <2>1. IF p % PerRow = 0 THEN (p - 1) % PerRow = PerRow - 1
        ELSE p % PerRow = ((p - 1) % PerRow) + 1
    BY <1>1, <1>5, NextRemainder
  <2>2. (p - 1) % PerRow \in 0 .. PerRow - 1
    <3>1. p - 1 \in Nat
      BY <1>5
    <3> QED
      BY <1>1, <3>1, Divided
  <2>3. InRow(p) = ((p - 1) % PerRow) + 1
    BY <1>5 DEF InRow
  <2> QED
    BY <1>1, <1>2, <1>3, <1>5, <2>1, <2>2, <2>3
<1> QED
  BY <1>4, <1>5

(* fb_psf_draw_string puts a character where it belongs, and goes on where *)
(* the next one does.                                                      *)
LEMMA CharacterPlaced ==
  ASSUME NEW text, NEW n \in Nat,
         NEW at, at = Placed(CursorAt(text, n), text[n + 1])
  PROVE  /\ text[n + 1] = NEWLINE => at = CursorAt(text, n + 1)
         /\ text[n + 1] # NEWLINE =>
              /\ at \in [x : Nat, y : Nat] /\ at.x \in Column
              /\ <<at.x, at.y>> = Place(text, n + 1)
              /\ [at EXCEPT !.x = @ + FONT_WIDTH] = CursorAt(text, n + 1)
<1> DEFINE i == n + 1
           p == InParagraph(text, i)
           rows == RowsBegun(text, n)
           start == CursorAt(text, n)
<1>1. i \in Nat \ {0} /\ p \in Nat /\ rows \in Nat /\ i + 1 \in Nat /\ i - 1 = n
  BY TextCounted, RowsCounted
<1>2. start = [x |-> FONT_WIDTH * InRow(p), y |-> FONT_HEIGHT * rows]
  BY DEF CursorAt
<1>3. /\ FONT_WIDTH \in Nat \ {0} /\ FONT_HEIGHT \in Nat \ {0} /\ PerRow \in Nat \ {0}
      /\ WIDTH \in Nat /\ WIDTH >= FONT_WIDTH
  BY ConsoleAssumption, RowTyped
<1>4. FONT_HEIGHT * (rows + 1) = FONT_HEIGHT * rows + FONT_HEIGHT
  BY <1>1, <1>3
<1>5. CASE text[i] = NEWLINE
  <2>1. InParagraph(text, i + 1) = 0
    <3>1. i + 1 \in Nat \ {0} /\ i + 1 - 1 = i
      BY <1>1
    <3> QED
      BY <1>5, <3>1, ParagraphBegins
  <2>2. RowsBegun(text, i) = rows + 1
    BY <1>5, RowsCounted
  <2>3. FONT_WIDTH * InRow(0) = 0
    BY <1>3 DEF InRow
  <2>4. CursorAt(text, i) = [x |-> 0, y |-> FONT_HEIGHT * (rows + 1)]
    BY <2>1, <2>2, <2>3 DEF CursorAt
  <2>5. at = [x |-> 0, y |-> start.y + FONT_HEIGHT]
    BY <1>5 DEF Placed
  <2> HIDE DEF i, p, rows, start
  <2>6. at = CursorAt(text, i)
    BY <1>2, <1>4, <2>4, <2>5
  <2> QED
    BY <1>5, <2>6 DEF i
<1>6. CASE text[i] # NEWLINE
  <2> DEFINE wraps == p > 0 /\ p % PerRow = 0
  <2>1. InParagraph(text, i + 1) = p + 1
    <3>1. \A k \in i .. i + 1 - 1 : text[k] # NEWLINE
      BY <1>1, <1>6
    <3>2. i <= i + 1 /\ i + 1 - i = 1
      BY <1>1
    <3> QED
      BY <1>1, <3>1, <3>2, InOneParagraph
  <2>2. RowsBegun(text, i) = RowOf(text, i) /\ RowOf(text, i) = rows + (IF wraps THEN 1 ELSE 0)
    BY <1>6, RowsCounted
  <2>3. /\ InRow(p) \in Nat /\ p % PerRow \in Nat /\ InRow(p + 1) = (p % PerRow) + 1
        /\ IF wraps THEN InRow(p) >= PerRow ELSE InRow(p) < PerRow /\ p % PerRow = InRow(p)
    BY <1>1, NextInRow
  <2>4. FONT_WIDTH * InRow(p) > WIDTH - FONT_WIDTH <=> InRow(p) >= PerRow
    BY <1>3, <2>3, FitsInRow DEF PerRow
  <2>5. /\ CursorAt(text, i) = [x |-> FONT_WIDTH * InRow(p + 1), y |-> FONT_HEIGHT * RowOf(text, i)]
        /\ Place(text, i) = <<FONT_WIDTH * (p % PerRow), FONT_HEIGHT * RowOf(text, i)>>
    BY <2>1, <2>2 DEF CursorAt, Place
  <2>6. at = IF start.x > WIDTH - FONT_WIDTH THEN [x |-> 0, y |-> start.y + FONT_HEIGHT]
             ELSE start
    BY <1>6 DEF Placed
  <2>7. FONT_WIDTH * InRow(p + 1) = FONT_WIDTH * (p % PerRow) + FONT_WIDTH
    BY <1>3, <2>3
  <2> DEFINE column == FONT_WIDTH * (p % PerRow)
             line_ == FONT_HEIGHT * RowOf(text, i)
  <2>8. column \in Nat /\ line_ \in Nat
    <3>1. RowOf(text, i) \in Nat
      BY <1>1, TextCounted
    <3> QED
      BY <1>3, <2>3, <3>1
  <2> HIDE DEF i, p, rows, start
  <2>9. at = [x |-> column, y |-> line_] /\ column <= WIDTH - FONT_WIDTH
    <3>1. CASE wraps
      <4>1. at = [x |-> 0, y |-> FONT_HEIGHT * rows + FONT_HEIGHT]
        BY <1>2, <2>3, <2>4, <2>6, <3>1
      <4>2. line_ = FONT_HEIGHT * rows + FONT_HEIGHT
        BY <1>4, <2>2, <3>1
      <4>3. p % PerRow = 0 /\ FONT_WIDTH * 0 = 0
        BY <1>3, <3>1
      <4>4. column = 0
        BY <4>3
      <4> QED
        BY <1>3, <4>1, <4>2, <4>4
    <3>2. CASE ~ wraps
      <4>1. at = start /\ ~ (FONT_WIDTH * InRow(p) > WIDTH - FONT_WIDTH)
        BY <1>2, <1>3, <2>3, <2>4, <2>6, <3>2
      <4>2. line_ = FONT_HEIGHT * rows
        BY <1>1, <2>2, <3>2
      <4>3. column = FONT_WIDTH * InRow(p)
        BY <2>3, <3>2
      <4> HIDE DEF column, line_
      <4> QED
        BY <1>2, <1>3, <2>8, <4>1, <4>2, <4>3
    <3> QED
      BY <3>1, <3>2
  <2> HIDE DEF column, line_
  <2>10. at \in [x : Nat, y : Nat] /\ at.x \in Column /\ <<at.x, at.y>> = <<column, line_>>
    BY <1>3, <2>8, <2>9 DEF Column
  <2>11. [at EXCEPT !.x = @ + FONT_WIDTH] = [x |-> column + FONT_WIDTH, y |-> line_]
    BY <2>9
  <2> QED
    BY <1>6, <2>5, <2>7, <2>10, <2>11 DEF column, line_, i
<1> QED
  BY <1>5, <1>6

-----------------------------------------------------------------------------
(* The screen shows the characters of a text at the positions in drawing,  *)
(* each at its place, and nothing else.                                    *)
Displays(pixels, text, drawing) ==
  /\ \A i \in drawing : \A x \in Column, y \in Line :
       Place(text, i) = <<x, y>> => pixels[x][y] = text[i]
  /\ \A x \in Column, y \in Line :
       pixels[x][y] = BLANK \/ \E i \in drawing : Place(text, i) = <<x, y>>

LEMMA DrawnOver ==
  ASSUME NEW pixels \in Screen, NEW text, NEW drawing \in SUBSET Visible(text),
         NEW i \in Visible(text), Len(text) \in Nat,
         NEW at, OnScreen(at), <<at.x, at.y>> = Place(text, i),
         Displays(pixels, text, drawing)
  PROVE  Displays(fb_psf_draw_character(pixels, text[i], at), text, drawing \cup {i})
<1> DEFINE after == fb_psf_draw_character(pixels, text[i], at)
<1>1. at.x \in Column /\ at.y \in Line
  BY DEF OnScreen
<1>2. \A x \in Column, y \in Line :
        after[x][y] = IF x = at.x /\ y = at.y THEN text[i] ELSE pixels[x][y]
  BY <1>1 DEF fb_psf_draw_character, Screen
<1>3. ASSUME NEW j \in drawing \cup {i}, NEW x \in Column, NEW y \in Line,
             Place(text, j) = <<x, y>>
      PROVE  after[x][y] = text[j]
  <2>1. CASE j = i
    BY <1>2, <1>3, <2>1
  <2>2. CASE j # i
    <3>1. /\ j \in Nat \ {0} /\ i \in Nat \ {0}
          /\ text[j] # NEWLINE /\ text[i] # NEWLINE /\ (j < i \/ i < j)
      BY <2>2 DEF Visible
    <3>2. Place(text, j) # Place(text, i)
      BY <3>1, PlacesDistinct
    <3>3. after[x][y] = pixels[x][y]
      BY <1>2, <1>3, <3>2
    <3> QED
      BY <1>3, <2>2, <3>3 DEF Displays
  <2> QED
    BY <2>1, <2>2
<1>4. ASSUME NEW x \in Column, NEW y \in Line
      PROVE  after[x][y] = BLANK \/ \E j \in drawing \cup {i} : Place(text, j) = <<x, y>>
  <2>1. CASE x = at.x /\ y = at.y
    BY <2>1
  <2>2. CASE ~ (x = at.x /\ y = at.y)
    BY <1>2, <2>2 DEF Displays
  <2> QED
    BY <2>1, <2>2
<1> QED
  BY <1>3, <1>4 DEF Displays

(* The positions drawn: those of the text displayed last, and of the text  *)
(* being drawn the first n.                                                *)
Displayed(n) == {i \in Visible(console.text) : i <= n \/ i <= Len(shown)}

(* While a text is drawn the screen shows what it showed before, which is  *)
(* drawn again to the same places, and what is drawn already.              *)
ScreenInv ==
  /\ pc = "off" => shown = <<>>
  /\ pc = "draw" => drawn <= Len(console.text) /\ cursor = CursorAt(console.text, drawn)
  /\ pc # "lost" =>
       /\ Len(shown) <= Len(console.text)
       /\ \A i \in 1 .. Len(shown) : console.text[i] = shown[i]
       /\ pc # "draw" => Displays(screen, console.text, Displayed(0))
       /\ pc = "draw" => Displays(screen, console.text, Displayed(drawn))

LEMMA ClearDisplays ==
  ASSUME NEW text, NEW drawing, drawing = {}
  PROVE  Displays(fb_clear, text, drawing)
BY DEF Displays, fb_clear

(* Nothing moves on the screen when the text grows. *)
LEMMA GrownDisplays ==
  ASSUME NEW pixels, NEW text \in Texts, NEW longer \in Texts, NEW n \in Nat,
         n <= Len(text), Len(text) <= Len(longer),
         \A i \in 1 .. Len(text) : longer[i] = text[i],
         Displays(pixels, text, {i \in Visible(text) : i <= n})
  PROVE  Displays(pixels, longer, {i \in Visible(longer) : i <= n})
<1> DEFINE before == {i \in Visible(text) : i <= n}
           after  == {i \in Visible(longer) : i <= n}
<1>1. Len(text) \in Nat /\ Len(longer) \in Nat
  BY DEF Texts
<1>2. \A i \in 1 .. n : longer[i] = text[i]
  BY <1>1
<1>3. before = after
  BY <1>1, <1>2 DEF Visible
<1>4. \A i \in after : longer[i] = text[i] /\ Place(longer, i) = Place(text, i)
  <2> TAKE i \in after
  <2>1. i \in Nat \ {0} /\ i \in 1 .. n
    BY <1>1 DEF Visible
  <2>2. \A k \in 1 .. i : longer[k] = text[k]
    BY <1>2, <2>1
  <2> QED
    BY <1>2, <2>1, <2>2, PlaceKept
<1>5. Displays(pixels, text, before)
  OBVIOUS
<1> HIDE DEF before, after
<1>6. Displays(pixels, longer, after)
  BY <1>3, <1>4, <1>5 DEF Displays
<1> QED
  BY <1>6 DEF after

-----------------------------------------------------------------------------
(* What a write leaves of the text: it grows at its end, if at all. *)
LEMMA WriteGrows ==
  ASSUME LogInv,
         NEW written, written = boutcon_write_no_display(console, line)
  PROVE  /\ Len(console.text) <= Len(written.text)
         /\ \A i \in 1 .. Len(console.text) : written.text[i] = console.text[i]
<1>1. console.text \in Seq(Char) /\ line \in Seq(Char)
  BY DEF LogInv, LogTypeOK, BasicOutputConsole, Texts
<1>2. CASE OUTBUFFER_SIZE - Len(console.text) < Len(line)
  BY <1>1, <1>2 DEF boutcon_write_no_display
<1>3. CASE ~ (OUTBUFFER_SIZE - Len(console.text) < Len(line))
  <2>1. written.text = console.text \o line
    BY <1>3 DEF boutcon_write_no_display, strcat, TextOf, Literal
  <2> QED
    BY <1>1, <2>1, ConcatProperties
<1> QED
  BY <1>2, <1>3

LEMMA ScreenInitially == Init => ScreenInv
<1> SUFFICES ASSUME Init PROVE ScreenInv
  OBVIOUS
<1>1. pc = "off" /\ shown = <<>> /\ console.text = <<>> /\ screen = fb_clear
  BY DEF Init, boutcon_init
<1>2. Displayed(0) = {}
  BY <1>1 DEF Displayed, Visible
<1>3. Displays(screen, console.text, Displayed(0))
  BY <1>1, <1>2, ClearDisplays
<1> QED
  BY <1>1, <1>3 DEF ScreenInv

(* Of the steps that neither write nor draw. *)
LEMMA ScreenUntouched ==
  ASSUME ScreenInv, UNCHANGED <<console, screen, cursor, drawn, shown>>,
         pc \notin {"off", "draw", "lost"}, pc' \notin {"off", "draw"}
  PROVE  ScreenInv'
<1>1. Displayed(0)' = Displayed(0)
  BY DEF Displayed
<1>2. pc' # "lost" =>
        /\ Len(shown') <= Len(console'.text)
        /\ \A i \in 1 .. Len(shown') : console'.text[i] = shown'[i]
        /\ Displays(screen', console'.text, Displayed(0)')
  BY <1>1 DEF ScreenInv
<1> QED
  BY <1>2 DEF ScreenInv

(* Of the steps that write. *)
LEMMA ScreenKeptByWrite ==
  ASSUME LogInv, ScreenInv, WriteDisplayed \/ WriteOnly
  PROVE  ScreenInv'
<1>1. /\ Len(shown) <= Len(console.text)
      /\ \A i \in 1 .. Len(shown) : console.text[i] = shown[i]
      /\ Displays(screen, console.text, Displayed(0))
      /\ shown' = shown /\ screen' = screen
      /\ console' = boutcon_write_no_display(console, line)
  BY DEF ScreenInv, WriteDisplayed, WriteOnly
<1>2. /\ Len(console.text) <= Len(console'.text)
      /\ \A i \in 1 .. Len(console.text) : console'.text[i] = console.text[i]
  BY <1>1, WriteGrows
<1>3. console.text \in Texts /\ console'.text \in Texts /\ Len(shown) \in Nat
  <2>1. console' \in BasicOutputConsole
    BY <1>1, WriteTyped
  <2> QED
    BY <2>1 DEF LogInv, LogTypeOK, BasicOutputConsole, Texts
<1>4. Len(console.text) \in Nat /\ Len(console'.text) \in Nat
  BY <1>3 DEF Texts
<1>5. /\ Displayed(0) = {i \in Visible(console.text) : i <= Len(shown)}
      /\ Displayed(0)' = {i \in Visible(console'.text) : i <= Len(shown)}
  BY <1>1, <1>3, <1>4 DEF Displayed, Visible
<1>6. Displays(screen, console'.text, Displayed(0)')
  BY <1>1, <1>2, <1>3, <1>5, GrownDisplays
<1>7. /\ Len(shown') <= Len(console'.text)
      /\ \A i \in 1 .. Len(shown') : console'.text[i] = shown'[i]
      /\ Displays(screen', console'.text, Displayed(0)')
  BY <1>1, <1>2, <1>3, <1>4, <1>6
<1>8. CASE WriteOnly
  BY <1>7, <1>8 DEF WriteOnly, ScreenInv
<1>9. CASE WriteDisplayed
  <2>1. pc' = "draw" /\ cursor' = [x |-> 0, y |-> 0] /\ drawn' = 0
    BY <1>9 DEF WriteDisplayed
  <2>2. cursor' = CursorAt(console'.text, drawn') /\ 0 <= Len(console'.text)
    BY <1>4, <2>1, CursorBegins
  <2>3. Displayed(drawn)' = Displayed(0)'
    BY <2>1
  <2> QED
    BY <1>7, <2>1, <2>2, <2>3 DEF ScreenInv
<1> QED
  BY <1>8, <1>9

(* Of the steps that draw. *)
LEMMA ScreenKeptByDrawing ==
  ASSUME LogInv, ScreenInv, DrawCharacter
  PROVE  ScreenInv'
<1> DEFINE text == console.text
           i == drawn + 1
           at == Placed(cursor, text[i])
<1>1. /\ pc = "draw" /\ drawn < Len(text) /\ console' = console /\ shown' = shown
      /\ cursor = CursorAt(text, drawn)
      /\ Len(shown) <= Len(text)
      /\ \A k \in 1 .. Len(shown) : text[k] = shown[k]
      /\ Displays(screen, text, Displayed(drawn))
  BY DEF ScreenInv, DrawCharacter
<1>2. drawn \in Nat /\ text \in Seq(Char) /\ Len(text) \in Nat /\ Len(shown) \in Nat
      /\ screen \in Screen
  BY DEF LogInv, LogTypeOK, BasicOutputConsole, Texts
<1>3. i \in 1 .. Len(text) /\ i \in Nat
  BY <1>1, <1>2
<1>4. \/ pc' = "lost"
      \/ /\ text[i] = NEWLINE
         /\ cursor' = at /\ drawn' = i /\ UNCHANGED <<screen, pc>>
      \/ /\ text[i] # NEWLINE /\ OnScreen(at)
         /\ screen' = fb_psf_draw_character(screen, text[i], at)
         /\ cursor' = [at EXCEPT !.x = @ + FONT_WIDTH] /\ drawn' = i /\ pc' = pc
  BY DEF DrawCharacter
<1>5. Displayed(drawn)' = {k \in Visible(text) : k <= drawn' \/ k <= Len(shown)}
  BY <1>1 DEF Displayed
<1>6. CASE pc' = "lost"
  BY <1>6 DEF ScreenInv
<1>7. CASE /\ text[i] = NEWLINE
           /\ cursor' = at /\ drawn' = i /\ UNCHANGED <<screen, pc>>
  <2>1. at = CursorAt(text, i)
    BY <1>1, <1>2, <1>7, CharacterPlaced
  <2>2. Displayed(drawn)' = Displayed(drawn)
    <3>1. \A k \in Visible(text) : k # i /\ k \in Int
      BY <1>7, <1>2 DEF Visible
    <3>2. \A k \in Visible(text) : k <= i <=> k <= drawn
      BY <1>2, <3>1
    <3> QED
      BY <1>5, <1>7, <3>2 DEF Displayed
  <2> HIDE DEF at, i
  <2>3. /\ cursor' = CursorAt(console'.text, drawn') /\ drawn' <= Len(console'.text)
        /\ Displays(screen', console'.text, Displayed(drawn)')
    BY <1>1, <1>2, <1>3, <1>7, <2>1, <2>2
  <2> QED
    BY <1>1, <1>7, <2>3 DEF ScreenInv
<1>8. CASE /\ text[i] # NEWLINE /\ OnScreen(at)
           /\ screen' = fb_psf_draw_character(screen, text[i], at)
           /\ cursor' = [at EXCEPT !.x = @ + FONT_WIDTH] /\ drawn' = i /\ pc' = pc
  <2>1. /\ <<at.x, at.y>> = Place(text, i)
        /\ [at EXCEPT !.x = @ + FONT_WIDTH] = CursorAt(text, i)
    BY <1>1, <1>2, <1>8, CharacterPlaced
  <2>2. i \in Visible(text) /\ Displayed(drawn) \in SUBSET Visible(text)
    BY <1>3, <1>8 DEF Visible, Displayed
  <2>3. Displays(screen', text, Displayed(drawn) \cup {i})
    BY <1>1, <1>2, <1>8, <2>1, <2>2, DrawnOver
  <2>4. Displayed(drawn)' = Displayed(drawn) \cup {i}
    <3>1. \A k \in Visible(text) : k \in Int
      BY DEF Visible
    <3>2. \A k \in Visible(text) : k <= i <=> k <= drawn \/ k = i
      BY <1>2, <3>1
    <3> QED
      BY <1>5, <1>8, <2>2, <3>2 DEF Displayed
  <2> HIDE DEF at, i
  <2>5. /\ cursor' = CursorAt(console'.text, drawn') /\ drawn' <= Len(console'.text)
        /\ Displays(screen', console'.text, Displayed(drawn)')
    BY <1>1, <1>2, <1>3, <1>8, <2>1, <2>3, <2>4
  <2> QED
    BY <1>1, <1>8, <2>5 DEF ScreenInv
<1> QED
  BY <1>4, <1>6, <1>7, <1>8

LEMMA ScreenKeptByEnd ==
  ASSUME LogInv, ScreenInv, EndDraw
  PROVE  ScreenInv'
<1>1. /\ pc' = "idle" /\ shown' = console.text /\ console' = console /\ screen' = screen
      /\ drawn = Len(console.text)
      /\ Len(shown) <= Len(console.text)
      /\ Displays(screen, console.text, Displayed(drawn))
  BY DEF ScreenInv, EndDraw
<1>2. /\ console.text \in Seq(Char) /\ Len(console.text) \in Nat /\ Len(shown) \in Nat
  BY DEF LogInv, LogTypeOK, BasicOutputConsole, Texts
<1>3. \A i \in Visible(console.text) : i <= Len(console.text)
  BY <1>2 DEF Visible
<1>4. Displayed(drawn) = Visible(console.text) /\ Displayed(0)' = Visible(console.text)
  BY <1>1, <1>3 DEF Displayed
<1>5. /\ Len(shown') <= Len(console'.text)
      /\ \A i \in 1 .. Len(shown') : console'.text[i] = shown'[i]
      /\ Displays(screen', console'.text, Displayed(0)')
  BY <1>1, <1>2, <1>4
<1> QED
  BY <1>1, <1>5 DEF ScreenInv

LEMMA ScreenStep == LogInv /\ ScreenInv /\ [Next]_vars => ScreenInv'
<1> SUFFICES ASSUME LogInv, ScreenInv, [Next]_vars
             PROVE  ScreenInv'
  OBVIOUS
<1>1. CASE InitDisplay
  <2>1. /\ pc' = "format" /\ screen' = fb_clear /\ console'.text = <<>> /\ shown' = <<>>
    BY <1>1 DEF InitDisplay, boutcon_init, ScreenInv
  <2>2. Displayed(0)' = {}
    BY <2>1 DEF Displayed, Visible
  <2>3. Displays(screen', console'.text, Displayed(0)')
    BY <2>1, <2>2, ClearDisplays
  <2> QED
    BY <2>1, <2>3 DEF ScreenInv
<1>2. CASE klog_set_log_mode \/ CallKlogf \/ CallKlog \/ CallDescribe \/ CorrectMode
  BY <1>2, ScreenUntouched
  DEF klog_set_log_mode, CallKlogf, CallKlog, CallDescribe, CorrectMode, logger
<1>3. ASSUME NEW k \in 1 .. 5, DescribeNoClass(k) \/ DescribeByName(k) \/ DescribeByNumber(k)
      PROVE  ScreenInv'
  BY <1>3, ScreenUntouched DEF DescribeNoClass, DescribeByName, DescribeByNumber, logger
<1>4. CASE FormatDescription \/ Converting
  BY <1>4, ScreenUntouched
  DEF FormatDescription, Converting, WriteDigit, ReturnArgument, ReturnNumber, Appended, logger
<1>5. CASE klogf
  <2>1. pc = "format" /\ UNCHANGED logger /\ pc' \in {"format", "itoa", "lost", "log"}
    BY <1>5
    DEF klogf, FormatLiteral, FormatString, FormatCharacter, FormatNumber, FormatMissing,
        FormatPercent, FormatUnknown, FormatBeyondEnd, EndFormat, Converts, Reads, Appended
  <2> QED
    BY <2>1, ScreenUntouched DEF logger
<1>6. CASE WriteDisplayed \/ WriteOnly
  BY <1>6, ScreenKeptByWrite
<1>7. CASE DrawCharacter
  BY <1>7, ScreenKeptByDrawing
<1>8. CASE EndDraw
  BY <1>8, ScreenKeptByEnd
<1>9. CASE UNCHANGED vars
  BY <1>9 DEF vars, ScreenInv, Displayed, Displays
<1> QED
  BY <1>1, <1>2, <1>3, <1>4, <1>5, <1>6, <1>7, <1>8, <1>9
  DEF Next, Describing, klog

(* The text keeps what was displayed, and the screen shows it and, after   *)
(* every drawn character, the text drawn so far, each character in the     *)
(* place its position asks for, and nothing else, in whatever modes and    *)
(* however often the text was drawn over what was there (psf.c:31-43,      *)
(* basic_output_console.c:21-35, klog.c:14-25).                            *)
THEOREM ScreenAlwaysShowsText == Spec => []ScreenShowsText
<1> DEFINE text == console.text
           last == IF pc = "draw" /\ drawn > Len(shown) THEN drawn ELSE Len(shown)
           on == {j \in Visible(text) : j <= last}
           places == {<<Place(text, i), text[i]>> : i \in on}
<1>1. ASSUME LogInv, ScreenInv, pc # "lost"
      PROVE  SubSeq(text, 1, Len(shown)) = shown /\ Displays(screen, text, on)
  <2>1. /\ Len(shown) <= Len(text)
        /\ \A i \in 1 .. Len(shown) : text[i] = shown[i]
        /\ pc # "draw" => Displays(screen, text, Displayed(0))
        /\ pc = "draw" => Displays(screen, text, Displayed(drawn))
    BY <1>1 DEF ScreenInv
  <2>2. /\ shown \in Seq(Char) /\ text \in Seq(Char) /\ drawn \in Nat
        /\ Len(shown) \in Nat /\ Len(text) \in Nat
    BY <1>1 DEF LogInv, LogTypeOK, BasicOutputConsole, Texts
  <2>3. SubSeq(text, 1, Len(shown)) = shown
    <3> DEFINE m == SubSeq(text, 1, Len(shown))
    <3>1. m \in Seq(Char) /\ Len(m) = Len(shown) /\ \A i \in 1 .. Len(shown) : m[i] = text[i]
      <4>1. /\ 1 \in 1 .. Len(text) + 1 /\ Len(shown) \in 0 .. Len(text)
        BY <2>1, <2>2
      <4> HIDE DEF text
      <4>2. Len(m) = Len(shown) /\ \A i \in 1 .. Len(shown) : m[i] = text[i]
        BY <2>2, <4>1
      <4>3. m \in Seq(Char)
        BY <2>2, <4>1
      <4> QED
        BY <4>2, <4>3
    <3> HIDE DEF m, text
    <3>2. m = shown
      BY <2>1, <2>2, <3>1, SeqEqual
    <3> QED
      BY <3>2 DEF m
  <2>4. \A i \in Visible(text) : i \in Nat /\ i >= 1
    BY <2>2 DEF Visible
  <2>5. on = IF pc = "draw" THEN Displayed(drawn) ELSE Displayed(0)
    BY <2>2, <2>4 DEF Displayed
  <2> QED
    BY <2>1, <2>3, <2>5
<1> HIDE DEF last, text
<1>2. ASSUME Displays(screen, text, on), NEW x \in Column, NEW y \in Line
      PROVE  LET here == {p \in places : p[1] = <<x, y>>}
             IN  IF here = {} THEN screen[x][y] = BLANK
                 ELSE here = {<<<<x, y>>, screen[x][y]>>}
  <2> DEFINE here == {p \in places : p[1] = <<x, y>>}
  <2>1. \A p \in here : p = <<<<x, y>>, screen[x][y]>>
    <3> TAKE p \in here
    <3>1. PICK i \in on : p = <<Place(text, i), text[i]>> /\ Place(text, i) = <<x, y>>
      OBVIOUS
    <3>2. screen[x][y] = text[i]
      BY <1>2, <3>1 DEF Displays
    <3> QED
      BY <3>1, <3>2
  <2>2. here = {} => screen[x][y] = BLANK
    <3> SUFFICES ASSUME screen[x][y] # BLANK PROVE here # {}
      OBVIOUS
    <3>1. PICK i \in on : Place(text, i) = <<x, y>>
      BY <1>2 DEF Displays
    <3>2. <<Place(text, i), text[i]>> \in here
      BY <3>1
    <3> QED
      BY <3>2
  <2> HIDE DEF here
  <2>3. IF here = {} THEN screen[x][y] = BLANK ELSE here = {<<<<x, y>>, screen[x][y]>>}
    BY <2>1, <2>2
  <2> QED
    BY <2>3 DEF here
<1>3. LogInv /\ ScreenInv => ScreenShowsText
  BY <1>1, <1>2 DEF ScreenShowsText, last, text
<1> QED
  BY <1>3, LogInitially, LogStep, ScreenInitially, ScreenStep, PTL DEF Spec

-----------------------------------------------------------------------------
(* What klogf writes.  The invariant says, while a device is described,    *)
(* what the arguments evaluated so far are, and while klogf reads its      *)
(* format, that its line is what the characters read so far make of the    *)
(* arguments as they are now.  An argument in itoa's buffer keeps its      *)
(* length, whatever is written over it, and keeps its text while there is  *)
(* only one: the line is as long as it was meant to be, and then says it.  *)

(* The text of the k-th argument of the description. *)
DescribedText(k) ==
  IF Described(k, device).name # NUL THEN <<Described(k, device).name>>
  ELSE Numeral(Described(k, device).number, 16)

InBuffer(arguments) == {k \in DOMAIN arguments : arguments[k].string.at # 0}

(* Arguments and what was meant by them agree in all but the characters    *)
(* that itoa's buffer holds; and in these too.                             *)
Means(arguments) ==
  /\ DOMAIN meant = DOMAIN arguments
  /\ \A k \in DOMAIN arguments :
       /\ meant[k] \in Argument
       /\ meant[k].number = arguments[k].number
       /\ meant[k].character = arguments[k].character
       /\ Len(meant[k].string.text) = Len(TextOf(arguments[k].string, buf))
       /\ arguments[k].string.at = 0 => meant[k].string.text = arguments[k].string.text

Says(arguments) ==
  \A k \in DOMAIN arguments : meant[k].string.text = TextOf(arguments[k].string, buf)

(* Arguments of the description that are not in the buffer are its texts,  *)
(* the others have no name; and one of these, the last one evaluated, the  *)
(* buffer still holds in full.                                             *)
Nameless(k) ==
  Described(k, device).name = NUL /\ Described(k, device).number = Codes(device)[k]

Told(arguments) ==
  \A k \in DOMAIN arguments :
    IF arguments[k].string.at = 0 THEN arguments[k].string.text = DescribedText(k)
    ELSE Nameless(k)

Freshest(arguments) ==
  InBuffer(arguments) # {} =>
    \E k \in InBuffer(arguments) : TextOf(arguments[k].string, buf) = DescribedText(k)

Reported ==
  called.fmt = DeviceFormat =>
    /\ device \in Devices /\ DOMAIN called.args = 1 .. 5
    /\ Told(called.args) /\ Freshest(called.args)

(* The digits that a call of itoa has written; and what they are of the    *)
(* numeral.                                                                *)
Written(c, b) == [k \in 1 .. LAST_CELL - c.i |-> b[c.i + k]]

ConvertsTo(number, base, c, b) ==
  /\ c.base = base
  /\ IF c.i = LAST_CELL THEN c.val = number
     ELSE Numeral(number, base) =
            IF c.val = 0 THEN Written(c, b) ELSE Numeral(c.val, base) \o Written(c, b)

Fits(number, base) == Len(Numeral(number, base)) <= LAST_CELL

DescribingSound ==
  pc = "describe" \/ (pc = "itoa" /\ slot # 0) =>
    /\ device \in Devices
    /\ Means(names)
    /\ Told(names)
    /\ pc = "describe" \/ itoa.i = LAST_CELL =>
         Freshest(names) /\ (Cardinality(InBuffer(names)) < 2 => Says(names))
    /\ \A k \in DOMAIN names : names[k].number = 0
    /\ pc = "itoa" => /\ slot \notin DOMAIN names
                      /\ Nameless(slot)
                      /\ Described(slot, device).number \in Nat
                      /\ Fits(Described(slot, device).number, 16)
                      /\ ConvertsTo(Described(slot, device).number, 16, itoa, buf)

(* How many characters of its format klogf has read. *)
Read == Len(called.fmt) - Len(fmt)

FormatSound ==
  pc = "format" \/ (pc = "itoa" /\ slot = 0) =>
    LET f == called.fmt
        t == Cardinality(Taken(f, Read + 1))
    IN  /\ Read \in 0 .. Len(f) /\ Read \notin Starts(f)
        /\ fmt = SubSeq(f, Read + 1, Len(f))
        /\ t <= Len(called.args)
        /\ args = SubSeq(called.args, t + 1, Len(called.args))
        /\ Means(called.args)
        /\ Cardinality(Shared) < 2 => Says(called.args)
        /\ \A k \in DOMAIN called.args, base \in {10, 16} : Fits(called.args[k].number, base)
        /\ \A k \in DOMAIN called.args : Sound(called.args[k].string, buf)
        /\ Shared # {} => f = DeviceFormat
        /\ Reported
        /\ pc = "format" => line = Expansions(f, Printed)[Read]
        /\ pc = "itoa" =>
             /\ Shared = {}
             /\ Read - 1 \in Starts(f) /\ f[Read] \in {"d", "x", "p"}
             /\ line = Expansions(f, Printed)[Read - 2]
             /\ t > 0 /\ ConvertsTo(Printed[t].number, IF f[Read] = "d" THEN 10 ELSE 16, itoa, buf)

LineSound ==
  pc = "log" /\ called.fmt = DeviceFormat =>
    line = Expansion(DeviceFormat, Printed) /\ Reported

LineInv == DescribingSound /\ FormatSound /\ LineSound /\ LineExact /\ LostOnlyAtLimits

-----------------------------------------------------------------------------
(* Recursion.                                                              *)

(* A set of natural numbers has a least one. *)
LEMMA Minimum ==
  ASSUME NEW S \in SUBSET Nat, S # {}
  PROVE  \E m \in S : \A x \in S : m <= x
<1> DEFINE R == OpToRel(<, Nat)
<1>1. IsWellFoundedOn(R, Nat)
  BY NatLessThanWellFounded, Zenon
<1>2. R = {p \in Nat \X Nat : p[1] < p[2]}
  BY DEF OpToRel
<1> HIDE DEF R
<1>3. PICK m \in S : \A x \in S : ~ <<x, m>> \in R
  BY <1>1, WFMin
<1>4. ASSUME NEW x \in S  PROVE m <= x
  <2>1. x < m => <<x, m>> \in R
    BY <1>2
  <2> QED
    BY <1>3, <2>1
<1> QED
  BY <1>4

(* A value for 0 and a step from the value at a smaller number, which may  *)
(* depend on the number, define a function on all numbers.                 *)
Descends(prior) == prior \in [Nat -> Nat] /\ \A n \in Nat \ {0} : prior[n] < n

Recurs(f, first, prior, step) ==
  f[0] = first /\ \A n \in Nat \ {0} : f[n] = step[n][f[prior[n]]]

LEMMA RecursionDefines ==
  ASSUME NEW X, NEW first \in X, NEW prior, Descends(prior),
         NEW step \in [Nat -> [X -> X]]
  PROVE  \E f \in [Nat -> X] : Recurs(f, first, prior, step)
<1>0. prior \in [Nat -> Nat] /\ \A n \in Nat \ {0} : prior[n] < n
  BY DEF Descends
<1> DEFINE Upto(m, g) ==
      /\ g \in [0 .. m -> X]
      /\ g[0] = first
      /\ \A i \in 1 .. m : g[i] = step[i][g[prior[i]]]
<1>1. ASSUME NEW m \in Nat, NEW k \in Nat, NEW g, NEW h, Upto(m, g), Upto(k, h),
             NEW i \in 0 .. m, i <= k
      PROVE  g[i] = h[i]
  <2> DEFINE S == {j \in Nat : j <= m /\ j <= k /\ g[j] # h[j]}
  <2>0. i \in Nat /\ i <= m
    OBVIOUS
  <2> SUFFICES ASSUME S # {}  PROVE FALSE
    BY <1>1, <2>0, Zenon
  <2>1. PICK l \in S : \A x \in S : l <= x
    BY Minimum
  <2>2. l # 0
    BY <1>1, <2>1
  <2>3. /\ l \in 1 .. m /\ l \in 1 .. k /\ l \in Nat \ {0}
        /\ prior[l] \in Nat /\ prior[l] < l
    BY <1>0, <2>1, <2>2
  <2>4. g[prior[l]] = h[prior[l]]
    BY <2>1, <2>3
  <2>5. g[l] = step[l][g[prior[l]]] /\ h[l] = step[l][h[prior[l]]]
    BY <1>1, <2>3
  <2> QED
    BY <2>1, <2>4, <2>5
<1>2. \A m \in Nat : \E g : Upto(m, g)
  <2> DEFINE S == {m \in Nat : ~ \E g : Upto(m, g)}
  <2> SUFFICES ASSUME S # {}  PROVE FALSE
    OBVIOUS
  <2>1. PICK l \in S : \A x \in S : l <= x
    BY Minimum
  <2>2. CASE l = 0
    <3>1. Upto(0, [i \in 0 .. 0 |-> first])
      OBVIOUS
    <3> QED
      BY <2>1, <2>2, <3>1
  <2>3. CASE l # 0
    <3>1. l - 1 \in Nat /\ l \in Nat \ {0} /\ ~ l <= l - 1
      BY <2>1, <2>3
    <3>2. PICK g : Upto(l - 1, g)
      BY <2>1, <3>1
    <3>3. prior[l] \in 0 .. l - 1
      BY <1>0, <3>1
    <3> DEFINE h == [i \in 0 .. l |-> IF i = l THEN step[l][g[prior[l]]] ELSE g[i]]
    <3>4. g[prior[l]] \in X /\ step[l][g[prior[l]]] \in X
      BY <3>1, <3>2, <3>3
    <3>5. \A i \in 0 .. l - 1 : h[i] = g[i] /\ h[i] \in X
      BY <3>1, <3>2
    <3>6. h \in [0 .. l -> X] /\ h[0] = first
      BY <3>1, <3>2, <3>4, <3>5
    <3>7. ASSUME NEW i \in 1 .. l  PROVE h[i] = step[i][h[prior[i]]]
      <4>1. CASE i = l
        BY <4>1, <3>1, <3>3, <3>5
      <4>2. CASE i # l
        <5>1. i \in 1 .. l - 1 /\ i \in Nat \ {0}
          BY <4>2, <3>1
        <5>2. prior[i] \in 0 .. l - 1
          BY <1>0, <5>1, <3>1
        <5>3. i \in 0 .. l - 1
          BY <5>1
        <5>4. h[i] = g[i] /\ h[prior[i]] = g[prior[i]]
          BY <5>2, <5>3, <3>5
        <5>5. g[i] = step[i][g[prior[i]]]
          BY <3>2, <5>1
        <5> QED
          BY <5>4, <5>5
      <4> QED
        BY <4>1, <4>2
    <3> HIDE DEF h
    <3>8. Upto(l, h)
      BY <3>6, <3>7
    <3> QED
      BY <2>1, <3>8
  <2> QED
    BY <2>2, <2>3
<1> DEFINE G(m) == CHOOSE g : Upto(m, g)
           f == [n \in Nat |-> G(n)[n]]
<1>3. ASSUME NEW m \in Nat  PROVE Upto(m, G(m))
  BY <1>2
<1> HIDE DEF Upto, G
<1>4. ASSUME NEW m \in Nat
      PROVE  /\ G(m) \in [0 .. m -> X] /\ G(m)[0] = first
             /\ \A i \in 1 .. m : G(m)[i] = step[i][G(m)[prior[i]]]
  BY <1>3 DEF Upto
<1>5. f \in [Nat -> X]
  BY <1>4
<1>6. f[0] = first
  BY <1>4
<1>7. ASSUME NEW n \in Nat \ {0}  PROVE f[n] = step[n][f[prior[n]]]
  <2>1. prior[n] \in 0 .. n /\ prior[n] \in Nat /\ n \in 1 .. n
    BY <1>0
  <2>2. G(n)[prior[n]] = G(prior[n])[prior[n]]
    BY <1>1, <1>3, <2>1
  <2>3. G(n)[n] = step[n][G(n)[prior[n]]]
    BY <1>4, <2>1
  <2> QED
    BY <2>1, <2>2, <2>3
<1> HIDE DEF f
<1>8. Recurs(f, first, prior, step)
  BY <1>6, <1>7 DEF Recurs
<1> QED
  BY <1>5, <1>8

-----------------------------------------------------------------------------
(* The conversions of a format.                                            *)
LEMMA StartsStep ==
  ASSUME NEW f \in Texts, NEW i \in 1 .. Len(f)
  PROVE  i \in Starts(f) <=> f[i] = "%" /\ i - 1 \notin Starts(f)
<1> DEFINE Run(n) == {j \in 1 .. n : \A k \in j .. n : f[k] = "%"}
<1>1. Len(f) \in Nat
  BY DEF Texts
<1>2. \A n \in 1 .. Len(f) : n \in Starts(f) <=> Cardinality(Run(n)) % 2 = 1
  BY DEF Starts
<1>3. CASE f[i] # "%"
  <2>1. Run(i) = {}
    BY <1>1, <1>3
  <2>2. Cardinality(Run(i)) = 0
    BY <2>1, FS_EmptySet
  <2> QED
    BY <1>2, <1>3, <2>2
<1>4. CASE f[i] = "%"
  <2>1. i - 1 \in Nat /\ IsFiniteSet(Run(i - 1))
    <3>1. i - 1 \in Int /\ 1 \in Int
      BY <1>1
    <3>2. IsFiniteSet(1 .. i - 1)
      BY <3>1, FS_Interval
    <3>3. Run(i - 1) \subseteq 1 .. i - 1
      OBVIOUS
    <3> HIDE DEF Run
    <3> QED
      BY <1>1, <3>2, <3>3, FS_Subset
  <2>2. Run(i) = Run(i - 1) \cup {i} /\ i \notin Run(i - 1)
    <3>1. \A j \in 1 .. i : j = i \/ j \in 1 .. i - 1
      BY <1>1
    <3>2. \A j \in 1 .. i - 1 : \A k \in j .. i : k = i \/ k \in j .. i - 1
      BY <1>1
    <3>3. \A j \in 1 .. i - 1 : j \in 1 .. i /\ \A k \in j .. i - 1 : k \in j .. i
      BY <1>1
    <3>4. i \in 1 .. i /\ \A k \in i .. i : k = i
      BY <1>1
    <3>5. i \notin 1 .. i - 1
      BY <1>1
    <3> QED
      BY <1>4, <3>1, <3>2, <3>3, <3>4, <3>5
  <2>3. /\ Cardinality(Run(i)) = Cardinality(Run(i - 1)) + 1
        /\ Cardinality(Run(i - 1)) \in Nat
    BY <2>1, <2>2, FS_AddElement, FS_CardinalityType
  <2>4. i - 1 \in Starts(f) <=> Cardinality(Run(i - 1)) % 2 = 1
    <3>1. CASE i - 1 = 0
      <4>1. Run(0) = {} /\ 0 \notin Starts(f)
        BY DEF Starts
      <4> QED
        BY <3>1, <4>1, FS_EmptySet
    <3>2. CASE i - 1 # 0
      <4>1. i - 1 \in 1 .. Len(f)
        BY <1>1, <3>2
      <4> QED
        BY <1>2, <4>1
    <3> QED
      BY <3>1, <3>2
  <2> HIDE DEF Run
  <2>5. \A c \in Nat : (c + 1) % 2 = 1 <=> ~ c % 2 = 1
    OBVIOUS
  <2> QED
    BY <1>2, <1>4, <2>3, <2>4, <2>5
<1> QED
  BY <1>3, <1>4

LEMMA StartsTyped ==
  ASSUME NEW f \in Texts
  PROVE  /\ Starts(f) \subseteq 1 .. Len(f) /\ 0 \notin Starts(f)
         /\ \A i \in Starts(f) : f[i] = "%" /\ i - 1 \notin Starts(f)
<1>1. Starts(f) \subseteq 1 .. Len(f) /\ Len(f) \in Nat
  BY DEF Starts, Texts
<1> QED
  BY <1>1, StartsStep

(* The conversions before a place are one more when a conversion that      *)
(* takes an argument is passed.                                            *)
LEMMA TakenStep ==
  ASSUME NEW f \in Texts, NEW i \in 1 .. Len(f)
  PROVE  /\ IsFiniteSet(Taken(f, i)) /\ Cardinality(Taken(f, i)) \in Nat
         /\ IF i \in Starts(f) /\ f[i + 1] \in Conversions
            THEN Cardinality(Taken(f, i + 1)) = Cardinality(Taken(f, i)) + 1
            ELSE Taken(f, i + 1) = Taken(f, i)
<1>1. Len(f) \in Nat /\ Starts(f) \subseteq 1 .. Len(f)
  BY StartsTyped DEF Texts
<1>2. IsFiniteSet(Taken(f, i)) /\ Cardinality(Taken(f, i)) \in Nat
  <2>1. Taken(f, i) \subseteq 1 .. Len(f)
    BY <1>1 DEF Taken
  <2>2. IsFiniteSet(1 .. Len(f))
    BY <1>1, FS_Interval
  <2> QED
    BY <2>1, <2>2, FS_Subset, FS_CardinalityType
<1>3. \A j \in Starts(f) : j < i + 1 <=> j < i \/ j = i
  BY <1>1
<1>4. CASE i \in Starts(f) /\ f[i + 1] \in Conversions
  <2>1. Taken(f, i + 1) = Taken(f, i) \cup {i} /\ i \notin Taken(f, i)
    BY <1>1, <1>3, <1>4 DEF Taken
  <2> QED
    BY <1>2, <1>4, <2>1, FS_AddElement
<1>5. CASE ~ (i \in Starts(f) /\ f[i + 1] \in Conversions)
  BY <1>2, <1>3, <1>5 DEF Taken
<1> QED
  BY <1>2, <1>4, <1>5

-----------------------------------------------------------------------------
(* Numerals.                                                               *)
LEMMA DivisionDescends ==
  ASSUME NEW n \in Nat, NEW base \in Nat, base > 1
  PROVE  /\ n \div base \in Nat /\ n % base \in 0 .. base - 1
         /\ n # 0 => n \div base < n
         /\ n \div base = 0 <=> n < base
         /\ n < base => n % base = n
<1> DEFINE q == n \div base
           r == n % base
<1>1. q \in Nat /\ r \in 0 .. base - 1 /\ n = base * q + r
  <2>1. base \in Nat \ {0}
    OBVIOUS
  <2> QED
    BY <2>1, Divided
<1> HIDE DEF q, r
<1>2. base * q >= 2 * q /\ base * q \in Nat
  <2>1. (base - 2) * q \in Nat /\ base * q = 2 * q + (base - 2) * q
    BY <1>1
  <2> QED
    BY <1>1, <2>1
<1>3. q # 0 => base * q >= base
  <2>1. q # 0 => q - 1 \in Nat /\ base * (q - 1) \in Nat /\ base * q = base + base * (q - 1)
    BY <1>1
  <2> QED
    BY <1>1, <1>2, <2>1
<1>4. q = 0 => base * q = 0
  OBVIOUS
<1> QED
  BY <1>1, <1>2, <1>3, <1>4 DEF q, r

(* A number below the base has one digit, any other one digit more than    *)
(* its quotient.                                                           *)
LEMMA NumeralsExist ==
  ASSUME NEW base \in {10, 16}
  PROVE  /\ Numerals(base) \in [Nat -> Texts]
         /\ \A n \in Nat : Numerals(base)[n] =
              IF n < base THEN <<Digits[n + 1]>>
              ELSE Append(Numerals(base)[n \div base], Digits[(n % base) + 1])
<1> DEFINE prior == [n \in Nat |-> n \div base]
           step  == [n \in Nat |-> [s \in Texts |->
                       IF n < base THEN <<Digits[n + 1]>>
                       ELSE Append(s, Digits[(n % base) + 1])]]
           first == <<Digits[1]>>
           Is(f) == f = [n \in Nat |->
                           IF n < base THEN <<Digits[n + 1]>>
                           ELSE Append(f[n \div base], Digits[(n % base) + 1])]
<1>1. base \in Nat /\ base > 1 /\ base <= 16
  OBVIOUS
<1>2. \A n \in Nat : n \div base \in Nat /\ (n # 0 => n \div base < n) /\ n % base \in 0 .. base - 1
  BY <1>1, DivisionDescends
<1>3. \A n \in Nat : Digits[(n % base) + 1] \in Char /\ (n < base => Digits[n + 1] \in Char)
  <2> TAKE n \in Nat
  <2>1. n % base \in 0 .. 15 /\ (n < base => n \in 0 .. 15)
    BY <1>1, <1>2
  <2> QED
    BY <2>1, DigitsTyped
<1>4. first \in Texts
  BY DigitsTyped, OneCharacter
<1>5. \A n \in Nat, s \in Texts : step[n][s] \in Texts
  <2> TAKE n \in Nat, s \in Texts
  <2>1. Append(s, Digits[(n % base) + 1]) \in Texts
    BY <1>3, AppendProperties DEF Texts
  <2>2. n < base => <<Digits[n + 1]>> \in Texts
    BY <1>3, OneCharacter
  <2> QED
    BY <2>1, <2>2
<1>6. prior \in [Nat -> Nat] /\ \A n \in Nat \ {0} : prior[n] < n
  BY <1>2
<1>7. step \in [Nat -> [Texts -> Texts]]
  BY <1>5
<1> HIDE DEF first
<1>8. PICK f \in [Nat -> Texts] :
        f[0] = first /\ \A n \in Nat \ {0} : f[n] = step[n][f[prior[n]]]
  <2> HIDE DEF prior, step
  <2>1. Descends(prior)
    BY <1>6 DEF Descends
  <2>2. \E f \in [Nat -> Texts] : Recurs(f, first, prior, step)
    BY <1>4, <1>7, <2>1, RecursionDefines
  <2> QED
    BY <2>2 DEF Recurs
<1>9. ASSUME NEW n \in Nat
      PROVE  f[n] = IF n < base THEN <<Digits[n + 1]>>
                    ELSE Append(f[n \div base], Digits[(n % base) + 1])
  <2>1. CASE n = 0
    <3>1. 0 < base /\ 0 + 1 = 1
      BY <1>1
    <3> QED
      BY <1>8, <2>1, <3>1 DEF first
  <2>2. CASE n # 0
    <3>1. f[n] = step[n][f[n \div base]] /\ f[n \div base] \in Texts
      BY <1>2, <1>8, <2>2
    <3> QED
      BY <3>1
  <2> QED
    BY <2>1, <2>2
<1>10. Is(f)
  BY <1>8, <1>9
<1>11. Numerals(base) = CHOOSE g : Is(g)
  BY DEF Numerals
<1>12. Is(Numerals(base))
  <2> HIDE DEF Is
  <2> QED
    BY <1>10, <1>11
<1> DEFINE N == Numerals(base)
<1> HIDE DEF N
<1>13. \A n \in Nat : N[n] = IF n < base THEN <<Digits[n + 1]>>
                             ELSE Append(N[n \div base], Digits[(n % base) + 1])
  <2> DEFINE body(m) == IF m < base THEN <<Digits[m + 1]>>
                        ELSE Append(N[m \div base], Digits[(m % base) + 1])
  <2>1. N = [n \in Nat |-> body(n)]
    BY <1>12 DEF N
  <2> HIDE DEF body
  <2>2. \A n \in Nat : N[n] = body(n)
    BY <2>1
  <2> QED
    BY <2>2 DEF body
<1>14. \A n \in Nat : N[n] \in Texts
  <2> DEFINE S == {n \in Nat : N[n] \notin Texts}
  <2> SUFFICES ASSUME S # {}  PROVE FALSE
    OBVIOUS
  <2>1. PICK l \in S : \A x \in S : l <= x
    BY Minimum
  <2>2. l < base => <<Digits[l + 1]>> \in Texts
    BY <1>3, <2>1, OneCharacter
  <2>3. l \div base \in Nat /\ (l # 0 => ~ l <= l \div base)
    BY <1>2, <2>1
  <2>4. ~ l < base => Append(N[l \div base], Digits[(l % base) + 1]) \in Texts
    <3> SUFFICES ASSUME ~ l < base  PROVE Append(N[l \div base], Digits[(l % base) + 1]) \in Texts
      OBVIOUS
    <3>1. N[l \div base] \in Texts
      BY <1>1, <2>1, <2>3
    <3> QED
      BY <1>3, <2>1, <3>1, AppendProperties DEF Texts
  <2> QED
    BY <1>13, <2>1, <2>2, <2>4
<1>15. N \in [Nat -> Texts]
  <2>1. \E D : N = [n \in Nat |-> D[n]]
    <3>1. N = [n \in Nat |-> N[n]]
      BY <1>12, Zenon DEF N
    <3> QED
      BY <3>1
  <2> QED
    BY <1>14, <2>1
<1> QED
  BY <1>13, <1>15 DEF N

LEMMA NumeralIs ==
  ASSUME NEW base \in {10, 16}, NEW n \in Nat
  PROVE  /\ Numeral(n, base) \in Texts
         /\ Numeral(n, base) =
              IF n < base THEN <<Digits[n + 1]>>
              ELSE Append(Numeral(n \div base, base), Digits[(n % base) + 1])
BY NumeralsExist DEF Numeral

-----------------------------------------------------------------------------
(* What itoa writes.                                                       *)
LEMMA WrittenTyped ==
  ASSUME LogInv
  PROVE  Written(itoa, buf) \in Texts /\ Len(Written(itoa, buf)) = LAST_CELL - itoa.i
<1>1. itoa.i \in 0 .. LAST_CELL
  BY CellsTyped DEF LogInv, LogTypeOK, PointersSound, Conversion
<1>2. LAST_CELL - itoa.i \in Nat
  BY <1>1, CellsTyped
<1>3. \A k \in 1 .. LAST_CELL - itoa.i : buf[itoa.i + k] \in Char
  <2> TAKE k \in 1 .. LAST_CELL - itoa.i
  <2>1. itoa.i + k \in itoa.i + 1 .. LAST_CELL
    BY <1>1, CellsTyped
  <2> QED
    BY <2>1 DEF LogInv, PointersSound
<1> DEFINE n == LAST_CELL - itoa.i
           w == [k \in 1 .. n |-> buf[itoa.i + k]]
<1>4. w \in Seq(Char)
  <2> HIDE DEF n
  <2> QED
    BY <1>2, <1>3, IsASeq DEF n
<1>5. Len(w) = n
  BY <1>2, <1>4, LenProperties
<1> QED
  BY <1>4, <1>5 DEF Written, Texts

(* The text of what itoa returns once it has written at all.               *)
LEMMA WrittenRead ==
  ASSUME LogInv, itoa.i # LAST_CELL
  PROVE  TextOf(ItoaString(itoa), buf) = Written(itoa, buf)
<1>1. itoa.i \in 0 .. LAST_CELL
  BY CellsTyped DEF LogInv, LogTypeOK, PointersSound, Conversion
<1>2. /\ ItoaString(itoa).at = itoa.i + 1 /\ itoa.i + 1 # 0
      /\ ITOA_CELLS - 1 - (itoa.i + 1) = LAST_CELL - itoa.i
      /\ \A k \in 1 .. LAST_CELL - itoa.i : (itoa.i + 1) + k - 1 = itoa.i + k
  BY <1>1, CellsTyped DEF ItoaString
<1> QED
  BY <1>2 DEF TextOf, Written

(* One more digit in front of those written.                               *)
LEMMA DigitInFront ==
  ASSUME LogInv, ~ ItoaDone(itoa)
  PROVE  /\ itoa.i \in 1 .. LAST_CELL /\ itoa.val \in Nat \ {0} /\ itoa.base \in {10, 16}
         /\ Digits[(itoa.val % itoa.base) + 1] \in Char
         /\ Written(ItoaNext(itoa), ItoaDigit(itoa, buf))
              = <<Digits[(itoa.val % itoa.base) + 1]>> \o Written(itoa, buf)
         /\ ItoaNext(itoa).i = itoa.i - 1 /\ ItoaNext(itoa).i # LAST_CELL
         /\ ItoaNext(itoa).val = itoa.val \div itoa.base
         /\ ItoaNext(itoa).base = itoa.base
<1> DEFINE d == Digits[(itoa.val % itoa.base) + 1]
           w == Written(itoa, buf)
           b == ItoaDigit(itoa, buf)
           i == itoa.i
<1>1. itoa.i \in 1 .. LAST_CELL /\ itoa.val \in Nat \ {0} /\ itoa.base \in {10, 16}
  BY CellsTyped DEF LogInv, LogTypeOK, PointersSound, Conversion, ItoaDone
<1>2. d \in Char
  <2>1. itoa.base \in Nat /\ itoa.base > 1 /\ itoa.base <= 16 /\ itoa.val \in Nat
    BY <1>1
  <2>2. itoa.val % itoa.base \in 0 .. itoa.base - 1
    BY <2>1, DivisionDescends
  <2>3. itoa.val % itoa.base \in 0 .. 15
    BY <2>1, <2>2
  <2> QED
    BY <2>3, DigitsTyped
<1>3. /\ ItoaNext(itoa).i = i - 1 /\ ItoaNext(itoa).val = itoa.val \div itoa.base
      /\ ItoaNext(itoa).base = itoa.base
  BY DEF ItoaNext, LogInv, LogTypeOK, Conversion
<1>4. b \in Buffer /\ b[i] = d /\ \A c \in 0 .. LAST_CELL : c # i => b[c] = buf[c]
  BY <1>1, <1>2, CellsTyped DEF ItoaDigit, Buffer, LogInv, LogTypeOK, Cell
<1>5. w \in Seq(Char) /\ Len(w) = LAST_CELL - i /\ <<d>> \in Seq(Char) /\ Len(<<d>>) = 1
  BY <1>2, WrittenTyped, OneCharacter DEF Texts
<1> DEFINE v == Written(ItoaNext(itoa), b)
<1>6. v = [k \in 1 .. LAST_CELL - i + 1 |-> b[i - 1 + k]]
  BY <1>1, <1>3, CellsTyped DEF Written
<1> HIDE DEF w, b, v, d
<1>7. LAST_CELL \in Nat /\ i \in 1 .. LAST_CELL
  BY <1>1, CellsTyped
<1>8. /\ <<d>> \o w \in Seq(Char) /\ Len(<<d>> \o w) = LAST_CELL - i + 1
      /\ \A k \in 1 .. LAST_CELL - i + 1 :
           (<<d>> \o w)[k] = IF k <= 1 THEN <<d>>[k] ELSE w[k - 1]
  <2>1. /\ <<d>> \o w \in Seq(Char) /\ Len(<<d>> \o w) = Len(<<d>>) + Len(w)
        /\ \A k \in 1 .. Len(<<d>>) + Len(w) :
             (<<d>> \o w)[k] = IF k <= Len(<<d>>) THEN <<d>>[k] ELSE w[k - Len(<<d>>)]
    BY <1>5, ConcatProperties
  <2>2. Len(<<d>>) + Len(w) = LAST_CELL - i + 1
    BY <1>5, <1>7
  <2> QED
    BY <1>5, <2>1, <2>2
<1>9. \A k \in 1 .. LAST_CELL - i : w[k] = buf[i + k]
  BY DEF w, Written
<1>10. \A k \in 1 .. LAST_CELL - i + 1 : b[i - 1 + k] = (<<d>> \o w)[k]
  <2> TAKE k \in 1 .. LAST_CELL - i + 1
  <2>1. CASE k = 1
    BY <1>4, <1>7, <1>8, <2>1
  <2>2. CASE k # 1
    <3>1. k - 1 \in 1 .. LAST_CELL - i /\ i + (k - 1) = i - 1 + k /\ ~ k <= 1
      BY <1>7, <2>2
    <3>2. i - 1 + k \in 0 .. LAST_CELL /\ i - 1 + k # i
      BY <1>7, <2>2
    <3>3. (<<d>> \o w)[k] = w[k - 1]
      BY <1>8, <3>1
    <3> QED
      BY <1>4, <1>9, <3>1, <3>2, <3>3
  <2> QED
    BY <2>1, <2>2
<1>11. \A k \in 1 .. LAST_CELL - i + 1 : b[i - 1 + k] \in Char
  <2> TAKE k \in 1 .. LAST_CELL - i + 1
  <2> QED
    BY <1>8, <1>10, ElementOfSeq
<1>12. v \in Seq(Char) /\ Len(v) = LAST_CELL - i + 1
  <2>1. LAST_CELL - i + 1 \in Nat
    BY <1>7
  <2> DEFINE m == LAST_CELL - i + 1
  <2>2. [k \in 1 .. m |-> b[i - 1 + k]] \in Seq(Char)
    <3> HIDE DEF m
    <3> QED
      BY <1>11, <2>1, IsASeq DEF m
  <2> QED
    BY <1>6, <2>1, <2>2, LenProperties
<1>13. v = <<d>> \o w
  <2>1. \A k \in 1 .. Len(v) : v[k] = (<<d>> \o w)[k]
    BY <1>6, <1>10, <1>12
  <2> QED
    BY <1>8, <1>12, <2>1, SeqEqual
<1> QED
  BY <1>1, <1>2, <1>3, <1>13, CellsTyped DEF d, w, b, v

(* A step of itoa brings the numeral one digit further; a call starts with *)
(* none, and when it has ended the numeral is there, unless the buffer is  *)
(* too short for it.                                                       *)
LEMMA ConversionBegins ==
  ASSUME NEW n \in Nat, NEW base \in {10, 16}, NEW b
  PROVE  ConvertsTo(n, base, ItoaBegin(n, base), b)
BY DEF ConvertsTo, ItoaBegin

LEMMA ConversionContinues ==
  ASSUME LogInv, ~ ItoaDone(itoa), NEW n \in Nat, NEW base \in {10, 16},
         ConvertsTo(n, base, itoa, buf)
  PROVE  ConvertsTo(n, base, ItoaNext(itoa), ItoaDigit(itoa, buf))
<1> DEFINE d == Digits[(itoa.val % base) + 1]
           w == Written(itoa, buf)
           next == ItoaNext(itoa)
           v == Written(next, ItoaDigit(itoa, buf))
           q == itoa.val \div base
           N(m) == Numeral(m, base)
<1>1. /\ itoa.val \in Nat \ {0} /\ itoa.base = base
      /\ d \in Char /\ v = <<d>> \o w
      /\ next.i # LAST_CELL /\ next.val = q /\ next.base = base
  BY DigitInFront DEF ConvertsTo
<1>2. w \in Seq(Char) /\ <<d>> \in Seq(Char)
  BY <1>1, WrittenTyped, OneCharacter DEF Texts
<1>3. base \in Nat /\ base > 1
  OBVIOUS
<1>4. /\ q \in Nat /\ (q = 0 <=> itoa.val < base)
      /\ itoa.val < base => itoa.val % base = itoa.val
  BY <1>1, <1>3, DivisionDescends
<1>5. N(q) \in Seq(Char) /\ N(itoa.val) \in Seq(Char)
  BY <1>1, <1>4, NumeralIs DEF Texts
<1>6. N(itoa.val) = IF q = 0 THEN <<d>> ELSE N(q) \o <<d>>
  <2>1. N(itoa.val) = IF itoa.val < base THEN <<Digits[itoa.val + 1]>> ELSE Append(N(q), d)
    BY <1>1, NumeralIs
  <2>2. Append(N(q), d) = N(q) \o <<d>>
    BY <1>1, <1>5, AppendIsConcat
  <2> QED
    BY <1>4, <2>1, <2>2
<1>7. N(n) = IF itoa.i = LAST_CELL THEN N(itoa.val) ELSE N(itoa.val) \o w
  BY <1>1 DEF ConvertsTo
<1> HIDE DEF N, d, w, v, next, q
<1>8. itoa.i = LAST_CELL => v = <<d>>
  <2>1. itoa.i = LAST_CELL => Len(w) = 0
    BY WrittenTyped, CellsTyped DEF w
  <2>2. itoa.i = LAST_CELL => w = <<>>
    BY <1>2, <2>1, EmptySeq
  <2>3. <<d>> \o <<>> = <<d>>
    BY <1>2, ConcatEmptySeq
  <2> QED
    BY <1>1, <2>2, <2>3
<1>9. N(n) = IF q = 0 THEN v ELSE N(q) \o v
  <2>1. CASE itoa.i = LAST_CELL
    BY <1>6, <1>7, <1>8, <2>1
  <2>2. CASE itoa.i # LAST_CELL
    <3>1. (N(q) \o <<d>>) \o w = N(q) \o (<<d>> \o w)
      BY <1>2, <1>5, ConcatAssociative
    <3> QED
      BY <1>1, <1>6, <1>7, <2>2, <3>1
  <2> QED
    BY <2>1, <2>2
<1> QED
  BY <1>1, <1>9 DEF ConvertsTo, N, v, next

LEMMA ConversionEnds ==
  ASSUME LogInv, ItoaDone(itoa), NEW n \in Nat, NEW base \in {10, 16},
         ConvertsTo(n, base, itoa, buf), Fits(n, base)
  PROVE  TextOf(ItoaString(itoa), buf) = Numeral(n, base)
<1>1. itoa.i \in 0 .. LAST_CELL /\ itoa.val \in Nat /\ LAST_CELL \in Nat /\ LAST_CELL >= 1
  BY CellsTyped DEF LogInv, LogTypeOK, PointersSound, Conversion
<1>2. CASE itoa.i = LAST_CELL
  <2>1. n = 0
    BY <1>1, <1>2 DEF ConvertsTo, ItoaDone
  <2>2. TextOf(ItoaString(itoa), buf) = <<"0">>
    BY <1>2 DEF ItoaString, TextOf, Literal
  <2>3. Numeral(n, base) = <<Digits[n + 1]>>
    <3>1. n < base
      BY <2>1
    <3> QED
      BY <3>1, NumeralIs
  <2>4. Digits[n + 1] = "0"
    BY <2>1 DEF Digits
  <2> QED
    BY <2>2, <2>3, <2>4
<1>3. CASE itoa.i # LAST_CELL
  <2>1. itoa.val = 0
    <3> SUFFICES ASSUME itoa.val # 0  PROVE FALSE
      OBVIOUS
    <3>1. itoa.i = 0
      BY Zenon DEF ItoaDone
    <3>2. Numeral(n, base) = Numeral(itoa.val, base) \o Written(itoa, buf)
      BY <1>3 DEF ConvertsTo
    <3>3. /\ Numeral(itoa.val, base) \in Seq(Char)
          /\ Len(Numeral(itoa.val, base)) > 0
      <4>0. base \in Nat /\ base > 1 /\ base <= 16
        OBVIOUS
      <4> DEFINE q == itoa.val \div base
                 r == itoa.val % base
      <4>1. q \in Nat /\ r \in 0 .. base - 1
        BY <1>1, <4>0, DivisionDescends
      <4>2. itoa.val < base => Numeral(itoa.val, base) # <<>>
        <5>1. itoa.val < base => Numeral(itoa.val, base) = <<Digits[itoa.val + 1]>>
          BY <1>1, NumeralIs
        <5>2. \A d : <<d>> # <<>>
          OBVIOUS
        <5> QED
          BY <5>1, <5>2
      <4>3. ~ itoa.val < base => Numeral(itoa.val, base) # <<>>
        <5>1. ~ itoa.val < base =>
                Numeral(itoa.val, base) = Append(Numeral(q, base), Digits[r + 1])
          BY <1>1, NumeralIs
        <5> HIDE DEF q, r
        <5>2. r \in 0 .. 15
          BY <4>0, <4>1
        <5>3. Digits[r + 1] \in Char
          BY <5>2, DigitsTyped
        <5>4. Numeral(q, base) \in Seq(Char)
          BY <4>1, NumeralIs DEF Texts
        <5>5. Append(Numeral(q, base), Digits[r + 1]) # <<>>
          BY <5>3, <5>4, AppendProperties
        <5> QED
          BY <5>1, <5>5
      <4>4. Numeral(itoa.val, base) \in Seq(Char)
        BY <1>1, NumeralIs DEF Texts
      <4> QED
        BY <4>2, <4>3, <4>4, EmptySeq
    <3>4. Written(itoa, buf) \in Seq(Char) /\ Len(Written(itoa, buf)) = LAST_CELL
      BY <1>1, <3>1, WrittenTyped DEF Texts
    <3>5. Len(Numeral(n, base)) = Len(Numeral(itoa.val, base)) + LAST_CELL
      BY <3>2, <3>3, <3>4, ConcatProperties
    <3>6. Len(Numeral(itoa.val, base)) \in Nat
      BY <3>3, LenProperties
    <3> QED
      BY <1>1, <3>3, <3>5, <3>6 DEF Fits
  <2> QED
    BY <1>3, <2>1, WrittenRead DEF ConvertsTo
<1> QED
  BY <1>2, <1>3

(* 0 has one digit.                                                        *)
LEMMA ZeroFits == \A base \in {10, 16} : Fits(0, base)
<1> TAKE base \in {10, 16}
<1>1. Numeral(0, base) = <<Digits[0 + 1]>>
  BY NumeralIs
<1> QED
  BY <1>1, CellsTyped DEF Fits

-----------------------------------------------------------------------------
(* What a call of klogf asks for.                                          *)
Arguments(arguments) == \A k \in DOMAIN arguments : arguments[k] \in Argument

LEMMA ConvertedTyped ==
  ASSUME NEW f \in Texts, NEW arguments, Arguments(arguments), NEW i \in 1 .. Len(f)
  PROVE  Converted(f, arguments, i) \in Texts /\ Added(f, arguments, i) \in Texts
<1> DEFINE arg == arguments[Cardinality(Taken(f, i)) + 1]
           what == IF i = Len(f) THEN NUL ELSE f[i + 1]
           missing == Cardinality(Taken(f, i)) + 1 \notin DOMAIN arguments
<1>1. f[i] \in Char
  BY DEF Texts
<1>2. <<f[i]>> \in Texts /\ <<>> \in Texts
  BY <1>1, OneCharacter, EmptyText
<1>3. <<"%">> \in Texts /\ <<"%", "?">> \in Texts
  BY LogAssumption DEF Texts
<1>4. ~ missing => /\ arg.string.text \in Texts /\ arg.number \in Nat /\ arg.character \in Cell
  BY DEF Arguments, Argument, Pointer
<1>5. ~ missing => /\ (arg.character # NUL => <<arg.character>> \in Texts)
                   /\ Numeral(arg.number, 10) \in Texts /\ Numeral(arg.number, 16) \in Texts
  BY <1>4, NumeralIs, OneCharacter DEF Cell
<1>6. Converted(f, arguments, i) =
        IF what \in Conversions /\ missing THEN <<>>
        ELSE CASE what = "s" -> arg.string.text
               [] what = "c" -> IF arg.character = NUL THEN <<>> ELSE <<arg.character>>
               [] what = "d" -> Numeral(arg.number, 10)
               [] what \in {"x", "p"} -> Numeral(arg.number, 16)
               [] what = "%" -> <<"%">>
               [] OTHER -> <<"%", "?">>
  BY DEF Converted
<1> HIDE DEF arg, what, missing
<1>7. Converted(f, arguments, i) \in Texts
  <2>1. CASE what \in Conversions /\ missing
    BY <1>2, <1>6, <2>1
  <2>2. CASE what \in Conversions /\ ~ missing
    <3>1. CASE what = "s"
      BY <1>4, <1>6, <2>2, <3>1
    <3>2. CASE what = "c"
      BY <1>2, <1>5, <1>6, <2>2, <3>2
    <3>3. CASE what = "d"
      BY <1>5, <1>6, <2>2, <3>3
    <3>4. CASE what \in {"x", "p"}
      BY <1>5, <1>6, <2>2, <3>4
    <3> QED
      BY <2>2, <3>1, <3>2, <3>3, <3>4 DEF Conversions
  <2>3. CASE what \notin Conversions
    <3>1. what \notin {"s", "c", "d", "x", "p"}
      BY <2>3 DEF Conversions
    <3> QED
      BY <1>3, <1>6, <2>3, <3>1
  <2> QED
    BY <2>1, <2>2, <2>3
<1> QED
  BY <1>2, <1>7 DEF Added

LEMMA ExpansionsExist ==
  ASSUME NEW f \in Texts, NEW arguments, Arguments(arguments)
  PROVE  /\ Expansions(f, arguments)[0] = <<>>
         /\ \A i \in 0 .. Len(f) : Expansions(f, arguments)[i] \in Texts
         /\ \A i \in 1 .. Len(f) :
              Expansions(f, arguments)[i] = Expansions(f, arguments)[i - 1] \o Added(f, arguments, i)
<1> DEFINE prior == [n \in Nat |-> IF n = 0 THEN 0 ELSE n - 1]
           step  == [n \in Nat |-> [s \in Texts |->
                       IF n \in 1 .. Len(f) THEN s \o Added(f, arguments, n) ELSE s]]
           body(g, i) == IF i = 0 THEN <<>> ELSE g[i - 1] \o Added(f, arguments, i)
           Is(g) == g = [i \in 0 .. Len(f) |-> body(g, i)]
<1>1. Len(f) \in Nat
  BY DEF Texts
<1>2. Descends(prior)
  BY DEF Descends
<1>3. \A i \in 1 .. Len(f) : Added(f, arguments, i) \in Texts
  BY ConvertedTyped
<1>4. \A s, t \in Texts : s \o t \in Texts
  BY ConcatProperties DEF Texts
<1>5. step \in [Nat -> [Texts -> Texts]]
  BY <1>3, <1>4
<1>6. \E g \in [Nat -> Texts] : Recurs(g, <<>>, prior, step)
  <2> HIDE DEF prior, step
  <2> QED
    BY <1>2, <1>5, EmptyText, RecursionDefines
<1>7. PICK g \in [Nat -> Texts] :
        g[0] = <<>> /\ \A n \in Nat \ {0} : g[n] = step[n][g[prior[n]]]
  BY <1>6 DEF Recurs
<1> DEFINE h == [i \in 0 .. Len(f) |-> g[i]]
<1>8. Is(h)
  <2>1. ASSUME NEW i \in 0 .. Len(f)  PROVE h[i] = body(h, i)
    <3>1. CASE i = 0
      BY <1>7, <3>1
    <3>2. CASE i # 0
      <4>1. /\ i \in 1 .. Len(f) /\ i \in Nat \ {0} /\ i - 1 \in 0 .. Len(f)
            /\ i - 1 \in Nat /\ prior[i] = i - 1
        BY <1>1, <3>2
      <4>2. g[i - 1] \in Texts /\ g[i] = step[i][g[i - 1]]
        BY <1>7, <4>1
      <4>3. g[i] = g[i - 1] \o Added(f, arguments, i)
        BY <4>1, <4>2
      <4> QED
        BY <3>2, <4>1, <4>3
    <3> QED
      BY <3>1, <3>2
  <2> HIDE DEF body
  <2> QED
    BY <2>1
<1> DEFINE E == Expansions(f, arguments)
<1>9. E = CHOOSE u : Is(u)
  BY DEF Expansions
<1>10. Is(E)
  <2> HIDE DEF Is, E, h
  <2> QED
    BY <1>8, <1>9
<1> HIDE DEF E
<1>11. \A i \in 0 .. Len(f) : E[i] = body(E, i)
  <2> HIDE DEF body
  <2> QED
    BY <1>10
<1>12. E[0] = <<>>
  BY <1>1, <1>11
<1>13. \A i \in 1 .. Len(f) : E[i] = E[i - 1] \o Added(f, arguments, i)
  <2> TAKE i \in 1 .. Len(f)
  <2>1. i \in 0 .. Len(f) /\ i # 0
    BY <1>1
  <2> QED
    BY <1>11, <2>1
<1>14. \A i \in 0 .. Len(f) : E[i] \in Texts
  <2> DEFINE S == {i \in Nat : i <= Len(f) /\ E[i] \notin Texts}
  <2> SUFFICES ASSUME S # {}  PROVE FALSE
    BY <1>1
  <2>1. PICK l \in S : \A x \in S : l <= x
    BY Minimum
  <2>2. l # 0
    BY <1>12, <2>1, EmptyText
  <2>3. l \in 1 .. Len(f) /\ l - 1 \in Nat /\ l - 1 <= Len(f) /\ ~ l <= l - 1
    BY <1>1, <2>1, <2>2
  <2>4. E[l - 1] \in Texts
    BY <2>1, <2>3
  <2> QED
    BY <1>3, <1>4, <1>13, <2>1, <2>3, <2>4
<1> QED
  BY <1>12, <1>13, <1>14 DEF E

-----------------------------------------------------------------------------
(* Descriptions: the number of one without a name is a field of the header. *)
LEMMA NamesAreNot == \A name \in Names : name # NUL
BY NamesAssumption, StringsAssumption

LEMMA NumberOfNone ==
  ASSUME NEW table, Members(table) \subseteq Names, NEW code
  PROVE  /\ NameIn(table, code).name = NUL => NameIn(table, code).number = code
         /\ NameOf(table, code).name = NUL => NameOf(table, code).number = code
BY NamesAreNot DEF NameIn, NameOf, Named, Unnamed, Members

LEMMA NumberOfSubclass ==
  ASSUME NEW class, NEW subclass
  PROVE  pci_get_subclass_name(class, subclass).name = NUL
           => pci_get_subclass_name(class, subclass).number = subclass
<1>1. \A name \in {"Other", "SerialBusController - Other", "VGA Compatible Controller"} :
        Named(name).name # NUL
  BY NamesAreNot, TablesNamed DEF Named
<1>2. LET r == pci_get_mass_storage_controller_subclass_name(subclass)
      IN  r.name = NUL => r.number = subclass
  BY <1>1, TablesNamed, NumberOfNone DEF pci_get_mass_storage_controller_subclass_name
<1>3. LET r == pci_get_bridge_device_subclass_name(subclass)
      IN  r.name = NUL => r.number = subclass
  BY <1>1, TablesNamed, NumberOfNone DEF pci_get_bridge_device_subclass_name
<1>4. LET r == pci_get_serial_bus_controller_subclass_name(subclass)
      IN  r.name = NUL => r.number = subclass
  BY <1>1, TablesNamed, NumberOfNone DEF pci_get_serial_bus_controller_subclass_name
<1>5. Unnamed(subclass).number = subclass
  BY DEF Unnamed
<1> QED
  BY <1>1, <1>2, <1>3, <1>4, <1>5 DEF pci_get_subclass_name

LEMMA DescribedNumber ==
  ASSUME NEW k \in 1 .. 5, NEW d \in Devices,
         k = 3 => d.device_class + 1 \in DOMAIN PCI_DEVICE_CLASSES,
         Described(k, d).name = NUL
  PROVE  /\ Described(k, d).number = Codes(d)[k]
         /\ Described(k, d).number \in Nat
         /\ Fits(Described(k, d).number, 16)
<1> DEFINE n == Described(k, d).number
<1>1. d \in DeviceHeader
  BY LogAssumption
<1>2. n \in Nat
  BY <1>1, DescribedTyped DEF Description
<1>3. /\ Codes(d)[1] = d.vendor_id /\ Codes(d)[2] = d.device_id
      /\ Codes(d)[4] = d.device_subclass /\ Codes(d)[5] = d.program_interface
  BY DEF Codes
<1>4. k # 3 /\ n = Codes(d)[k]
  <2>1. CASE k = 1
    <3>1. Described(k, d) = NameOf(VendorNames, d.vendor_id)
      BY <2>1 DEF Described, pci_get_vendor_name
    <3>2. LET r == NameOf(VendorNames, d.vendor_id)
          IN  r.name = NUL => r.number = d.vendor_id
      BY TablesNamed, NumberOfNone
    <3> QED
      BY <1>3, <2>1, <3>1, <3>2
  <2>2. CASE k = 2
    <3>1. Described(k, d) = pci_get_device_name(d.vendor_id, d.device_id)
      BY <2>2 DEF Described
    <3>2. Described(k, d) \in {NameOf(IntelDevices, d.device_id), Unnamed(d.device_id)}
      BY <3>1 DEF pci_get_device_name
    <3>3. Unnamed(d.device_id).number = d.device_id
      BY DEF Unnamed
    <3>4. LET r == NameOf(IntelDevices, d.device_id)
          IN  r.name = NUL => r.number = d.device_id
      BY TablesNamed, NumberOfNone
    <3> QED
      BY <1>3, <2>2, <3>2, <3>3, <3>4
  <2>3. CASE k = 3
    <3>1. PCI_DEVICE_CLASSES[d.device_class + 1] \in Names
      BY <2>3, TablesNamed DEF Members
    <3>2. Described(k, d).name = PCI_DEVICE_CLASSES[d.device_class + 1]
      BY <2>3 DEF Described, Named
    <3> QED
      BY <3>1, <3>2, NamesAreNot
  <2>4. CASE k = 4
    <3>1. Described(k, d) = pci_get_subclass_name(d.device_class, d.device_subclass)
      BY <2>4 DEF Described
    <3> QED
      BY <1>3, <2>4, <3>1, NumberOfSubclass
  <2>5. CASE k = 5
    <3>1. Described(k, d) = pci_get_program_interface_name(d.device_class, d.device_class,
                                                           d.program_interface)
      BY <2>5 DEF Described
    <3> DEFINE i == d.program_interface
    <3>2. Described(k, d) \in {NameIn(StorageInterfaces, i), NameIn(DisplayInterfaces, i),
                               NameOf(UsbInterfaces, i), Unnamed(i)}
      BY <3>1 DEF pci_get_program_interface_name
    <3>3. Unnamed(i).number = i
      BY DEF Unnamed
    <3>4. /\ LET r == NameIn(StorageInterfaces, i) IN r.name = NUL => r.number = i
          /\ LET r == NameIn(DisplayInterfaces, i) IN r.name = NUL => r.number = i
          /\ LET r == NameOf(UsbInterfaces, i) IN r.name = NUL => r.number = i
      BY TablesNamed, NumberOfNone
    <3> HIDE DEF i
    <3>5. n = i
      BY <3>2, <3>3, <3>4
    <3> QED
      BY <1>3, <2>5, <3>5 DEF i
  <2> QED
    BY <2>1, <2>2, <2>3, <2>4, <2>5
<1> HIDE DEF n
<1>5. n \in {d.vendor_id, d.device_id, d.device_class, d.device_subclass, d.program_interface}
  BY <1>3, <1>4
<1>6. Len(Numeral(n, 16)) <= LAST_CELL
  BY <1>5, NumbersAssumption
<1> QED
  BY <1>2, <1>4, <1>6 DEF n, Fits

(* A string in the buffer is as long as the rest of it.                    *)
LEMMA TextOfLength ==
  ASSUME NEW pointer \in Pointer, NEW b, Sound(pointer, b), pointer.at # 0
  PROVE  Len(TextOf(pointer, b)) = ITOA_CELLS - 1 - pointer.at
<1> DEFINE n == ITOA_CELLS - 1 - pointer.at
           text == [k \in 1 .. n |-> b[pointer.at + k - 1]]
<1>1. n \in Nat
  BY CellsTyped DEF Pointer
<1>2. TextOf(pointer, b) = text /\ text \in Seq(Char)
  BY TextOfTyped DEF TextOf, Texts
<1> QED
  BY <1>1, <1>2, LenProperties

(* What a string argument says when it is read. *)
LEMMA AsTextTyped ==
  ASSUME NEW arg \in Argument, NEW b, Sound(arg.string, b)
  PROVE  /\ AsText(arg, b) \in Argument
         /\ AsText(arg, b).number = arg.number /\ AsText(arg, b).character = arg.character
         /\ AsText(arg, b).string.text = TextOf(arg.string, b)
<1>1. Literal(TextOf(arg.string, b)) \in Pointer
      /\ Literal(TextOf(arg.string, b)).text = TextOf(arg.string, b)
  BY TextOfTyped, LiteralTyped DEF Argument, Literal
<1> QED
  BY <1>1 DEF AsText, Argument

-----------------------------------------------------------------------------
(* An argument of the description is evaluated. *)
LEMMA DescribingEvaluates ==
  ASSUME LogInv, DescribingSound, pc = "describe" \/ (pc = "itoa" /\ slot # 0),
         NEW k \in 1 .. 5, k \notin DOMAIN names,
         NEW string \in Pointer, Sound(string, buf),
         TextOf(string, buf) = DescribedText(k),
         string.at # 0 => Nameless(k),
         string.at = 0 =>
           Freshest(names) /\ (Cardinality(InBuffer(names)) < 2 => Says(names)),
         Evaluated(k, string), pc' = "describe", UNCHANGED <<buf, device>>
  PROVE  DescribingSound'
<1>1. PICK known \in SUBSET (1 .. 5) : names \in [known -> Argument]
  BY DEF LogInv, LogTypeOK
<1> DEFINE arg == String(string)
<1>2. arg \in Argument /\ arg.string = string /\ arg.number = 0
  BY ArgumentTyped DEF String
<1>3. /\ DOMAIN names = known /\ DOMAIN meant = known
      /\ device \in Devices /\ Means(names) /\ Told(names)
      /\ \A j \in known : names[j].number = 0
  BY <1>1 DEF DescribingSound, Means
<1>5. /\ AsText(arg, buf) \in Argument /\ AsText(arg, buf).number = arg.number
      /\ AsText(arg, buf).character = arg.character
      /\ AsText(arg, buf).string.text = TextOf(string, buf)
  BY <1>2, AsTextTyped
<1>6. /\ DOMAIN names' = known \cup {k} /\ DOMAIN meant' = known \cup {k}
      /\ names'[k] = arg /\ meant'[k] = AsText(arg, buf)
      /\ \A j \in known : names'[j] = names[j] /\ meant'[j] = meant[j] /\ j # k
  BY <1>3 DEF Evaluated
<1> HIDE DEF arg
<1>7. \A j : DescribedText(j)' = DescribedText(j) /\ Nameless(j)' = Nameless(j)
  BY DEF DescribedText, Nameless
<1>8. string.at = 0 => TextOf(string, buf) = string.text
  BY DEF TextOf
<1>9. Means(names)'
  BY <1>2, <1>3, <1>5, <1>6, <1>8 DEF Means
<1>10. Told(names)' /\ \A j \in DOMAIN names' : names'[j].number = 0
  BY <1>2, <1>3, <1>6, <1>7, <1>8 DEF Told
<1>11. Freshest(names)'
  <2>1. CASE string.at = 0
    <3>1. InBuffer(names)' = InBuffer(names)
      BY <1>2, <1>3, <1>6, <2>1 DEF InBuffer
    <3>2. \A j \in InBuffer(names) : names'[j] = names[j]
      BY <1>3, <1>6 DEF InBuffer
    <3> QED
      BY <1>7, <2>1, <3>1, <3>2 DEF Freshest
  <2>2. CASE string.at # 0
    <3>1. k \in InBuffer(names)' /\ TextOf(names'[k].string, buf') = DescribedText(k)'
      BY <1>2, <1>6, <1>7, <2>2 DEF InBuffer
    <3> QED
      BY <3>1 DEF Freshest
  <2> QED
    BY <2>1, <2>2
<1>12. ASSUME Cardinality(InBuffer(names)') < 2  PROVE Says(names)'
  <2>1. CASE string.at = 0
    <3>1. InBuffer(names)' = InBuffer(names)
      BY <1>2, <1>3, <1>6, <2>1 DEF InBuffer
    <3>2. Says(names)
      BY <1>12, <2>1, <3>1
    <3> QED
      BY <1>2, <1>3, <1>5, <1>6, <3>2 DEF Says
  <2>2. CASE string.at # 0
    <3>1. InBuffer(names)' = InBuffer(names) \cup {k} /\ k \notin InBuffer(names)
      BY <1>2, <1>3, <1>6, <2>2 DEF InBuffer
    <3>2. IsFiniteSet(InBuffer(names))
      <4>1. IsFiniteSet(1 .. 5)
        <5>1. \A a, b \in Int : IsFiniteSet(a .. b)
          BY FS_Interval
        <5>2. 1 \in Int /\ 5 \in Int
          OBVIOUS
        <5> QED
          BY <5>1, <5>2, Zenon
      <4>2. InBuffer(names) \subseteq 1 .. 5
        BY <1>1, <1>3 DEF InBuffer
      <4> QED
        BY <4>1, <4>2, FS_Subset
    <3>3. Cardinality(InBuffer(names)) + 1 < 2 /\ Cardinality(InBuffer(names)) \in Nat
      <4>1. Cardinality(InBuffer(names) \cup {k}) = Cardinality(InBuffer(names)) + 1
        BY <3>1, <3>2, FS_AddElement
      <4>2. Cardinality(InBuffer(names)) \in Nat
        BY <3>2, FS_CardinalityType
      <4> QED
        BY <1>12, <3>1, <4>1, <4>2
    <3>4. InBuffer(names) = {}
      BY <3>2, <3>3, FS_EmptySet
    <3>5. \A j \in known : meant[j].string.text = TextOf(names[j].string, buf)
      BY <1>3, <3>4 DEF InBuffer, Means, TextOf
    <3> QED
      BY <1>2, <1>3, <1>5, <1>6, <3>5 DEF Says
  <2> QED
    BY <2>1, <2>2
<1> QED
  BY <1>3, <1>9, <1>10, <1>12, <1>11 DEF DescribingSound

(* Evaluating names leaves everything but themselves to the later steps.   *)
LEMMA DescribingStep ==
  ASSUME LogInv, DescribingSound, NEW k \in 1 .. 5,
         DescribeByName(k) \/ DescribeByNumber(k)
  PROVE  DescribingSound'
<1>1. pc = "describe" /\ k \notin DOMAIN names
      /\ (k = 3 => device.device_class + 1 \in DOMAIN PCI_DEVICE_CLASSES)
  BY DEF DescribeByName, DescribeByNumber
<1>2. device \in Devices /\ device \in DeviceHeader
  BY <1>1, LogAssumption DEF DescribingSound
<1>3. CASE DescribeByName(k)
  <2> DEFINE name == Described(k, device).name
  <2>1. name # NUL /\ name \in Cell
    BY <1>1, <1>2, <1>3, DescribedTyped DEF DescribeByName, Description
  <2>2. <<name>> \in Texts
    BY <2>1, OneCharacter DEF Cell
  <2>3. Literal(<<name>>) \in Pointer /\ Sound(Literal(<<name>>), buf)
        /\ Literal(<<name>>).at = 0 /\ TextOf(Literal(<<name>>), buf) = <<name>>
    BY <2>2, LiteralTyped DEF Literal, TextOf
  <2>4. DescribedText(k) = <<name>>
    BY <2>1 DEF DescribedText
  <2>5. Freshest(names) /\ (Cardinality(InBuffer(names)) < 2 => Says(names))
    BY <1>1 DEF DescribingSound
  <2>6. Evaluated(k, Literal(<<name>>)) /\ pc' = "describe" /\ UNCHANGED <<buf, device>>
    BY <1>1, <1>3 DEF DescribeByName
  <2> QED
    BY <1>1, <2>3, <2>4, <2>5, <2>6, DescribingEvaluates
<1>4. CASE DescribeByNumber(k)
  <2> DEFINE number == Described(k, device).number
  <2>1. Described(k, device).name = NUL /\ pc' = "itoa" /\ slot' = k /\ k # 0
        /\ itoa' = ItoaBegin(number, 16)
        /\ UNCHANGED <<buf, device, names, meant>>
    BY <1>4 DEF DescribeByNumber, call
  <2>2. number \in Nat /\ Fits(number, 16) /\ Nameless(k)
    BY <1>1, <1>2, <2>1, DescribedNumber DEF Nameless
  <2>3. ConvertsTo(number, 16, itoa', buf')
    BY <2>1, <2>2, ConversionBegins
  <2>4. \A j : /\ DescribedText(j)' = DescribedText(j) /\ Nameless(j)' = Nameless(j)
               /\ Described(j, device)' = Described(j, device)
    BY <2>1 DEF DescribedText, Nameless
  <2>5. InBuffer(names)' = InBuffer(names) /\ Says(names)' = Says(names) /\ Means(names)' = Means(names)
    BY <2>1 DEF InBuffer, Says, Means
  <2>6. Told(names)' = Told(names) /\ Freshest(names)' = Freshest(names)
    BY <2>1, <2>4, <2>5 DEF Told, Freshest
  <2> QED
    BY <1>1, <1>2, <2>1, <2>2, <2>3, <2>4, <2>5, <2>6 DEF DescribingSound
<1> QED
  BY <1>3, <1>4

LEMMA DigitKeepsDescribing ==
  ASSUME LogInv, LogInv', DescribingSound, WriteDigit, slot # 0
  PROVE  DescribingSound'
<1> DEFINE number == Described(slot, device).number
<1>1. /\ pc = "itoa" /\ ~ ItoaDone(itoa)
      /\ buf' = ItoaDigit(itoa, buf) /\ itoa' = ItoaNext(itoa)
      /\ UNCHANGED <<slot, pc, device, names, meant>>
  BY DEF WriteDigit, call
<1>2. /\ device \in Devices /\ Means(names)
      /\ slot \notin DOMAIN names /\ Nameless(slot)
      /\ number \in Nat /\ Fits(number, 16) /\ ConvertsTo(number, 16, itoa, buf)
      /\ Told(names) /\ \A j \in DOMAIN names : names[j].number = 0
  BY <1>1 DEF DescribingSound
<1>3. ConvertsTo(number, 16, itoa', buf') /\ itoa'.i # LAST_CELL
  <2> HIDE DEF number
  <2> QED
    BY <1>1, <1>2, ConversionContinues, DigitInFront
<1>4. PICK known \in SUBSET (1 .. 5) : names \in [known -> Argument]
  BY DEF LogInv, LogTypeOK
<1>5. Means(names)'
  <2>1. \A j \in known : /\ names[j].string \in Pointer
                         /\ Sound(names[j].string, buf) /\ Sound(names[j].string, buf')
    BY <1>1, <1>4 DEF LogInv, PointersSound, Argument
  <2>2. \A j \in known : Len(TextOf(names[j].string, buf)) = Len(TextOf(names[j].string, buf'))
    <3> TAKE j \in known
    <3>1. CASE names[j].string.at = 0
      BY <3>1 DEF TextOf
    <3>2. CASE names[j].string.at # 0
      BY <2>1, <3>2, TextOfLength
    <3> QED
      BY <3>1, <3>2
  <2> QED
    BY <1>1, <1>2, <1>4, <2>2 DEF Means
<1>6. \A j : /\ DescribedText(j)' = DescribedText(j) /\ Nameless(j)' = Nameless(j)
             /\ Described(j, device)' = Described(j, device)
  BY <1>1 DEF DescribedText, Nameless
<1>7. Told(names)'
  BY <1>1, <1>2, <1>6 DEF Told
<1> QED
  BY <1>1, <1>2, <1>3, <1>5, <1>6, <1>7 DEF DescribingSound

LEMMA ReturnKeepsDescribing ==
  ASSUME LogInv, DescribingSound, ReturnArgument
  PROVE  DescribingSound'
<1> DEFINE number == Described(slot, device).number
           string == ItoaString(itoa)
<1>1. /\ pc = "itoa" /\ ItoaDone(itoa) /\ slot # 0 /\ slot \in 1 .. 5
      /\ Evaluated(slot, string) /\ pc' = "describe" /\ UNCHANGED <<buf, device>>
  BY DEF ReturnArgument, LogInv, LogTypeOK
<1>2. /\ slot \notin DOMAIN names /\ Nameless(slot)
      /\ number \in Nat /\ Fits(number, 16) /\ ConvertsTo(number, 16, itoa, buf)
      /\ itoa.i = LAST_CELL =>
           Freshest(names) /\ (Cardinality(InBuffer(names)) < 2 => Says(names))
  BY <1>1 DEF DescribingSound
<1>3. TextOf(string, buf) = Numeral(number, 16)
  <2> HIDE DEF number
  <2> QED
    BY <1>1, <1>2, ConversionEnds
<1>4. DescribedText(slot) = Numeral(number, 16)
  BY <1>2 DEF DescribedText, Nameless
<1>5. string \in Pointer /\ Sound(string, buf)
  BY ItoaStringTyped DEF LogInv
<1>6. string.at = 0 => itoa.i = LAST_CELL
  <2>1. itoa.i + 1 # 0
    BY DEF LogInv, LogTypeOK, Conversion
  <2> QED
    BY <2>1 DEF ItoaString
<1> HIDE DEF string
<1> QED
  BY <1>1, <1>2, <1>3, <1>4, <1>5, <1>6, DescribingEvaluates

-----------------------------------------------------------------------------
(* What is left of a sequence. *)
LEMMA Rest ==
  ASSUME NEW S, NEW s \in Seq(S), NEW r \in 0 .. Len(s)
  PROVE  LET m == SubSeq(s, r + 1, Len(s))
         IN  /\ m \in Seq(S) /\ Len(m) = Len(s) - r
             /\ \A k \in 1 .. Len(m) : r + k \in 1 .. Len(s) /\ m[k] = s[r + k]
<1> DEFINE m == SubSeq(s, r + 1, Len(s))
<1>1. Len(s) \in Nat /\ r \in Nat /\ r + 1 \in Int /\ Len(s) \in Int
  BY LenProperties
<1>2. \A i \in r + 1 .. Len(s) : s[i] \in S
  <2> TAKE i \in r + 1 .. Len(s)
  <2>1. i \in 1 .. Len(s)
    BY <1>1
  <2> QED
    BY <2>1, ElementOfSeq
<1>3. /\ m \in Seq(S)
      /\ Len(m) = IF r + 1 <= Len(s) THEN Len(s) - (r + 1) + 1 ELSE 0
      /\ \A i \in 1 .. Len(s) - (r + 1) + 1 : m[i] = s[(r + 1) + i - 1]
  BY <1>1, <1>2, SubSeqProperties
<1> HIDE DEF m
<1>4. Len(m) = Len(s) - r
  BY <1>1, <1>3
<1>5. ASSUME NEW k \in 1 .. Len(m)  PROVE r + k \in 1 .. Len(s) /\ m[k] = s[r + k]
  <2>1. k \in 1 .. Len(s) - (r + 1) + 1 /\ (r + 1) + k - 1 = r + k /\ r + k \in 1 .. Len(s)
    BY <1>1, <1>4
  <2> QED
    BY <1>3, <2>1
<1> QED
  BY <1>3, <1>4, <1>5 DEF m

LEMMA RestOfRest ==
  ASSUME NEW S, NEW s \in Seq(S), NEW r \in 0 .. Len(s), NEW n \in Nat, n <= Len(s) - r
  PROVE  LET m == SubSeq(s, r + 1, Len(s))
         IN  SubSeq(m, n + 1, Len(m)) = SubSeq(s, r + n + 1, Len(s))
<1> DEFINE m == SubSeq(s, r + 1, Len(s))
           u == SubSeq(m, n + 1, Len(m))
           v == SubSeq(s, r + n + 1, Len(s))
<1>1. Len(s) \in Nat /\ r \in Nat
  BY LenProperties
<1>2. /\ m \in Seq(S) /\ Len(m) = Len(s) - r
      /\ \A k \in 1 .. Len(m) : r + k \in 1 .. Len(s) /\ m[k] = s[r + k]
  BY Rest
<1>3. /\ v \in Seq(S) /\ Len(v) = Len(s) - (r + n)
      /\ \A k \in 1 .. Len(v) : v[k] = s[r + n + k]
  <2>1. r + n \in 0 .. Len(s)
    BY <1>1
  <2> QED
    BY <2>1, Rest
<1> HIDE DEF m
<1>4. /\ u \in Seq(S) /\ Len(u) = Len(m) - n
      /\ \A k \in 1 .. Len(u) : n + k \in 1 .. Len(m) /\ u[k] = m[n + k]
  <2>1. n \in 0 .. Len(m)
    BY <1>1, <1>2
  <2> QED
    BY <1>2, <2>1, Rest
<1> HIDE DEF u, v
<1>5. Len(u) = Len(v) /\ Len(u) \in Nat
  BY <1>1, <1>2, <1>3, <1>4
<1>6. ASSUME NEW k \in 1 .. Len(u)  PROVE u[k] = v[k]
  <2>1. n + k \in 1 .. Len(m) /\ u[k] = m[n + k]
    BY <1>4
  <2>2. m[n + k] = s[r + (n + k)]
    BY <1>2, <2>1
  <2>3. v[k] = s[r + n + k] /\ r + (n + k) = r + n + k
    BY <1>1, <1>3, <1>5
  <2> QED
    BY <2>1, <2>2, <2>3
<1> QED
  BY <1>3, <1>4, <1>5, <1>6, SeqEqual DEF m, u, v

(* A text does not shrink while it is expanded. *)
LEMMA ExpansionsGrow ==
  ASSUME NEW f \in Texts, NEW arguments, Arguments(arguments), NEW i \in 0 .. Len(f)
  PROVE  /\ Len(Expansions(f, arguments)[i]) <= Len(Expansion(f, arguments))
         /\ Len(Expansion(f, arguments)) \in Nat /\ Len(Expansions(f, arguments)[i]) \in Nat
<1> DEFINE E == Expansions(f, arguments)
           L == Len(f)
<1>1. L \in Nat
  BY DEF Texts
<1>2. \A j \in 0 .. L : E[j] \in Seq(Char)
  BY ExpansionsExist DEF Texts
<1>3. \A j \in 1 .. L : E[j] = E[j - 1] \o Added(f, arguments, j)
  BY ExpansionsExist
<1>4. \A j \in 1 .. L : Added(f, arguments, j) \in Seq(Char)
  BY ConvertedTyped DEF Texts
<1>5. Expansion(f, arguments) = E[L]
  BY DEF Expansion
<1> HIDE DEF E, L
<1>6. \A j \in 0 .. L : Len(E[j]) \in Nat
  BY <1>2, LenProperties
<1>7. \A j \in 1 .. L : Len(E[j - 1]) <= Len(E[j])
  <2> TAKE j \in 1 .. L
  <2>1. j - 1 \in 0 .. L /\ j \in 0 .. L
    BY <1>1
  <2>2. Len(E[j]) = Len(E[j - 1]) + Len(Added(f, arguments, j))
    BY <1>2, <1>3, <1>4, <2>1, ConcatProperties
  <2>3. Len(Added(f, arguments, j)) \in Nat
    BY <1>4, LenProperties
  <2> QED
    BY <1>6, <2>1, <2>2, <2>3
<1> DEFINE S == {d \in Nat : d <= L /\ ~ Len(E[L - d]) <= Len(E[L])}
<1>8. S = {}
  <2> SUFFICES ASSUME S # {}  PROVE FALSE
    OBVIOUS
  <2>1. PICK d \in S : \A x \in S : d <= x
    BY Minimum
  <2>2. d # 0
    <3>1. L - 0 = L /\ L \in 0 .. L
      BY <1>1
    <3>2. Len(E[L]) <= Len(E[L])
      BY <1>6, <3>1
    <3> QED
      BY <2>1, <3>1, <3>2
  <2>3. /\ d - 1 \in Nat /\ d - 1 <= L /\ ~ d <= d - 1
        /\ L - d + 1 \in 1 .. L /\ L - d + 1 - 1 = L - d /\ L - (d - 1) = L - d + 1
        /\ L - d \in 0 .. L /\ L - d + 1 \in 0 .. L /\ L \in 0 .. L
    BY <1>1, <2>1, <2>2
  <2>4. Len(E[L - d + 1]) <= Len(E[L])
    BY <2>1, <2>3
  <2>5. Len(E[L - d]) <= Len(E[L - d + 1])
    BY <1>7, <2>3
  <2>6. Len(E[L - d]) \in Nat /\ Len(E[L - d + 1]) \in Nat /\ Len(E[L]) \in Nat
    BY <1>6, <2>3
  <2>7. ~ Len(E[L - d]) <= Len(E[L])
    BY <2>1
  <2> QED
    BY <2>4, <2>5, <2>6, <2>7
<1>9. i \in 0 .. L /\ L - i \in Nat /\ L - i <= L /\ L - (L - i) = i /\ L \in 0 .. L
  BY <1>1 DEF L
<1>10. Len(E[i]) <= Len(E[L])
  BY <1>8, <1>9
<1> QED
  BY <1>5, <1>6, <1>9, <1>10 DEF E

(* Arguments that differ in nothing but the characters of their strings    *)
(* expand to texts of the same length.                                     *)
Alike(a, b) ==
  /\ Arguments(a) /\ Arguments(b) /\ DOMAIN a = DOMAIN b
  /\ \A k \in DOMAIN a : /\ a[k].number = b[k].number /\ a[k].character = b[k].character
                         /\ Len(a[k].string.text) = Len(b[k].string.text)

SameTexts(a, b) == \A k \in DOMAIN a : a[k].string.text = b[k].string.text

LEMMA ConvertedAlike ==
  ASSUME NEW f \in Texts, NEW a, NEW b, Alike(a, b), NEW i \in 1 .. Len(f)
  PROVE  /\ Len(Added(f, a, i)) = Len(Added(f, b, i))
         /\ SameTexts(a, b) => Added(f, a, i) = Added(f, b, i)
<1> DEFINE n == Cardinality(Taken(f, i)) + 1
           what == IF i = Len(f) THEN NUL ELSE f[i + 1]
           Is(text, arg) ==
             text = CASE what = "s" -> arg.string.text
                      [] what = "c" -> IF arg.character = NUL THEN <<>> ELSE <<arg.character>>
                      [] what = "d" -> Numeral(arg.number, 10)
                      [] what \in {"x", "p"} -> Numeral(arg.number, 16)
                      [] what = "%" -> <<"%">>
                      [] OTHER -> <<"%", "?">>
           u == Converted(f, a, i)
           v == Converted(f, b, i)
<1>1. /\ IF what \in Conversions /\ n \notin DOMAIN a THEN u = <<>> ELSE Is(u, a[n])
      /\ IF what \in Conversions /\ n \notin DOMAIN b THEN v = <<>> ELSE Is(v, b[n])
  BY DEF Converted
<1>2. DOMAIN a = DOMAIN b
  BY DEF Alike
<1>3. n \in DOMAIN a => /\ a[n].number = b[n].number /\ a[n].character = b[n].character
                        /\ Len(a[n].string.text) = Len(b[n].string.text)
                        /\ SameTexts(a, b) => a[n].string.text = b[n].string.text
  BY DEF Alike, SameTexts
<1> HIDE DEF n, what, u, v
<1>4. Len(u) = Len(v) /\ (SameTexts(a, b) => u = v)
  <2>1. CASE what \in Conversions /\ n \notin DOMAIN a
    BY <1>1, <1>2, <2>1
  <2>2. CASE what \notin Conversions
    <3>1. what \notin {"s", "c", "d", "x", "p"}
      BY <2>2 DEF Conversions
    <3> QED
      BY <1>1, <2>2, <3>1
  <2>3. CASE what \in Conversions /\ n \in DOMAIN a
    <3>1. Is(u, a[n]) /\ Is(v, b[n])
      BY <1>1, <1>2, <2>3
    <3>2. CASE what = "s"
      BY <1>3, <2>3, <3>1, <3>2
    <3>3. CASE what = "c"
      BY <1>3, <2>3, <3>1, <3>3
    <3>4. CASE what = "d"
      BY <1>3, <2>3, <3>1, <3>4
    <3>5. CASE what \in {"x", "p"}
      BY <1>3, <2>3, <3>1, <3>5
    <3> QED
      BY <2>3, <3>2, <3>3, <3>4, <3>5 DEF Conversions
  <2> QED
    BY <2>1, <2>2, <2>3
<1> QED
  BY <1>4 DEF Added, u, v

LEMMA JoinedAlike ==
  ASSUME NEW s \in Seq(Char), NEW t \in Seq(Char), NEW u \in Seq(Char), NEW v \in Seq(Char),
         Len(s) = Len(t), Len(u) = Len(v)
  PROVE  Len(s \o u) = Len(t \o v)
<1>1. Len(s \o u) = Len(s) + Len(u)
  BY ConcatProperties
<1>2. Len(t \o v) = Len(t) + Len(v)
  BY ConcatProperties
<1> QED
  BY <1>1, <1>2

LEMMA ExpansionsAlike ==
  ASSUME NEW f \in Texts, NEW a, NEW b, Alike(a, b)
  PROVE  /\ Len(Expansion(f, a)) = Len(Expansion(f, b))
         /\ SameTexts(a, b) => Expansion(f, a) = Expansion(f, b)
<1> DEFINE D == Expansions(f, a)
           E == Expansions(f, b)
           L == Len(f)
           Same(i) == Len(D[i]) = Len(E[i]) /\ (SameTexts(a, b) => D[i] = E[i])
           S == {i \in Nat : i <= L /\ ~ Same(i)}
<1>1. L \in Nat /\ Arguments(a) /\ Arguments(b)
  BY DEF Texts, Alike
<1>2. /\ D[0] = <<>> /\ E[0] = <<>>
      /\ \A i \in 0 .. L : D[i] \in Seq(Char) /\ E[i] \in Seq(Char)
      /\ \A i \in 1 .. L : /\ D[i] = D[i - 1] \o Added(f, a, i)
                           /\ E[i] = E[i - 1] \o Added(f, b, i)
  BY <1>1, ExpansionsExist DEF Texts
<1>3. \A i \in 1 .. L : Added(f, a, i) \in Seq(Char) /\ Added(f, b, i) \in Seq(Char)
  BY <1>1, ConvertedTyped DEF Texts
<1>4. Expansion(f, a) = D[L] /\ Expansion(f, b) = E[L]
  BY DEF Expansion
<1> HIDE DEF D, E, L
<1>5. S = {}
  <2> SUFFICES ASSUME S # {}  PROVE FALSE
    OBVIOUS
  <2>1. PICK i \in S : \A x \in S : i <= x
    BY Minimum
  <2>2. i # 0
    BY <1>2, <2>1
  <2>3. i \in 1 .. L /\ i - 1 \in 0 .. L /\ i - 1 \in Nat /\ i - 1 <= L /\ ~ i <= i - 1
    BY <1>1, <2>1, <2>2
  <2>4. Same(i - 1)
    BY <2>1, <2>3
  <2>5. D[i] = D[i - 1] \o Added(f, a, i) /\ E[i] = E[i - 1] \o Added(f, b, i)
    BY <1>2, <2>3
  <2>6. D[i - 1] \in Seq(Char) /\ E[i - 1] \in Seq(Char)
    BY <1>2, <2>3
  <2>7. Added(f, a, i) \in Seq(Char) /\ Added(f, b, i) \in Seq(Char)
    BY <1>3, <2>3
  <2>8. /\ Len(Added(f, a, i)) = Len(Added(f, b, i))
        /\ SameTexts(a, b) => Added(f, a, i) = Added(f, b, i)
    <3>1. i \in 1 .. Len(f)
      BY <2>3 DEF L
    <3> QED
      BY <3>1, ConvertedAlike
  <2>9. Len(D[i]) = Len(E[i])
    BY <2>4, <2>5, <2>6, <2>7, <2>8, JoinedAlike
  <2>10. Same(i)
    BY <2>4, <2>5, <2>8, <2>9
  <2> QED
    BY <2>1, <2>10
<1>6. Same(L)
  BY <1>1, <1>5
<1> QED
  BY <1>4, <1>6

(* Of a character that does not begin a conversion; and of one that does,  *)
(* with the character behind it.                                           *)
LEMMA LiteralRead ==
  ASSUME NEW f \in Texts, NEW r \in 0 .. Len(f), r \notin Starts(f), r # Len(f),
         f[r + 1] # "%", NEW arguments, Arguments(arguments)
  PROVE  /\ r + 1 \notin Starts(f)
         /\ Taken(f, r + 1 + 1) = Taken(f, r + 1)
         /\ Expansions(f, arguments)[r + 1] = Expansions(f, arguments)[r] \o <<f[r + 1]>>
<1>1. Len(f) \in Nat
  BY DEF Texts
<1>2. r + 1 \in 1 .. Len(f) /\ (r + 1) - 1 = r
  BY <1>1
<1>3. r + 1 \notin Starts(f)
  BY <1>2, StartsStep
<1>4. Taken(f, r + 1 + 1) = Taken(f, r + 1)
  BY <1>2, <1>3, TakenStep
<1>5. Added(f, arguments, r + 1) = <<f[r + 1]>>
  BY <1>2, <1>3 DEF Added
<1> DEFINE E == Expansions(f, arguments)
<1>6. \A i \in 1 .. Len(f) : E[i] = E[i - 1] \o Added(f, arguments, i)
  BY ExpansionsExist
<1> HIDE DEF E
<1>7. E[r + 1] = E[r] \o <<f[r + 1]>>
  BY <1>2, <1>5, <1>6
<1> QED
  BY <1>3, <1>4, <1>7 DEF E

LEMMA ConversionRead ==
  ASSUME NEW f \in Texts, NEW r \in 0 .. Len(f), r \notin Starts(f), r + 1 < Len(f),
         f[r + 1] = "%", NEW arguments, Arguments(arguments)
  PROVE  /\ r + 1 \in Starts(f) /\ r + 2 \notin Starts(f)
         /\ IF f[r + 2] \in Conversions
            THEN Cardinality(Taken(f, r + 2 + 1)) = Cardinality(Taken(f, r + 1)) + 1
            ELSE Cardinality(Taken(f, r + 2 + 1)) = Cardinality(Taken(f, r + 1))
         /\ Expansions(f, arguments)[r + 2]
              = Expansions(f, arguments)[r] \o Converted(f, arguments, r + 1)
         /\ Converted(f, arguments, r + 1) \in Texts
<1>1. Len(f) \in Nat
  BY DEF Texts
<1>2. /\ r + 1 \in 1 .. Len(f) /\ r + 2 \in 1 .. Len(f)
      /\ (r + 1) - 1 = r /\ (r + 2) - 1 = r + 1 /\ r + 1 + 1 = r + 2 /\ r + 1 \in 0 .. Len(f)
  BY <1>1
<1>3. r + 1 \in Starts(f)
  BY <1>2, StartsStep
<1>4. r + 2 \notin Starts(f)
  BY <1>2, <1>3, StartsStep
<1>5. Taken(f, r + 2 + 1) = Taken(f, r + 2)
  BY <1>2, <1>4, TakenStep
<1>6. IF f[r + 2] \in Conversions
      THEN Cardinality(Taken(f, r + 2)) = Cardinality(Taken(f, r + 1)) + 1
      ELSE Taken(f, r + 2) = Taken(f, r + 1)
  BY <1>2, <1>3, TakenStep
<1>7. Added(f, arguments, r + 1) = Converted(f, arguments, r + 1)
  BY <1>3 DEF Added
<1>8. Added(f, arguments, r + 2) = <<>>
  BY <1>2, <1>3, <1>4 DEF Added
<1> DEFINE E == Expansions(f, arguments)
<1>9. E[r + 2] = E[r + 1] \o <<>> /\ E[r + 1] = E[r] \o Converted(f, arguments, r + 1)
      /\ E[r + 1] \in Texts
  <2>1. /\ \A i \in 1 .. Len(f) : E[i] = E[i - 1] \o Added(f, arguments, i)
        /\ \A i \in 0 .. Len(f) : E[i] \in Texts
    BY ExpansionsExist
  <2> HIDE DEF E
  <2>2. E[r + 2] = E[r + 1] \o Added(f, arguments, r + 2)
    BY <1>2, <2>1
  <2>3. E[r + 1] = E[r] \o Added(f, arguments, r + 1)
    BY <1>2, <2>1
  <2> QED
    BY <1>2, <1>7, <1>8, <2>1, <2>2, <2>3
<1>10. E[r + 2] = E[r + 1]
  BY <1>9, ConcatEmptySeq DEF Texts
<1>11. Converted(f, arguments, r + 1) \in Texts
  BY <1>2, ConvertedTyped
<1> QED
  BY <1>3, <1>4, <1>5, <1>6, <1>9, <1>10, <1>11

-----------------------------------------------------------------------------
(* A call of klogf begins.                                                 *)
LEMMA FormatBegins ==
  ASSUME LogInv', pc' = "format", line' = <<>>,
         fmt' = called'.fmt, args' = called'.args,
         Means(called.args)',
         Cardinality(Shared') < 2 => Says(called.args)',
         \A k \in DOMAIN called'.args, base \in {10, 16} : Fits(called'.args[k].number, base),
         \A k \in DOMAIN called'.args : Sound(called'.args[k].string, buf'),
         Shared' # {} => called'.fmt = DeviceFormat, Reported'
  PROVE  FormatSound'
<1> DEFINE f == called'.fmt
<1>1. f \in Texts /\ called'.args \in Seq(Argument)
  BY DEF LogInv, LogTypeOK, Message
<1>2. f \in Seq(Char) /\ Len(f) \in Nat /\ Len(called'.args) \in Nat
  BY <1>1 DEF Texts
<1>3. Read' = 0 /\ 0 + 1 = 1 /\ 0 \in 0 .. Len(f)
  BY <1>2 DEF Read
<1>4. Taken(f, 1) = {} /\ Cardinality({}) = 0
  <2>1. \A j \in Starts(f) : ~ j < 1
    BY <1>1, <1>2, StartsTyped
  <2> QED
    BY <2>1, FS_EmptySet DEF Taken
<1>5. 0 \notin Starts(f)
  BY <1>1, StartsTyped
<1>6. SubSeq(f, 1, Len(f)) = f /\ SubSeq(called'.args, 1, Len(called'.args)) = called'.args
  BY <1>1, <1>2, SubSeqFull
<1>7. Arguments(Printed')
  <2>1. \A k \in DOMAIN called'.args : called'.args[k] \in Argument
    BY <1>1
  <2> QED
    BY <2>1, AsTextTyped DEF Printed, Arguments
<1>8. Expansions(f, Printed')[0] = <<>>
  BY <1>1, <1>7, ExpansionsExist
<1>9. line' = Expansions(f, Printed')[Read']
  BY <1>3, <1>8
<1> HIDE DEF f
<1>10. /\ Read' \in 0 .. Len(f) /\ Read' \notin Starts(f)
       /\ fmt' = SubSeq(f, Read' + 1, Len(f))
       /\ Cardinality(Taken(f, Read' + 1)) = 0
       /\ Cardinality(Taken(f, Read' + 1)) <= Len(called'.args)
       /\ args' = SubSeq(called'.args, Cardinality(Taken(f, Read' + 1)) + 1, Len(called'.args))
  <2>1. Read' + 1 = 1
    BY <1>3
  <2>2. Read' \in 0 .. Len(f) /\ Read' \notin Starts(f)
    BY <1>3, <1>5
  <2>3. Cardinality(Taken(f, Read' + 1)) = 0
    BY <1>4, <2>1
  <2>4. fmt' = SubSeq(f, Read' + 1, Len(f))
    BY <1>6, <2>1 DEF f
  <2>5. args' = SubSeq(called'.args, Cardinality(Taken(f, Read' + 1)) + 1, Len(called'.args))
    BY <1>3, <1>6, <2>3
  <2>6. Cardinality(Taken(f, Read' + 1)) <= Len(called'.args)
    BY <1>2, <2>3
  <2> QED
    BY <2>2, <2>3, <2>4, <2>5, <2>6, Zenon
<1> QED
  BY <1>9, <1>10 DEF FormatSound, f

(* Where klogf is in its format and in its arguments.                      *)
LEMMA FormatPlace ==
  ASSUME LogInv, FormatSound, pc = "format" \/ (pc = "itoa" /\ slot = 0)
  PROVE  LET f == called.fmt
             t == Cardinality(Taken(f, Read + 1))
         IN  /\ f \in Texts /\ Len(f) \in Nat /\ Read \in 0 .. Len(f) /\ Read \notin Starts(f)
             /\ Len(fmt) = Len(f) - Read
             /\ \A j \in 1 .. Len(fmt) : fmt[j] = f[Read + j]
             /\ t \in Nat /\ t <= Len(called.args) /\ Len(called.args) \in Nat
             /\ Len(args) = Len(called.args) - t
             /\ DOMAIN Printed = 1 .. Len(called.args) /\ Alike(Printed, meant)
             /\ Arguments(Printed)
             /\ called.args \in Seq(Argument)
             /\ Cardinality(Shared) < 2 => SameTexts(Printed, meant)
<1> DEFINE f == called.fmt
           a == called.args
           r == Read
           t == Cardinality(Taken(f, Read + 1))
<1>1. f \in Seq(Char) /\ a \in Seq(Argument) /\ Len(f) \in Nat /\ Len(a) \in Nat /\ f \in Texts
      /\ DOMAIN a = 1 .. Len(a)
  BY DEF LogInv, LogTypeOK, Message, Texts
<1>2. /\ r \in 0 .. Len(f) /\ fmt = SubSeq(f, r + 1, Len(f)) /\ r \notin Starts(f)
      /\ t <= Len(a) /\ args = SubSeq(a, t + 1, Len(a)) /\ Means(a)
      /\ \A k \in DOMAIN a : Sound(a[k].string, buf)
      /\ Cardinality(Shared) < 2 => Says(a)
  BY DEF FormatSound
<1>3. t \in Nat
  <2>1. IsFiniteSet(Taken(f, Read + 1))
    <3>1. Taken(f, Read + 1) \subseteq 1 .. Len(f)
      BY <1>1, StartsTyped DEF Taken
    <3>2. IsFiniteSet(1 .. Len(f))
      BY <1>1, FS_Interval
    <3> QED
      BY <3>1, <3>2, FS_Subset
  <2> QED
    BY <2>1, FS_CardinalityType
<1>4. /\ DOMAIN Printed = 1 .. Len(a) /\ Alike(Printed, meant) /\ Arguments(Printed)
      /\ Cardinality(Shared) < 2 => SameTexts(Printed, meant)
  <2>1. ASSUME NEW k \in DOMAIN a
        PROVE  /\ Printed[k] \in Argument /\ Printed[k].number = a[k].number
               /\ Printed[k].character = a[k].character
               /\ Printed[k].string.text = TextOf(a[k].string, buf)
    <3>1. a[k] \in Argument /\ Sound(a[k].string, buf)
      BY <1>1, <1>2, <2>1
    <3>2. Printed[k] = AsText(a[k], buf)
      BY <2>1 DEF Printed
    <3> QED
      BY <3>1, <3>2, AsTextTyped
  <2>2. DOMAIN Printed = DOMAIN a
    BY DEF Printed
  <2> HIDE DEF a
  <2>3. Alike(Printed, meant) /\ Arguments(Printed)
    BY <1>2, <2>1, <2>2 DEF Alike, Arguments, Means
  <2>4. Cardinality(Shared) < 2 => SameTexts(Printed, meant)
    BY <1>2, <2>1, <2>2 DEF SameTexts, Says
  <2> QED
    BY <1>1, <2>2, <2>3, <2>4
<1> HIDE DEF f, a, r, t
<1>5. t \in 0 .. Len(a)
  BY <1>1, <1>2, <1>3
<1>6. Len(fmt) = Len(f) - r /\ \A j \in 1 .. Len(fmt) : fmt[j] = f[r + j]
  BY <1>1, <1>2, Rest
<1>7. Len(args) = Len(a) - t
  BY <1>1, <1>2, <1>5, Rest
<1> QED
  BY <1>1, <1>2, <1>3, <1>4, <1>6, <1>7 DEF f, a, r, t

(* What a step of klogf does to its place in the format and the arguments. *)
LEMMA FormatTakes ==
  ASSUME LogInv, FormatSound, pc = "format" \/ (pc = "itoa" /\ slot = 0),
         NEW n \in 0 .. 2, NEW k \in 0 .. 1, n <= Len(fmt), k <= Len(args), Takes(n, k),
         UNCHANGED <<buf, device, called, meant>>,
         Read + n \notin Starts(called.fmt),
         Cardinality(Taken(called.fmt, Read + n + 1))
           = Cardinality(Taken(called.fmt, Read + 1)) + k
  PROVE  LET f == called.fmt
             a == called.args
         IN  /\ Read' = Read + n /\ Read' \in 0 .. Len(f) /\ Read' \notin Starts(f)
             /\ fmt' = SubSeq(f, Read' + 1, Len(f))
             /\ Cardinality(Taken(f, Read' + 1)) <= Len(a)
             /\ args' = SubSeq(a, Cardinality(Taken(f, Read' + 1)) + 1, Len(a))
             /\ Means(a)' /\ (Cardinality(Shared) < 2 => Says(a)') /\ Shared' = Shared
             /\ \A j \in DOMAIN a, base \in {10, 16} : Fits(a[j].number, base)
             /\ \A j \in DOMAIN a : Sound(a[j].string, buf')
             /\ Shared # {} => f = DeviceFormat
             /\ Reported' /\ Printed' = Printed
             /\ called' = called /\ meant' = meant
<1> DEFINE f == called.fmt
           a == called.args
           r == Read
           t == Cardinality(Taken(f, Read + 1))
<1>1. f \in Seq(Char) /\ a \in Seq(Argument) /\ Len(f) \in Nat /\ Len(a) \in Nat /\ f \in Texts
  BY DEF LogInv, LogTypeOK, Message, Texts
<1>2. /\ r \in 0 .. Len(f) /\ fmt = SubSeq(f, r + 1, Len(f))
      /\ t <= Len(a) /\ args = SubSeq(a, t + 1, Len(a))
      /\ Means(a) /\ (Cardinality(Shared) < 2 => Says(a))
      /\ \A j \in DOMAIN a, base \in {10, 16} : Fits(a[j].number, base)
      /\ \A j \in DOMAIN a : Sound(a[j].string, buf)
      /\ Shared # {} => f = DeviceFormat
      /\ Reported
  BY DEF FormatSound
<1>3. t \in Nat
  <2>1. IsFiniteSet(Taken(f, Read + 1))
    <3>1. Taken(f, Read + 1) \subseteq 1 .. Len(f)
      BY <1>1, StartsTyped DEF Taken
    <3>2. IsFiniteSet(1 .. Len(f))
      BY <1>1, FS_Interval
    <3> QED
      BY <3>1, <3>2, FS_Subset
  <2> QED
    BY <2>1, FS_CardinalityType
<1> HIDE DEF t
<1>4. r \in Nat /\ t \in 0 .. Len(a) /\ n \in Nat /\ k \in Nat
  BY <1>1, <1>2, <1>3
<1>5. Len(fmt) = Len(f) - r /\ Len(args) = Len(a) - t
  <2> HIDE DEF f, a, r
  <2> QED
    BY <1>1, <1>2, <1>4, Rest
<1>6. n <= Len(f) - r /\ k <= Len(a) - t
  BY <1>5
<1>7. fmt' = SubSeq(f, r + n + 1, Len(f)) /\ args' = SubSeq(a, t + k + 1, Len(a))
  <2>1. fmt' = SubSeq(fmt, n + 1, Len(fmt)) /\ args' = SubSeq(args, k + 1, Len(args))
    BY DEF Takes
  <2> HIDE DEF f, a, r
  <2> QED
    BY <1>1, <1>2, <1>4, <1>6, <2>1, RestOfRest
<1>8. Read' = r + n /\ r + n \in 0 .. Len(f)
  <2>1. Len(fmt') = Len(f) - (r + n)
    <3>1. r + n \in 0 .. Len(f)
      BY <1>1, <1>4, <1>6
    <3> HIDE DEF f, r
    <3> QED
      BY <1>1, <1>7, <3>1, Rest
  <2>2. Read' = Len(f) - Len(fmt')
    BY DEF Read
  <2> HIDE DEF f, r
  <2> QED
    BY <1>1, <1>4, <1>6, <2>1, <2>2
<1>9. Cardinality(Taken(f, r + n + 1)) = t + k /\ t + k <= Len(a)
  BY <1>1, <1>3, <1>4, <1>6 DEF t
<1>10. Means(a)' /\ (Cardinality(Shared) < 2 => Says(a)') /\ Shared' = Shared
  BY <1>2 DEF Means, Says, Shared
<1>11. /\ Read' \in 0 .. Len(f) /\ Read' \notin Starts(f)
       /\ fmt' = SubSeq(f, Read' + 1, Len(f))
       /\ Cardinality(Taken(f, Read' + 1)) <= Len(a)
       /\ args' = SubSeq(a, Cardinality(Taken(f, Read' + 1)) + 1, Len(a))
  BY <1>7, <1>8, <1>9
<1>12. Reported' /\ Printed' = Printed
  BY <1>2 DEF Reported, Printed, Told, Nameless, Freshest, InBuffer, DescribedText
<1> QED
  BY <1>2, <1>8, <1>10, <1>11, <1>12

(* klogf goes on in its format, with the line it should have.              *)
LEMMA FormatAdvances ==
  ASSUME LogInv, FormatSound, pc = "format" \/ (pc = "itoa" /\ slot = 0),
         NEW n \in 0 .. 2, NEW k \in 0 .. 1, n <= Len(fmt), k <= Len(args), Takes(n, k),
         UNCHANGED <<buf, device, called, meant>>, pc' \in {"format", "lost"},
         Read + n \notin Starts(called.fmt),
         Cardinality(Taken(called.fmt, Read + n + 1))
           = Cardinality(Taken(called.fmt, Read + 1)) + k,
         line' = Expansions(called.fmt, Printed)[Read + n],
         pc' = "lost" => Len(line') >= LINE_SIZE
  PROVE  FormatSound' /\ LostOnlyAtLimits'
<1> DEFINE f == called.fmt
           a == called.args
           r == Read
           text == Expansions(f, Printed)[r + n]
<1>1. /\ Read' = r + n /\ Read' \in 0 .. Len(f) /\ Read' \notin Starts(f)
      /\ fmt' = SubSeq(f, Read' + 1, Len(f))
      /\ Cardinality(Taken(f, Read' + 1)) <= Len(a)
      /\ args' = SubSeq(a, Cardinality(Taken(f, Read' + 1)) + 1, Len(a))
      /\ Means(a)' /\ (Cardinality(Shared) < 2 => Says(a)') /\ Shared' = Shared
      /\ \A j \in DOMAIN a, base \in {10, 16} : Fits(a[j].number, base)
      /\ \A j \in DOMAIN a : Sound(a[j].string, buf')
      /\ Shared # {} => f = DeviceFormat
      /\ Reported' /\ Printed' = Printed
      /\ called' = called /\ meant' = meant
  BY FormatTakes
<1>2. f \in Texts /\ Arguments(Printed) /\ Alike(Printed, meant)
  BY FormatPlace
<1>3. line' = text
  OBVIOUS
<1>4. FormatSound'
  <2>1. Expansions(f, Printed')[Read'] = line'
    BY <1>1
  <2> HIDE DEF text
  <2> QED
    BY <1>1, <2>1 DEF FormatSound
<1>5. LostOnlyAtLimits'
  <2> SUFFICES ASSUME pc' = "lost"  PROVE Len(Expansion(f, meant)) >= LINE_SIZE
    BY DEF LostOnlyAtLimits
  <2>1. r + n \in 0 .. Len(f)
    BY <1>1
  <2>2. Len(text) <= Len(Expansion(f, Printed)) /\ Len(Expansion(f, Printed)) \in Nat
        /\ Len(text) \in Nat
    BY <1>2, <2>1, ExpansionsGrow
  <2>3. Len(text) >= LINE_SIZE
    BY <1>3
  <2>4. Len(Expansion(f, Printed)) = Len(Expansion(f, meant))
    BY <1>2, ExpansionsAlike
  <2> HIDE DEF text
  <2> QED
    BY <2>2, <2>3, <2>4, LogAssumption
<1> QED
  BY <1>4, <1>5

(* The next argument, and what it says. *)
LEMMA ArgumentNext ==
  ASSUME LogInv, FormatSound, pc = "format", args # <<>>
  PROVE  LET t == Cardinality(Taken(called.fmt, Read + 1))
         IN  /\ t + 1 \in DOMAIN Printed
             /\ args[1] \in Argument /\ Sound(args[1].string, buf)
             /\ Printed[t + 1].number = args[1].number
             /\ Printed[t + 1].character = args[1].character
             /\ Printed[t + 1].string.text = TextOf(args[1].string, buf)
             /\ Len(args) >= 1
<1> DEFINE t == Cardinality(Taken(called.fmt, Read + 1))
           a == called.args
<1>1. /\ args \in Seq(Argument) /\ Len(args) \in Nat \ {0} /\ DOMAIN args = 1 .. Len(args)
      /\ DOMAIN a = 1 .. Len(a)
  BY EmptySeq, FormatPlace DEF LogInv, LogTypeOK
<1>2. /\ t \in Nat /\ Len(args) = Len(a) - t /\ Len(a) \in Nat /\ t <= Len(a)
      /\ a \in Seq(Argument)
  BY FormatPlace
<1>3. args = SubSeq(a, t + 1, Len(a)) /\ DOMAIN Printed = DOMAIN a
      /\ \A k \in DOMAIN a : Printed[k] = AsText(a[k], buf)
  BY DEF FormatSound, Printed
<1> HIDE DEF t, a
<1>4. t \in 0 .. Len(a) /\ 1 \in 1 .. Len(args) /\ t + 1 \in 1 .. Len(a) /\ Len(args) >= 1
  <2>0. Len(args) \in Nat \ {0} /\ t \in Nat /\ Len(a) \in Nat /\ Len(args) = Len(a) - t
    BY <1>1, <1>2, Zenon
  <2>1. Len(args) >= 1 /\ t + 1 <= Len(a)
    BY <2>0
  <2>2. 1 \in 1 .. Len(args)
    BY <1>1, <2>1
  <2> QED
    BY <1>2, <2>1, <2>2
<1>5. args[1] = a[t + 1]
  BY <1>2, <1>3, <1>4, Rest
<1>6. args[1] \in Argument /\ Sound(args[1].string, buf)
  BY <1>1, <1>4 DEF LogInv, PointersSound
<1>7. Printed[t + 1] = AsText(args[1], buf) /\ t + 1 \in DOMAIN Printed
  BY <1>1, <1>3, <1>4, <1>5
<1> QED
  BY <1>4, <1>6, <1>7, AsTextTyped DEF t

(* What a conversion writes. *)
LEMMA ConversionWrites ==
  ASSUME NEW f, NEW arguments, NEW i, i # Len(f), NEW what, what = f[i + 1]
  PROVE  LET n == Cardinality(Taken(f, i)) + 1
             arg == arguments[n]
             text == Converted(f, arguments, i)
         IN  /\ what = "%" => text = <<"%">>
             /\ what \notin Conversions \cup {"%"} => text = <<"%", "?">>
             /\ n \in DOMAIN arguments =>
                  /\ what = "s" => text = arg.string.text
                  /\ what = "c" => text = IF arg.character = NUL THEN <<>> ELSE <<arg.character>>
                  /\ what = "d" => text = Numeral(arg.number, 10)
                  /\ what \in {"x", "p"} => text = Numeral(arg.number, 16)
<1> DEFINE n == Cardinality(Taken(f, i)) + 1
           arg == arguments[n]
           text == Converted(f, arguments, i)
           missing == n \notin DOMAIN arguments
<1>1. text = IF what \in Conversions /\ missing THEN <<>>
             ELSE CASE what = "s" -> arg.string.text
                    [] what = "c" -> IF arg.character = NUL THEN <<>> ELSE <<arg.character>>
                    [] what = "d" -> Numeral(arg.number, 10)
                    [] what \in {"x", "p"} -> Numeral(arg.number, 16)
                    [] what = "%" -> <<"%">>
                    [] OTHER -> <<"%", "?">>
  BY DEF Converted
<1> HIDE DEF text, arg, n
<1>2. what = "%" => text = <<"%">>
  BY <1>1 DEF Conversions
<1>3. what \notin Conversions \cup {"%"} => text = <<"%", "?">>
  BY <1>1 DEF Conversions
<1>4. ASSUME ~ missing
      PROVE  /\ what = "s" => text = arg.string.text
             /\ what = "c" => text = IF arg.character = NUL THEN <<>> ELSE <<arg.character>>
             /\ what = "d" => text = Numeral(arg.number, 10)
             /\ what \in {"x", "p"} => text = Numeral(arg.number, 16)
  <2>1. what = "s" => text = arg.string.text
    BY <1>1, <1>4
  <2>2. what = "c" => text = IF arg.character = NUL THEN <<>> ELSE <<arg.character>>
    BY <1>1, <1>4
  <2>3. what = "d" => text = Numeral(arg.number, 10)
    BY <1>1, <1>4
  <2>4. what \in {"x", "p"} => text = Numeral(arg.number, 16)
    BY <1>1, <1>4
  <2> QED
    BY <2>1, <2>2, <2>3, <2>4
<1> QED
  BY <1>2, <1>3, <1>4 DEF text, arg, n

LEMMA ConvertsAt ==
  ASSUME LogInv, FormatSound, NEW characters, Converts(characters)
  PROVE  LET f == called.fmt
         IN  /\ pc = "format" /\ 2 <= Len(fmt) /\ Read + 1 < Len(f) /\ f[Read + 1] = "%"
             /\ fmt[2] = f[Read + 2] /\ fmt[2] \in characters
             /\ Read + 1 # Len(f) /\ fmt[2] = f[(Read + 1) + 1]
<1> DEFINE f == called.fmt
           r == Read
<1>1. pc = "format" /\ Len(fmt) >= 2 /\ fmt[1] = "%" /\ fmt[2] \in characters
  BY DEF Converts
<1>2. /\ Len(f) \in Nat /\ r \in 0 .. Len(f) /\ Len(fmt) = Len(f) - r
      /\ \A j \in 1 .. Len(fmt) : fmt[j] = f[r + j]
  BY <1>1, FormatPlace
<1> HIDE DEF f, r
<1>3. 1 \in 1 .. Len(fmt) /\ 2 \in 1 .. Len(fmt) /\ r + 1 < Len(f) /\ r + 2 = (r + 1) + 1
  BY <1>1, <1>2
<1>4. fmt[1] = f[r + 1] /\ fmt[2] = f[r + 2]
  BY <1>2, <1>3
<1> QED
  BY <1>1, <1>2, <1>3, <1>4 DEF f, r

(* A conversion that writes what is asked for.                             *)
LEMMA ConversionAdvances ==
  ASSUME LogInv, FormatSound, NEW characters, Converts(characters),
         NEW k \in 0 .. 1, k <= Len(args), k = 1 <=> fmt[2] \in Conversions,
         NEW added \in Texts, Reads(2, k, line \o added),
         added = Converted(called.fmt, Printed, Read + 1)
  PROVE  FormatSound' /\ LostOnlyAtLimits'
<1> DEFINE f == called.fmt
           r == Read
           text == Expansions(f, Printed)[r]
<1>1. /\ pc = "format" /\ 2 <= Len(fmt) /\ r + 1 < Len(f) /\ f[r + 1] = "%"
      /\ fmt[2] = f[r + 2]
  BY ConvertsAt
<1>2. /\ f \in Texts /\ r \in 0 .. Len(f) /\ r \notin Starts(f) /\ Arguments(Printed)
      /\ Cardinality(Taken(f, r + 1)) \in Nat
  BY <1>1, FormatPlace
<1>3. line \in Texts /\ line = text
  BY <1>1 DEF FormatSound, LogInv, LogTypeOK
<1>4. /\ r + 2 \notin Starts(f)
      /\ IF f[r + 2] \in Conversions
         THEN Cardinality(Taken(f, r + 2 + 1)) = Cardinality(Taken(f, r + 1)) + 1
         ELSE Cardinality(Taken(f, r + 2 + 1)) = Cardinality(Taken(f, r + 1))
      /\ Expansions(f, Printed)[r + 2] = line \o added
  <2>1. /\ r + 2 \notin Starts(f)
        /\ IF f[r + 2] \in Conversions
           THEN Cardinality(Taken(f, r + 2 + 1)) = Cardinality(Taken(f, r + 1)) + 1
           ELSE Cardinality(Taken(f, r + 2 + 1)) = Cardinality(Taken(f, r + 1))
        /\ Expansions(f, Printed)[r + 2] = text \o Converted(f, Printed, r + 1)
    <3> HIDE DEF f, r
    <3> QED
      BY <1>1, <1>2, ConversionRead
  <2> HIDE DEF text
  <2> QED
    BY <1>3, <2>1
<1>6. Cardinality(Taken(f, r + 2 + 1)) = Cardinality(Taken(f, r + 1)) + k
  BY <1>1, <1>2, <1>4
<1>7. /\ Takes(2, k) /\ UNCHANGED <<buf, device, called, meant>> /\ line' = line \o added
      /\ pc' \in {"format", "lost"} /\ (pc' = "lost" => ~ Len(line') < LINE_SIZE)
  BY DEF Reads, Appended, call
<1>8. pc' = "lost" => Len(line') >= LINE_SIZE
  <2>1. Len(line') \in Nat /\ LINE_SIZE \in Nat
    <3>1. line \o added \in Seq(Char)
      BY <1>3, ConcatProperties DEF Texts
    <3> QED
      BY <1>7, <3>1, LogAssumption, LenProperties
  <2> QED
    BY <1>7, <2>1
<1>9. 2 \in 0 .. 2
  OBVIOUS
<1> QED
  BY <1>1, <1>4, <1>6, <1>7, <1>8, <1>9, FormatAdvances

LEMMA LiteralAdvances ==
  ASSUME LogInv, FormatSound, FormatLiteral
  PROVE  FormatSound' /\ LostOnlyAtLimits'
<1> DEFINE f == called.fmt
           r == Read
           c == fmt[1]
           text == Expansions(f, Printed)[r]
<1>1. /\ pc = "format" /\ fmt # <<>> /\ c # "%"
      /\ Reads(1, 0, strchrcat(line, c))
  BY DEF FormatLiteral
<1>2. /\ f \in Texts /\ Len(f) \in Nat /\ r \in 0 .. Len(f) /\ r \notin Starts(f)
      /\ Arguments(Printed) /\ Len(fmt) = Len(f) - r
      /\ \A j \in 1 .. Len(fmt) : fmt[j] = f[r + j]
      /\ Cardinality(Taken(f, r + 1)) \in Nat
  BY <1>1, FormatPlace
<1>3. fmt \in Seq(Char) /\ Len(fmt) \in Nat \ {0} /\ 1 \in 1 .. Len(fmt) /\ c \in Char
  <2>1. fmt \in Seq(Char) /\ Len(fmt) \in Nat \ {0}
    BY <1>1, EmptySeq DEF LogInv, LogTypeOK, Texts
  <2>2. 1 \in 1 .. Len(fmt)
    BY <2>1
  <2> QED
    BY <2>1, <2>2, ElementOfSeq
<1>4. r # Len(f) /\ f[r + 1] = c
  BY <1>2, <1>3
<1>5. line \in Texts /\ line = text
  BY <1>1 DEF FormatSound, LogInv, LogTypeOK
<1>6. /\ r + 1 \notin Starts(f)
      /\ Taken(f, r + 1 + 1) = Taken(f, r + 1)
      /\ Expansions(f, Printed)[r + 1] = text \o <<c>>
  <2> HIDE DEF f, r, c
  <2> QED
    BY <1>1, <1>2, <1>4, LiteralRead
<1>7. <<c>> \in Texts /\ strchrcat(line, c) = line \o <<c>>
  <2>1. c # NUL
    BY <1>3, StringsAssumption
  <2> QED
    BY <1>3, <1>5, <2>1, OneCharacter, AppendIsConcat DEF strchrcat, Texts
<1>8. Expansions(f, Printed)[r + 1] = line \o <<c>>
  <2> HIDE DEF text, c
  <2> QED
    BY <1>5, <1>6
<1>9. /\ Takes(1, 0) /\ UNCHANGED <<buf, device, called, meant>> /\ line' = line \o <<c>>
      /\ pc' \in {"format", "lost"} /\ (pc' = "lost" => ~ Len(line') < LINE_SIZE)
  BY <1>1, <1>7 DEF Reads, Appended, call
<1>10. pc' = "lost" => Len(line') >= LINE_SIZE
  <2>1. Len(line') \in Nat /\ LINE_SIZE \in Nat
    <3>1. line \o <<c>> \in Seq(Char)
      BY <1>5, <1>7, ConcatProperties DEF Texts
    <3> QED
      BY <1>9, <3>1, LogAssumption, LenProperties
  <2> QED
    BY <1>9, <2>1
<1>11. 1 \in 0 .. 2 /\ 0 \in 0 .. 1 /\ 1 <= Len(fmt) /\ 0 <= Len(args)
  <2>1. args \in Seq(Argument)
    BY DEF LogInv, LogTypeOK
  <2> QED
    BY <1>3, <2>1, LenProperties
<1>12. Cardinality(Taken(f, r + 1 + 1)) = Cardinality(Taken(f, r + 1)) + 0
  BY <1>2, <1>6
<1> HIDE DEF c
<1> QED
  BY <1>1, <1>6, <1>8, <1>9, <1>10, <1>11, <1>12, FormatAdvances

LEMMA StringAdvances ==
  ASSUME LogInv, FormatSound, FormatString
  PROVE  FormatSound' /\ LostOnlyAtLimits'
<1> DEFINE t == Cardinality(Taken(called.fmt, Read + 1))
           arg == args[1]
           wanted == Converted(called.fmt, Printed, Read + 1)
           added == TextOf(arg.string, buf)
<1>1. Converts({"s"}) /\ args # <<>> /\ Reads(2, 1, line \o added) /\ pc = "format"
  BY DEF FormatString, strcat, Converts
<1>2. fmt[2] = "s" /\ fmt[2] = called.fmt[(Read + 1) + 1] /\ Read + 1 # Len(called.fmt)
  BY <1>1, ConvertsAt
<1>3. /\ t + 1 \in DOMAIN Printed /\ arg \in Argument /\ Sound(arg.string, buf)
      /\ Printed[t + 1].string.text = added
      /\ 1 <= Len(args)
  <2>1. Len(args) \in Nat
    BY LenProperties DEF LogInv, LogTypeOK
  <2> QED
    BY <1>1, <2>1, ArgumentNext
<1>4. wanted = Printed[t + 1].string.text
  BY <1>2, <1>3, ConversionWrites
<1>5. added \in Texts
  BY <1>3, TextOfTyped DEF Argument
<1>6. fmt[2] \in Conversions
  BY <1>2 DEF Conversions
<1>7. added = wanted
  BY <1>3, <1>4
<1> HIDE DEF added, wanted
<1> QED
  BY <1>1, <1>3, <1>5, <1>6, <1>7, ConversionAdvances DEF wanted

LEMMA CharacterAdvances ==
  ASSUME LogInv, FormatSound, FormatCharacter
  PROVE  FormatSound' /\ LostOnlyAtLimits'
<1> DEFINE t == Cardinality(Taken(called.fmt, Read + 1))
           arg == args[1]
           wanted == Converted(called.fmt, Printed, Read + 1)
<1>1. /\ Converts({"c"}) /\ args # <<>> /\ pc = "format"
      /\ Reads(2, 1, strchrcat(line, arg.character))
  BY DEF FormatCharacter, Converts
<1>2. fmt[2] = "c" /\ fmt[2] = called.fmt[(Read + 1) + 1] /\ Read + 1 # Len(called.fmt)
  BY <1>1, ConvertsAt
<1>3. /\ t + 1 \in DOMAIN Printed /\ arg \in Argument
      /\ Printed[t + 1].character = arg.character
      /\ 1 <= Len(args)
  <2>1. Len(args) \in Nat
    BY LenProperties DEF LogInv, LogTypeOK
  <2> QED
    BY <1>1, <2>1, ArgumentNext
<1>4. wanted = IF arg.character = NUL THEN <<>> ELSE <<arg.character>>
  BY <1>2, <1>3, ConversionWrites
<1>5. arg.character \in Cell /\ line \in Seq(Char)
  BY <1>3 DEF Argument, LogInv, LogTypeOK, Texts
<1>6. wanted \in Texts
  BY <1>4, <1>5, OneCharacter, EmptyText DEF Cell
<1>7. strchrcat(line, arg.character) = line \o wanted
  <2>1. CASE arg.character = NUL
    <3>1. line \o <<>> = line
      BY <1>5, ConcatEmptySeq
    <3> QED
      BY <1>4, <2>1, <3>1 DEF strchrcat
  <2>2. CASE arg.character # NUL
    <3>1. Append(line, arg.character) = line \o <<arg.character>>
      BY <1>5, <2>2, AppendIsConcat DEF Cell
    <3> QED
      BY <1>4, <2>2, <3>1 DEF strchrcat
  <2> QED
    BY <2>1, <2>2
<1>8. fmt[2] \in Conversions
  BY <1>2 DEF Conversions
<1>9. Reads(2, 1, line \o wanted)
  BY <1>1, <1>7
<1>10. wanted = Converted(called.fmt, Printed, Read + 1)
  OBVIOUS
<1> HIDE DEF wanted
<1> QED
  BY <1>1, <1>3, <1>6, <1>8, <1>9, <1>10, ConversionAdvances

LEMMA FixedAdvances ==
  ASSUME LogInv, FormatSound, FormatPercent \/ FormatUnknown
  PROVE  FormatSound' /\ LostOnlyAtLimits'
<1> DEFINE wanted == Converted(called.fmt, Printed, Read + 1)
<1>1. "%" \notin Conversions
  BY DEF Conversions
<1>2. /\ Converts({fmt[2]}) /\ fmt[2] \notin Conversions
      /\ fmt[2] = "%" => Reads(2, 0, line \o <<"%">>)
      /\ fmt[2] # "%" => Reads(2, 0, line \o <<"%", "?">>)
  BY <1>1 DEF FormatPercent, FormatUnknown, Converts
<1>3. fmt[2] = called.fmt[(Read + 1) + 1] /\ Read + 1 # Len(called.fmt)
  BY <1>2, ConvertsAt
<1>4. wanted = IF fmt[2] = "%" THEN <<"%">> ELSE <<"%", "?">>
  BY <1>2, <1>3, ConversionWrites
<1>5. wanted \in Texts
  <2>1. <<"%">> \in Texts /\ <<"%", "?">> \in Texts
    BY LogAssumption DEF Texts
  <2> QED
    BY <1>4, <2>1
<1>6. Reads(2, 0, line \o wanted)
  BY <1>2, <1>4
<1>7. 0 <= Len(args) /\ 0 \in 0 .. 1 /\ (0 = 1 <=> fmt[2] \in Conversions)
  <2>1. Len(args) \in Nat
    BY LenProperties DEF LogInv, LogTypeOK
  <2> QED
    BY <1>2, <2>1
<1>8. wanted = Converted(called.fmt, Printed, Read + 1)
  OBVIOUS
<1> HIDE DEF wanted
<1> QED
  BY <1>2, <1>5, <1>6, <1>7, <1>8, ConversionAdvances

(* The message about a device has no conversions of numbers, so klogf does *)
(* not write into the buffer that its arguments are in.                    *)
LEMMA DeviceFormatHasStrings ==
  \A i \in 1 .. Len(DeviceFormat) : DeviceFormat[i] \notin {"d", "x", "p"}
BY DEF DeviceFormat, NEWLINE

LEMMA NumberBegins ==
  ASSUME LogInv, FormatSound, FormatNumber
  PROVE  FormatSound'
<1> DEFINE f == called.fmt
           a == called.args
           r == Read
           t == Cardinality(Taken(f, r + 1))
           base == IF fmt[2] = "d" THEN 10 ELSE 16
<1>1. /\ Converts({"d", "x", "p"}) /\ args # <<>> /\ pc = "format"
      /\ itoa' = ItoaBegin(args[1].number, base) /\ slot' = 0 /\ pc' = "itoa"
      /\ Takes(2, 1) /\ UNCHANGED <<buf, device, called, meant, line>>
  BY DEF FormatNumber, Converts, call
<1>2. /\ 2 <= Len(fmt) /\ r + 1 < Len(f) /\ f[r + 1] = "%"
      /\ fmt[2] = f[r + 2] /\ fmt[2] \in {"d", "x", "p"}
  BY <1>1, ConvertsAt
<1>3. fmt[2] \in Conversions
  BY <1>2 DEF Conversions
<1>4. /\ f \in Texts /\ r \in 0 .. Len(f) /\ r \notin Starts(f) /\ Arguments(Printed)
      /\ t \in Nat /\ Len(f) \in Nat
  BY <1>1, FormatPlace
<1>5. /\ r + 1 \in Starts(f) /\ r + 2 \notin Starts(f)
      /\ Cardinality(Taken(f, r + 2 + 1)) = t + 1
  <2> HIDE DEF f, r
  <2> QED
    BY <1>2, <1>3, <1>4, ConversionRead
<1>6. /\ args[1] \in Argument /\ Printed[t + 1].number = args[1].number /\ 1 <= Len(args)
  <2>1. Len(args) \in Nat
    BY LenProperties DEF LogInv, LogTypeOK
  <2> QED
    BY <1>1, <2>1, ArgumentNext
<1>7. /\ Read' = r + 2 /\ Read' \in 0 .. Len(f) /\ Read' \notin Starts(f)
      /\ fmt' = SubSeq(f, Read' + 1, Len(f))
      /\ Cardinality(Taken(f, Read' + 1)) <= Len(a)
      /\ args' = SubSeq(a, Cardinality(Taken(f, Read' + 1)) + 1, Len(a))
      /\ Means(a)' /\ (Cardinality(Shared) < 2 => Says(a)') /\ Shared' = Shared
      /\ \A j \in DOMAIN a, b \in {10, 16} : Fits(a[j].number, b)
      /\ \A j \in DOMAIN a : Sound(a[j].string, buf')
      /\ Shared # {} => f = DeviceFormat
      /\ Reported' /\ Printed' = Printed
      /\ called' = called /\ meant' = meant
  <2>1. 2 \in 0 .. 2 /\ 1 \in 0 .. 1
    OBVIOUS
  <2> QED
    BY <1>1, <1>2, <1>5, <1>6, <2>1, FormatTakes
<1>8. Shared = {}
  <2>1. r + 2 \in 1 .. Len(f)
    BY <1>2, <1>4
  <2>2. f # DeviceFormat
    BY <1>2, <2>1, DeviceFormatHasStrings
  <2> QED
    BY <1>7, <2>2
<1>9. line' = Expansions(f, Printed)[r]
  BY <1>1 DEF FormatSound
<1>10. ConvertsTo(Printed[t + 1].number, base, itoa', buf')
  <2>1. args[1].number \in Nat /\ base \in {10, 16}
    BY <1>6 DEF Argument
  <2> HIDE DEF base
  <2> QED
    BY <1>1, <1>6, <2>1, ConversionBegins
<1>11. /\ Read' - 1 = r + 1 /\ Read' - 2 = r /\ Cardinality(Taken(f, Read' + 1)) = t + 1
       /\ t + 1 > 0
  BY <1>4, <1>5, <1>7
<1> HIDE DEF f, a, r, t, base
<1>12. /\ Read' - 1 \in Starts(f) /\ f[Read'] = fmt[2]
       /\ line' = Expansions(f, Printed')[Read' - 2]
       /\ Cardinality(Taken(f, Read' + 1)) > 0
       /\ ConvertsTo(Printed'[Cardinality(Taken(f, Read' + 1))].number, base, itoa', buf')
  BY <1>2, <1>5, <1>7, <1>9, <1>10, <1>11
<1> QED
  BY <1>1, <1>2, <1>7, <1>8, <1>12 DEF FormatSound, f, a, base

LEMMA DigitKeepsFormat ==
  ASSUME LogInv, FormatSound, WriteDigit, slot = 0
  PROVE  FormatSound'
<1> DEFINE f == called.fmt
           t == Cardinality(Taken(f, Read + 1))
           base == IF f[Read] = "d" THEN 10 ELSE 16
<1>1. /\ pc = "itoa" /\ ~ ItoaDone(itoa)
      /\ buf' = ItoaDigit(itoa, buf) /\ itoa' = ItoaNext(itoa)
      /\ UNCHANGED <<slot, pc, fmt, args, line, device, called, meant>>
  BY DEF WriteDigit, call
<1>2. /\ Shared = {} /\ t > 0 /\ ConvertsTo(Printed[t].number, base, itoa, buf)
      /\ Means(called.args) /\ (Cardinality(Shared) < 2 => Says(called.args)) /\ Reported
  BY <1>1 DEF FormatSound
<1>3. /\ t \in Nat /\ t <= Len(called.args) /\ Len(called.args) \in Nat
      /\ DOMAIN Printed = 1 .. Len(called.args) /\ Arguments(Printed)
  BY <1>1, FormatPlace
<1>4. Printed[t].number \in Nat /\ base \in {10, 16}
  <2>1. t \in DOMAIN Printed
    BY <1>2, <1>3
  <2> QED
    BY <1>3, <2>1 DEF Arguments, Argument
<1>5. ConvertsTo(Printed[t].number, base, itoa', buf')
  <2> DEFINE n == Printed[t].number
  <2>1. n \in Nat /\ base \in {10, 16} /\ ConvertsTo(n, base, itoa, buf)
    BY <1>2, <1>4
  <2> HIDE DEF n, base
  <2>2. ConvertsTo(n, base, itoa', buf')
    BY <1>1, <2>1, ConversionContinues
  <2> QED
    BY <2>2 DEF n
<1>6. \A k \in DOMAIN called.args : called.args[k].string.at = 0
  BY <1>2 DEF Shared
<1>7. Means(called.args)' /\ (Cardinality(Shared) < 2 => Says(called.args)') /\ Shared' = Shared
  BY <1>1, <1>2, <1>6 DEF Means, Says, Shared, TextOf
<1>8. Read' = Read
  BY <1>1 DEF Read
<1>9. Printed' = Printed
  BY <1>1, <1>6 DEF Printed, AsText, TextOf
<1>10. Reported'
  BY <1>1, <1>2, <1>6 DEF Reported, Told, Nameless, Freshest, InBuffer, DescribedText
<1>11. \A k \in DOMAIN called'.args : Sound(called'.args[k].string, buf')
  BY <1>1, <1>6 DEF Sound
<1> HIDE DEF base
<1> QED
  BY <1>1, <1>2, <1>5, <1>7, <1>8, <1>9, <1>10, <1>11 DEF FormatSound, base

LEMMA NumberAdvances ==
  ASSUME LogInv, FormatSound, ReturnNumber
  PROVE  FormatSound' /\ LostOnlyAtLimits'
<1> DEFINE f == called.fmt
           a == called.args
           r == Read
           t == Cardinality(Taken(f, r + 1))
           base == IF f[r] = "d" THEN 10 ELSE 16
           E == Expansions(f, Printed)
           wanted == Converted(f, Printed, r - 1)
           string == ItoaString(itoa)
<1>1. /\ pc = "itoa" /\ ItoaDone(itoa) /\ slot = 0
      /\ line' = line \o TextOf(string, buf)
      /\ pc' \in {"format", "lost"} /\ (pc' = "lost" => ~ Len(line') < LINE_SIZE)
      /\ UNCHANGED <<buf, fmt, args, device, called, meant>>
  BY DEF ReturnNumber, Appended, strcat, call
<1>2. /\ Shared = {} /\ t > 0 /\ ConvertsTo(Printed[t].number, base, itoa, buf)
      /\ r - 1 \in Starts(f) /\ f[r] \in {"d", "x", "p"} /\ line = E[r - 2]
      /\ \A k \in DOMAIN a, b \in {10, 16} : Fits(a[k].number, b)
  BY <1>1 DEF FormatSound
<1>3. /\ f \in Texts /\ Len(f) \in Nat /\ r \in 0 .. Len(f) /\ r \notin Starts(f)
      /\ t \in Nat /\ t <= Len(a) /\ Len(a) \in Nat
      /\ DOMAIN Printed = 1 .. Len(a) /\ Arguments(Printed)
  BY <1>1, FormatPlace
<1>4. t \in DOMAIN Printed /\ Printed[t].number \in Nat /\ base \in {10, 16}
  <2>1. t \in DOMAIN Printed
    BY <1>2, <1>3
  <2> QED
    BY <1>3, <2>1 DEF Arguments, Argument
<1>5. Fits(Printed[t].number, base)
  <2>1. t \in DOMAIN a /\ a[t] \in Argument
    BY <1>1, <1>4, FormatPlace DEF Printed
  <2>2. Printed[t].number = a[t].number
    BY <2>1 DEF Printed, AsText, Argument
  <2> QED
    BY <1>2, <1>4, <2>1, <2>2
<1>6. TextOf(string, buf) = Numeral(Printed[t].number, base)
  <2> DEFINE n == Printed[t].number
  <2>1. n \in Nat /\ base \in {10, 16} /\ ConvertsTo(n, base, itoa, buf) /\ Fits(n, base)
    BY <1>2, <1>4, <1>5
  <2> HIDE DEF n, base
  <2>2. TextOf(string, buf) = Numeral(n, base)
    BY <1>1, <2>1, ConversionEnds
  <2> QED
    BY <2>2 DEF n
<1>7. r - 1 \in 1 .. Len(f) /\ r - 1 # Len(f) /\ (r - 1) + 1 = r /\ r - 2 \in 0 .. Len(f)
      /\ (r - 2) + 1 = r - 1 /\ (r - 2) + 2 = r /\ (r - 2) + 1 < Len(f) /\ r \in 1 .. Len(f)
  <2>1. r - 1 \in 1 .. Len(f)
    BY <1>2, <1>3, StartsTyped
  <2> QED
    BY <1>3, <2>1
<1>8. f[r - 1] = "%" /\ r - 2 \notin Starts(f)
  <2>1. (r - 1) - 1 = r - 2
    BY <1>3
  <2>2. f[r - 1] = "%" /\ (r - 1) - 1 \notin Starts(f)
    BY <1>2, <1>3, StartsTyped
  <2> QED
    BY <2>1, <2>2
<1>9. f[r] \in Conversions
  BY <1>2 DEF Conversions
<1>10. /\ E[r] = E[r - 2] \o wanted /\ wanted \in Texts
       /\ Cardinality(Taken(f, r + 1)) = Cardinality(Taken(f, r - 1)) + 1
  <2> DEFINE q == r - 2
  <2>1. q \in 0 .. Len(f) /\ q \notin Starts(f) /\ q + 1 < Len(f) /\ f[q + 1] = "%"
        /\ q + 1 = r - 1 /\ q + 2 = r
    BY <1>7, <1>8
  <2> HIDE DEF q, f, r
  <2>2. /\ E[q + 2] = E[q] \o Converted(f, Printed, q + 1)
        /\ Converted(f, Printed, q + 1) \in Texts
        /\ IF f[q + 2] \in Conversions
           THEN Cardinality(Taken(f, q + 2 + 1)) = Cardinality(Taken(f, q + 1)) + 1
           ELSE Cardinality(Taken(f, q + 2 + 1)) = Cardinality(Taken(f, q + 1))
    BY <1>3, <2>1, ConversionRead
  <2> HIDE DEF E
  <2> QED
    BY <1>9, <2>1, <2>2 DEF q
<1>11. wanted = Numeral(Printed[t].number, base)
  <2>1. Cardinality(Taken(f, r - 1)) + 1 = t
    BY <1>10
  <2> DEFINE what == f[r]
             i == r - 1
  <2>2. /\ i # Len(f) /\ what = f[i + 1] /\ Cardinality(Taken(f, i)) + 1 = t
    BY <1>7, <2>1
  <2> HIDE DEF t, f, r, i, what
  <2>3. /\ what = "d" => Converted(f, Printed, i) = Numeral(Printed[t].number, 10)
        /\ what \in {"x", "p"} => Converted(f, Printed, i) = Numeral(Printed[t].number, 16)
    BY <1>4, <2>2, ConversionWrites
  <2> QED
    BY <1>2, <2>3 DEF what, i
<1>12. line' = E[r]
  BY <1>1, <1>2, <1>6, <1>10, <1>11
<1>13. /\ Takes(0, 0) /\ 0 <= Len(fmt) /\ 0 <= Len(args)
  <2>1. fmt \in Seq(Char) /\ args \in Seq(Argument)
    BY DEF LogInv, LogTypeOK, Texts
  <2>2. SubSeq(fmt, 1, Len(fmt)) = fmt /\ SubSeq(args, 1, Len(args)) = args
    BY <2>1, SubSeqFull
  <2>3. Len(fmt) \in Nat /\ Len(args) \in Nat
    BY <2>1, LenProperties
  <2> QED
    BY <1>1, <2>2, <2>3 DEF Takes
<1>14. pc' = "lost" => Len(line') >= LINE_SIZE
  <2>1. Len(line') \in Nat /\ LINE_SIZE \in Nat
    <3>1. E[r] \in Texts
      BY <1>3, ExpansionsExist
    <3> QED
      BY <1>12, <3>1, LogAssumption, LenProperties DEF Texts
  <2> QED
    BY <1>1, <2>1
<1>15. r + 0 = r /\ 0 \in 0 .. 2 /\ 0 \in 0 .. 1 /\ t + 0 = t
  BY <1>3
<1> HIDE DEF E, t, r
<1> QED
  BY <1>1, <1>3, <1>12, <1>13, <1>14, <1>15, FormatAdvances DEF E, t, r

(* klogf ends at the end of its format.                                    *)
LEMMA LineEnds ==
  ASSUME LogInv, FormatSound, EndFormat
  PROVE  LineExact' /\ LineSound'
<1>1. pc = "format" /\ fmt = <<>> /\ UNCHANGED <<buf, line, device, called, meant>>
  BY DEF EndFormat, call
<1>2. Read = Len(called.fmt)
  <2>1. Read = Len(called.fmt) - 0 /\ Len(called.fmt) \in Nat
    BY <1>1, FormatPlace DEF Read
  <2> QED
    BY <2>1
<1>3. line = Expansion(called.fmt, Printed) /\ Reported
  BY <1>1, <1>2 DEF FormatSound, Expansion
<1>4. /\ Len(line) = Len(Expansion(called.fmt, meant))
      /\ Cardinality(Shared) < 2 => line = Expansion(called.fmt, meant)
  BY <1>1, <1>3, FormatPlace, ExpansionsAlike
<1>5. Shared' = Shared
  BY <1>1 DEF Shared
<1>6. Reported' /\ Printed' = Printed
  BY <1>1, <1>3 DEF Reported, Printed, Told, Nameless, Freshest, InBuffer, DescribedText
<1> QED
  BY <1>1, <1>3, <1>4, <1>5, <1>6 DEF LineExact, LineSound

(* It leaves its format, or its arguments, only where a limit is passed.   *)
LEMMA LostInFormat ==
  ASSUME LogInv, FormatSound, FormatMissing \/ FormatBeyondEnd
  PROVE  LostOnlyAtLimits'
<1> DEFINE f == called.fmt
           r == Read
           t == Cardinality(Taken(f, r + 1))
<1>1. pc = "format" /\ UNCHANGED <<called, meant>>
  BY DEF FormatMissing, FormatBeyondEnd, Converts, call
<1>2. /\ f \in Texts /\ Len(f) \in Nat /\ r \in 0 .. Len(f) /\ r \notin Starts(f)
      /\ Len(fmt) = Len(f) - r /\ \A j \in 1 .. Len(fmt) : fmt[j] = f[r + j]
      /\ t \in Nat /\ Len(args) = Len(called.args) - t /\ Len(called.args) \in Nat
      /\ Arguments(Printed) /\ t <= Len(called.args)
  BY <1>1, FormatPlace
<1>3. CASE FormatMissing
  <2> DEFINE all == {i \in Starts(f) : f[i + 1] \in Conversions}
  <2>1. Converts(Conversions) /\ args = <<>>
    BY <1>3 DEF FormatMissing
  <2>2. r + 1 < Len(f) /\ f[r + 1] = "%" /\ f[r + 2] \in Conversions
    BY <2>1, ConvertsAt
  <2>3. Cardinality(Taken(f, r + 2 + 1)) = t + 1
    <3> HIDE DEF f, r
    <3> QED
      BY <1>2, <2>2, ConversionRead
  <2>4. t = Len(called.args)
    <3>1. Len(args) = 0
      BY <2>1
    <3> HIDE DEF t
    <3> QED
      BY <1>2, <3>1
  <2>5. IsFiniteSet(all) /\ Taken(f, r + 2 + 1) \subseteq all
    <3>1. all \subseteq 1 .. Len(f)
      BY <1>2, StartsTyped
    <3>2. IsFiniteSet(1 .. Len(f))
      BY <1>2, FS_Interval
    <3>3. Taken(f, r + 2 + 1) \subseteq all
      BY DEF Taken
    <3> HIDE DEF all
    <3> QED
      BY <3>1, <3>2, <3>3, FS_Subset
  <2>6. Cardinality(all) \in Nat /\ Cardinality(Taken(f, r + 2 + 1)) <= Cardinality(all)
    <3> HIDE DEF all
    <3> QED
      BY <2>5, FS_Subset, FS_CardinalityType
  <2> HIDE DEF t, all
  <2>7. Cardinality(all) > Len(called.args)
    BY <1>2, <2>3, <2>4, <2>6
  <2> QED
    BY <1>1, <2>7 DEF LostOnlyAtLimits, all
<1>4. CASE FormatBeyondEnd
  <2>1. fmt = <<"%">>
    BY <1>4 DEF FormatBeyondEnd
  <2>2. Len(fmt) = 1 /\ fmt[1] = "%" /\ 1 \in 1 .. Len(fmt)
    BY <2>1
  <2> HIDE DEF f, r
  <2>3. r + 1 = Len(f) /\ f[r + 1] = "%" /\ (r + 1) - 1 = r /\ r + 1 \in 1 .. Len(f)
    <3>1. fmt[1] = f[r + 1]
      BY <1>2, <2>2
    <3>2. Len(f) \in Nat /\ r \in 0 .. Len(f) /\ Len(f) - r = 1
      BY <1>2, <2>2
    <3>3. r + 1 = Len(f) /\ (r + 1) - 1 = r /\ r + 1 \in 1 .. Len(f)
      BY <3>2
    <3> QED
      BY <2>2, <3>1, <3>3
  <2>4. r + 1 \in Starts(f)
    BY <1>2, <2>3, StartsStep
  <2>5. Len(f) \in Starts(f)
    BY <2>3, <2>4
  <2> QED
    BY <1>1, <2>5 DEF LostOnlyAtLimits, f
<1> QED
  BY <1>3, <1>4

(* The screen has rows for a character, or the text outgrows it; and the   *)
(* pointer behind a text is damaged only when the text is full.            *)
LEMMA LostInDrawing ==
  ASSUME LogInv, ScreenInv, DrawCharacter
  PROVE  LostOnlyAtLimits'
<1> DEFINE text == console.text
           i == drawn + 1
           at == Placed(cursor, text[i])
<1>1. /\ pc = "draw" /\ drawn < Len(text) /\ UNCHANGED <<console, given>>
      /\ cursor = CursorAt(text, drawn)
  BY DEF ScreenInv, DrawCharacter
<1>2. drawn \in Nat /\ text \in Seq(Char) /\ Len(text) \in Nat
      /\ console.framebuffer \in 0 .. 255 /\ given \in 0 .. 255
  BY DEF LogInv, LogTypeOK, BasicOutputConsole, Texts
<1>3. i \in 1 .. Len(text)
  BY <1>1, <1>2
<1>4. \/ pc' = pc \/ console.framebuffer # given
      \/ text[i] # NEWLINE /\ ~ OnScreen(at)
  BY DEF DrawCharacter
<1>5. CASE pc' = pc
  BY <1>1, <1>5 DEF LostOnlyAtLimits
<1>6. CASE console.framebuffer # given
  <2>1. Len(text) = OUTBUFFER_SIZE /\ given # 0
    BY <1>6 DEF LogInv, PointerKept
  <2> QED
    BY <1>1, <2>1 DEF LostOnlyAtLimits
<1>7. CASE text[i] # NEWLINE /\ ~ OnScreen(at)
  <2>1. /\ at \in [x : Nat, y : Nat] /\ at.x \in Column
        /\ <<at.x, at.y>> = Place(text, i)
    BY <1>1, <1>2, <1>7, CharacterPlaced
  <2>2. Place(text, i)[2] = at.y /\ at.y \in Nat
    <3> HIDE DEF at, i
    <3>1. Place(text, i)[2] = <<at.x, at.y>>[2]
      BY <2>1
    <3> QED
      BY <2>1, <3>1
  <2>3. at.y \notin Line
    BY <1>7, <2>1 DEF OnScreen
  <2> HIDE DEF at
  <2>4. at.y + FONT_HEIGHT > HEIGHT
    BY <2>2, <2>3, ConsoleAssumption DEF Line
  <2>5. i \in Visible(text)
    BY <1>3, <1>7 DEF Visible
  <2> HIDE DEF i, text
  <2>6. \E j \in Visible(text) : Place(text, j)[2] + FONT_HEIGHT > HEIGHT
    BY <2>2, <2>4, <2>5
  <2>7. text' = text
    BY <1>1 DEF text
  <2> QED
    BY <1>1, <2>6 DEF LostOnlyAtLimits, text
<1> QED
  BY <1>4, <1>5, <1>6, <1>7

(* A call of klogf with a message, whose strings are literals; and with    *)
(* the arguments of a description.                                         *)
LEMMA MessageBegins ==
  ASSUME LogInv', NEW m \in Messages \cup {Banner}, Begin(m.fmt, m.args),
         meant' = [k \in DOMAIN m.args |-> AsText(m.args[k], buf)], pc' = "format"
  PROVE  FormatSound'
<1> DEFINE a == m.args
<1>1. /\ m \in Message /\ a \in Seq(Argument) /\ m.fmt # DeviceFormat
      /\ \A k \in DOMAIN a : a[k].string.at = 0
  BY MessageSound, LogAssumption
<1>2. /\ called'.fmt = m.fmt /\ called'.args = a /\ fmt' = m.fmt /\ args' = a /\ line' = <<>>
  BY DEF Begin
<1>3. ASSUME NEW k \in DOMAIN a
      PROVE  /\ meant'[k] \in Argument /\ meant'[k].number = a[k].number
             /\ meant'[k].character = a[k].character
             /\ meant'[k].string.text = a[k].string.text
             /\ TextOf(a[k].string, buf') = a[k].string.text
  <2>1. a[k] \in Argument
    BY <1>1, LenProperties
  <2>2. TextOf(a[k].string, buf) = a[k].string.text /\ TextOf(a[k].string, buf') = a[k].string.text
    BY <1>1 DEF TextOf
  <2>3. Literal(a[k].string.text) \in Pointer /\ Literal(a[k].string.text).text = a[k].string.text
    BY <2>1, LiteralTyped DEF Literal, Argument, Pointer
  <2>4. meant'[k] = [a[k] EXCEPT !.string = Literal(a[k].string.text)]
    BY <2>2 DEF AsText
  <2> QED
    BY <2>1, <2>2, <2>3, <2>4 DEF Argument
<1>4. DOMAIN meant' = DOMAIN a
  OBVIOUS
<1>5. Means(called.args)' /\ Says(called.args)'
  BY <1>2, <1>3, <1>4 DEF Means, Says
<1>6. Shared' = {}
  BY <1>1, <1>2 DEF Shared
<1>7. \A k \in DOMAIN called'.args, base \in {10, 16} : Fits(called'.args[k].number, base)
  BY <1>2, NumbersAssumption DEF Fits
<1>8. Reported' /\ \A k \in DOMAIN called'.args : Sound(called'.args[k].string, buf')
  BY <1>1, <1>2 DEF Reported, Sound
<1> QED
  BY <1>2, <1>5, <1>6, <1>7, <1>8, FormatBegins

LEMMA DescriptionBegins ==
  ASSUME LogInv, LogInv', DescribingSound, FormatDescription
  PROVE  FormatSound'
<1>1. /\ pc = "describe" /\ DOMAIN names = 1 .. 5 /\ pc' = "format" /\ line' = <<>>
      /\ fmt' = DeviceFormat /\ args' = [k \in 1 .. 5 |-> names[k]]
      /\ called' = [fmt |-> DeviceFormat, args |-> [k \in 1 .. 5 |-> names[k]]]
      /\ UNCHANGED <<buf, device, names, meant>>
  BY DEF FormatDescription, Begin
<1>2. /\ Means(names) /\ (Cardinality(InBuffer(names)) < 2 => Says(names))
      /\ \A k \in DOMAIN names : names[k].number = 0
      /\ device \in Devices /\ Told(names) /\ Freshest(names)
  BY <1>1 DEF DescribingSound
<1>3. /\ called'.fmt = DeviceFormat /\ fmt' = called'.fmt /\ args' = called'.args
      /\ DOMAIN called'.args = DOMAIN names
      /\ \A k \in DOMAIN names : called'.args[k] = names[k]
  BY <1>1
<1>4. Means(called.args)'
  BY <1>1, <1>2, <1>3 DEF Means
<1>5. Shared' = InBuffer(names)
  BY <1>3 DEF Shared, InBuffer
<1>6. Cardinality(Shared') < 2 => Says(called.args)'
  BY <1>1, <1>2, <1>3, <1>5 DEF Says
<1>7. \A k \in DOMAIN called'.args, base \in {10, 16} : Fits(called'.args[k].number, base)
  BY <1>2, <1>3, ZeroFits
<1>8. \A k \in DOMAIN called'.args : Sound(called'.args[k].string, buf')
  BY <1>1, <1>3 DEF LogInv, PointersSound
<1>9. Reported'
  <2>1. \A k : DescribedText(k)' = DescribedText(k) /\ Nameless(k)' = Nameless(k)
    BY <1>1 DEF DescribedText, Nameless
  <2>2. Told(called.args)'
    BY <1>2, <1>3, <2>1 DEF Told
  <2>3. InBuffer(called.args)' = InBuffer(names)
    BY <1>3 DEF InBuffer
  <2>4. Freshest(called.args)'
    <3>1. \A k \in InBuffer(names) : called'.args[k] = names[k]
      BY <1>3 DEF InBuffer
    <3> QED
      BY <1>1, <1>2, <2>1, <2>3, <3>1 DEF Freshest
  <2> QED
    BY <1>1, <1>2, <1>3, <2>2, <2>4 DEF Reported
<1> QED
  BY <1>1, <1>3, <1>4, <1>6, <1>7, <1>8, <1>9, FormatBegins

-----------------------------------------------------------------------------
LEMMA LineInitially == Init => LineInv
BY DEF Init, LineInv, DescribingSound, FormatSound, LineSound, LineExact, LostOnlyAtLimits

(* Whatever is described, formatted, passed on or lost, the parts of the   *)
(* invariant about the rest say nothing.                                   *)
LEMMA Elsewhere ==
  /\ pc' \notin {"describe", "itoa"} => DescribingSound'
  /\ pc' = "itoa" /\ slot' = 0 => DescribingSound'
  /\ pc' \notin {"format", "itoa"} => FormatSound'
  /\ pc' = "itoa" /\ slot' # 0 => FormatSound'
  /\ pc' # "log" => LineExact' /\ LineSound'
  /\ pc' # "lost" => LostOnlyAtLimits'
BY DEF DescribingSound, FormatSound, LineSound, LineExact, LostOnlyAtLimits

LEMMA LineStep == LogInv /\ ScreenInv /\ LineInv /\ [Next]_vars => LineInv'
<1> SUFFICES ASSUME LogInv, ScreenInv, LineInv, [Next]_vars
             PROVE  LineInv'
  OBVIOUS
<1>0. /\ DescribingSound /\ FormatSound /\ LineSound /\ LineExact /\ LostOnlyAtLimits
      /\ LogInv'
  BY LogStep DEF LineInv
<1>1. CASE InitDisplay
  <2>1. pc' = "format"
    BY <1>1 DEF InitDisplay
  <2>2. FormatSound'
    BY <1>0, <1>1, <2>1, MessageBegins DEF InitDisplay
  <2> QED
    BY <2>1, <2>2, Elsewhere DEF LineInv
<1>2. CASE klog_set_log_mode
  <2>1. pc' = "idle"
    BY <1>2 DEF klog_set_log_mode
  <2> QED
    BY <2>1, Elsewhere DEF LineInv
<1>3. CASE CallKlogf
  <2>1. pc' = "format"
    BY <1>3 DEF CallKlogf
  <2>2. PICK m \in Messages : /\ Begin(m.fmt, m.args)
                              /\ meant' = [k \in DOMAIN m.args |-> AsText(m.args[k], buf)]
    BY <1>3 DEF CallKlogf
  <2>3. FormatSound'
    BY <1>0, <2>1, <2>2, MessageBegins
  <2> QED
    BY <2>1, <2>3, Elsewhere DEF LineInv
<1>4. CASE CallKlog
  <2>1. pc' = "log" /\ called'.fmt = <<>>
    BY <1>4 DEF CallKlog
  <2>2. LineExact' /\ LineSound'
    BY <2>1 DEF LineExact, LineSound, DeviceFormat
  <2> QED
    BY <2>1, <2>2, Elsewhere DEF LineInv
<1>5. CASE CallDescribe
  <2>1. pc' = "describe" /\ device' \in Devices /\ names' = <<>> /\ meant' = <<>>
    BY <1>5 DEF CallDescribe
  <2>2. DescribingSound'
    BY <2>1 DEF DescribingSound, Means, Says, Told, Freshest, InBuffer
  <2> QED
    BY <2>1, <2>2, Elsewhere DEF LineInv
<1>6. ASSUME NEW k \in 1 .. 5, DescribeNoClass(k)
      PROVE  LineInv'
  <2>1. /\ pc' = "lost" /\ UNCHANGED device
        /\ device.device_class + 1 \notin DOMAIN PCI_DEVICE_CLASSES
    BY <1>6 DEF DescribeNoClass, format
  <2>2. device.device_class \in Nat
    BY DEF LogInv, LogTypeOK, DeviceHeader
  <2>3. device.device_class >= Len(PCI_DEVICE_CLASSES)
    <3>1. DOMAIN PCI_DEVICE_CLASSES = 1 .. Len(PCI_DEVICE_CLASSES)
          /\ Len(PCI_DEVICE_CLASSES) \in Nat
      BY DEF PCI_DEVICE_CLASSES
    <3> QED
      BY <2>1, <2>2, <3>1
  <2>4. LostOnlyAtLimits'
    BY <2>1, <2>3 DEF LostOnlyAtLimits
  <2> QED
    BY <2>1, <2>4, Elsewhere DEF LineInv
<1>7. ASSUME NEW k \in 1 .. 5, DescribeByName(k) \/ DescribeByNumber(k)
      PROVE  LineInv'
  <2>1. DescribingSound'
    BY <1>0, <1>7, DescribingStep
  <2>2. pc' = "describe" \/ (pc' = "itoa" /\ slot' # 0)
    BY <1>7 DEF DescribeByName, DescribeByNumber
  <2> QED
    BY <2>1, <2>2, Elsewhere DEF LineInv
<1>8. CASE FormatDescription
  <2>1. FormatSound' /\ pc' = "format"
    BY <1>0, <1>8, DescriptionBegins DEF FormatDescription
  <2> QED
    BY <2>1, Elsewhere DEF LineInv
<1>9. CASE WriteDigit
  <2>1. pc' = "itoa" /\ slot' = slot
    BY <1>9 DEF WriteDigit
  <2>2. CASE slot = 0
    BY <1>0, <1>9, <2>1, <2>2, DigitKeepsFormat, Elsewhere DEF LineInv
  <2>3. CASE slot # 0
    BY <1>0, <1>9, <2>1, <2>3, DigitKeepsDescribing, Elsewhere DEF LineInv
  <2> QED
    BY <2>2, <2>3
<1>10. CASE ReturnArgument
  <2>1. DescribingSound' /\ pc' = "describe"
    BY <1>0, <1>10, ReturnKeepsDescribing DEF ReturnArgument
  <2> QED
    BY <2>1, Elsewhere DEF LineInv
<1>11. CASE ReturnNumber \/ FormatLiteral \/ FormatString \/ FormatCharacter
              \/ FormatPercent \/ FormatUnknown
  <2>1. FormatSound' /\ LostOnlyAtLimits'
    BY <1>0, <1>11, NumberAdvances, LiteralAdvances, StringAdvances, CharacterAdvances,
       FixedAdvances
  <2>2. pc' \in {"format", "lost"}
    BY <1>11 DEF ReturnNumber, FormatLiteral, FormatString, FormatCharacter, FormatPercent,
                 FormatUnknown, Reads, Appended
  <2> QED
    BY <2>1, <2>2, Elsewhere DEF LineInv
<1>12. CASE FormatNumber
  <2>1. FormatSound' /\ pc' = "itoa" /\ slot' = 0
    BY <1>0, <1>12, NumberBegins DEF FormatNumber
  <2> QED
    BY <2>1, Elsewhere DEF LineInv
<1>13. CASE FormatMissing \/ FormatBeyondEnd
  <2>1. LostOnlyAtLimits' /\ pc' = "lost"
    BY <1>0, <1>13, LostInFormat DEF FormatMissing, FormatBeyondEnd
  <2> QED
    BY <2>1, Elsewhere DEF LineInv
<1>14. CASE EndFormat
  <2>1. LineExact' /\ LineSound' /\ pc' = "log"
    BY <1>0, <1>14, LineEnds DEF EndFormat
  <2> QED
    BY <2>1, Elsewhere DEF LineInv
<1>15. CASE WriteDisplayed \/ WriteOnly
  <2>1. pc' \in {"draw", "idle"}
    BY <1>15 DEF WriteDisplayed, WriteOnly
  <2> QED
    BY <2>1, Elsewhere DEF LineInv
<1>16. CASE CorrectMode
  <2>1. pc' = "log" /\ pc = "log" /\ UNCHANGED <<buf, line, device, called, meant>>
    BY <1>16 DEF CorrectMode, format, call
  <2>2. LineExact' /\ LineSound'
    BY <1>0, <2>1 DEF LineExact, LineSound, Reported, Told, Nameless, Freshest, InBuffer,
                      DescribedText, Printed, Shared
  <2> QED
    BY <2>1, <2>2, Elsewhere DEF LineInv
<1>17. CASE DrawCharacter
  <2>1. pc' \in {"draw", "lost"}
    BY <1>17 DEF DrawCharacter
  <2>2. LostOnlyAtLimits'
    BY <1>0, <1>17, LostInDrawing
  <2> QED
    BY <2>1, <2>2, Elsewhere DEF LineInv
<1>18. CASE EndDraw
  <2>1. pc' = "idle"
    BY <1>18 DEF EndDraw
  <2> QED
    BY <2>1, Elsewhere DEF LineInv
<1>19. CASE UNCHANGED vars
  <2>1. DescribingSound'
    BY <1>0, <1>19
    DEF vars, DescribingSound, Means, Says, Told, Nameless, Freshest, InBuffer, DescribedText
  <2>2. Reported' = Reported /\ Printed' = Printed
    BY <1>19 DEF vars, Reported, Told, Nameless, Freshest, InBuffer, DescribedText, Printed
  <2>3. FormatSound'
    BY <1>0, <1>19, <2>2 DEF vars, FormatSound, Means, Says, Shared, Read
  <2>4. LineSound' /\ LineExact' /\ LostOnlyAtLimits'
    BY <1>0, <1>19, <2>2 DEF vars, LineSound, LineExact, LostOnlyAtLimits, Shared
  <2> QED
    BY <2>1, <2>3, <2>4 DEF LineInv
<1> QED
  BY <1>1, <1>2, <1>3, <1>4, <1>5, <1>6, <1>7, <1>8, <1>9, <1>10, <1>11, <1>12, <1>13,
     <1>14, <1>15, <1>16, <1>17, <1>18, <1>19
  DEF Next, Describing, Converting, klogf, klog

(* When klogf passes its line on, the line has the length its caller asked *)
(* for, and says what it asked for unless two of its arguments share       *)
(* itoa's buffer (klog.c:27-82, string.c:33-45), for formats of any length *)
(* and any numbers whose digits the buffer has room for.                   *)
THEOREM LinesExact == Spec => []LineExact
<1>1. LineInv => LineExact
  BY DEF LineInv
<1> QED
  BY <1>1, LogInitially, LogStep, ScreenInitially, ScreenStep, LineInitially, LineStep,
     PTL DEF Spec

(* The names that the cases without a break give to any class but that of  *)
(* a display controller.                                                   *)
LEMMA SubclassOwn ==
  ASSUME device.device_class # 3
  PROVE  \/ DescribedText(4) = Numeral(Codes(device)[4], 16)
         \/ \E name \in OwnNames(device.device_class) : DescribedText(4) = <<name>>
<1> DEFINE class == device.device_class
           sub == device.device_subclass
<1>0. Described(4, device) = pci_get_subclass_name(class, sub) /\ Codes(device)[4] = sub
  BY DEF Described, Codes
<1> DEFINE d == Described(4, device)
<1>1. (d.name = NUL /\ d.number = sub) \/ d.name \in OwnNames(class)
  <2>1. \A table : LET r == NameIn(table, sub)
                   IN  (r.name = NUL /\ r.number = sub) \/ r.name \in Members(table)
    BY DEF NameIn, Named, Unnamed, Members
  <2>2. CASE class = 1
    <3>1. d = pci_get_mass_storage_controller_subclass_name(sub)
      BY <1>0, <2>2 DEF pci_get_subclass_name
    <3>2. OwnNames(class) = Members(MassStorageNames) \cup {"Other"}
      BY <2>2 DEF OwnNames
    <3>3. d = IF sub = 128 THEN Named("Other") ELSE NameIn(MassStorageNames, sub)
      BY <3>1 DEF pci_get_mass_storage_controller_subclass_name
    <3> HIDE DEF d, class, sub
    <3> QED
      BY <2>1, <3>2, <3>3 DEF Named
  <2>3. CASE class = 6
    <3>1. d = pci_get_bridge_device_subclass_name(sub)
      BY <1>0, <2>3 DEF pci_get_subclass_name
    <3>2. OwnNames(class) = Members(BridgeNames) \cup {"Other"}
      BY <2>3 DEF OwnNames
    <3>3. d = IF sub = 128 THEN Named("Other") ELSE NameIn(BridgeNames, sub)
      BY <3>1 DEF pci_get_bridge_device_subclass_name
    <3> HIDE DEF d, class, sub
    <3> QED
      BY <2>1, <3>2, <3>3 DEF Named
  <2>4. CASE class = 12
    <3>1. d = pci_get_serial_bus_controller_subclass_name(sub)
      BY <1>0, <2>4 DEF pci_get_subclass_name
    <3>2. OwnNames(class) = Members(SerialBusNames) \cup {"SerialBusController - Other"}
      BY <2>4 DEF OwnNames
    <3>3. d = IF sub = 128 THEN Named("SerialBusController - Other")
              ELSE NameIn(SerialBusNames, sub)
      BY <3>1 DEF pci_get_serial_bus_controller_subclass_name
    <3> HIDE DEF d, class, sub
    <3> QED
      BY <2>1, <3>2, <3>3 DEF Named
  <2>5. CASE class \notin {1, 6, 12}
    <3>1. d = Unnamed(sub)
      BY <1>0, <2>5 DEF pci_get_subclass_name
    <3> QED
      BY <3>1 DEF Unnamed
  <2> QED
    BY <2>2, <2>3, <2>4, <2>5
<1>2. DescribedText(4) = IF d.name # NUL THEN <<d.name>> ELSE Numeral(d.number, 16)
  BY DEF DescribedText
<1>3. NUL \notin OwnNames(class)
  BY NamesAreNot, TablesNamed DEF OwnNames
<1> HIDE DEF d, class, sub
<1>4. DescribedText(4) = Numeral(sub, 16) \/ \E name \in OwnNames(class) : DescribedText(4) = <<name>>
  BY <1>1, <1>2, <1>3
<1> QED
  BY <1>0, <1>4 DEF class

LEMMA InterfaceOwn ==
  ASSUME device.device_class # 3
  PROVE  DescribedText(5) = Numeral(Codes(device)[5], 16)
<1> DEFINE class == device.device_class
<1>1. /\ Described(5, device) = pci_get_program_interface_name(class, class, device.program_interface)
      /\ Codes(device)[5] = device.program_interface
  BY DEF Described, Codes
<1>2. Described(5, device) = Unnamed(device.program_interface)
  BY <1>1 DEF pci_get_program_interface_name
<1> QED
  BY <1>1, <1>2 DEF DescribedText, Unnamed

(* Strings in the buffer end where it ends. *)
LEMMA SameEnding ==
  ASSUME NEW pointer \in Pointer, pointer.at # 0, NEW b \in Buffer, NEW i \in Nat,
         i < Len(TextOf(pointer, b))
  PROVE  TextOf(pointer, b)[Len(TextOf(pointer, b)) - i] = b[LAST_CELL - i]
<1> DEFINE n == ITOA_CELLS - 1 - pointer.at
           text == [k \in 1 .. n |-> b[pointer.at + k - 1]]
<1>1. n \in Nat /\ pointer.at \in 1 .. LAST_CELL /\ n = LAST_CELL + 1 - pointer.at
  BY CellsTyped DEF Pointer
<1>2. \A k \in 1 .. n : b[pointer.at + k - 1] \in Cell
  <2> TAKE k \in 1 .. n
  <2>1. pointer.at + k - 1 \in 0 .. ITOA_CELLS - 1
    BY <1>1, CellsTyped
  <2> QED
    BY <2>1 DEF Buffer
<1>3. text \in Seq(Cell)
  BY <1>1, <1>2
<1>4. TextOf(pointer, b) = text /\ Len(text) = n
  BY <1>1, <1>3, LenProperties DEF TextOf
<1> HIDE DEF n
<1>5. n - i \in 1 .. n /\ pointer.at + (n - i) - 1 = LAST_CELL - i
  BY <1>1, <1>4, CellsTyped
<1>6. text[n - i] = b[pointer.at + (n - i) - 1]
  BY <1>5
<1> QED
  BY <1>4, <1>5, <1>6

(* The line about a device of any class but a display controller has a     *)
(* name of its own class or the digits itoa's buffer holds for its         *)
(* subclass, and no name for its interface (descriptors.c:156,             *)
(* pci.c:30); numbers that share the buffer are printed as the last one    *)
(* evaluated, in whatever order the arguments are.                         *)
THEOREM DescriptionsAlwaysOwn == Spec => []DescriptionsOwn
<1>1. LogInv /\ LineInv => DescriptionsOwn
  <2> SUFFICES ASSUME LogInv, LineInv, pc = "log", called.fmt = DeviceFormat
               PROVE  DescriptionsOwn
    BY DEF DescriptionsOwn
  <2> DEFINE class == device.device_class
             said(k) == Printed[k].string.text
             own(k)  == Numeral(Codes(device)[k], 16)
  <2>1. /\ line = Expansion(DeviceFormat, Printed) /\ DOMAIN called.args = 1 .. 5
        /\ Told(called.args) /\ Freshest(called.args)
    BY DEF LineInv, LineSound, Reported
  <2>2. buf \in Buffer /\ \A k \in 1 .. 5 : called.args[k].string \in Pointer
    <3>1. called.args \in Seq(Argument) /\ buf \in Buffer
      BY DEF LogInv, LogTypeOK, Message
    <3>2. \A k \in DOMAIN called.args : called.args[k] \in Argument
      BY <3>1
    <3> QED
      BY <2>1, <3>1, <3>2 DEF Argument
  <2>3. \A k \in 1 .. 5 : said(k) = TextOf(called.args[k].string, buf)
    <3> TAKE k \in 1 .. 5
    <3>1. Printed[k] = AsText(called.args[k], buf)
      BY <2>1 DEF Printed
    <3>2. called.args \in Seq(Argument)
      BY DEF LogInv, LogTypeOK, Message
    <3>3. called.args[k] \in Argument
      BY <2>1, <3>2
    <3> QED
      BY <3>1, <3>3 DEF AsText, Literal, Argument
  <2>4. /\ Shared = InBuffer(called.args) /\ Shared \subseteq 1 .. 5
        /\ \A k \in Shared : called.args[k].string.at # 0
    BY <2>1 DEF Shared, InBuffer
  <2>5. \A k \in 1 .. 5 \ Shared : said(k) = DescribedText(k)
    BY <2>1, <2>3 DEF Shared, Told, TextOf
  <2>6. \A k \in Shared : DescribedText(k) = own(k)
    BY <2>1, <2>4 DEF Told, Nameless, DescribedText
  <2> HIDE DEF said, own, class
  <2>7. class # 3 =>
          /\ 4 \notin Shared =>
               said(4) = own(4) \/ \E name \in OwnNames(class) : said(4) = <<name>>
          /\ 5 \notin Shared => said(5) = own(5)
    <3>1. 4 \notin Shared => said(4) = DescribedText(4)
      BY <2>5
    <3>2. 5 \notin Shared => said(5) = DescribedText(5)
      BY <2>5
    <3> QED
      BY <3>1, <3>2, SubclassOwn, InterfaceOwn DEF own, class
  <2>8. ASSUME Shared # {}
        PROVE  \E k \in Shared :
                 /\ said(k) = own(k)
                 /\ \A j \in Shared, i \in 0 .. LAST_CELL :
                      i < Len(said(j)) /\ i < Len(said(k))
                        => said(j)[Len(said(j)) - i] = said(k)[Len(said(k)) - i]
    <3>1. PICK k \in Shared : said(k) = own(k)
      BY <2>1, <2>3, <2>4, <2>6, <2>8 DEF Freshest
    <3>2. \A j \in Shared, i \in 0 .. LAST_CELL :
            i < Len(said(j)) => said(j)[Len(said(j)) - i] = buf[LAST_CELL - i]
      <4> TAKE j \in Shared, i \in 0 .. LAST_CELL
      <4>1. i \in Nat /\ called.args[j].string \in Pointer /\ called.args[j].string.at # 0
            /\ said(j) = TextOf(called.args[j].string, buf)
        BY <2>2, <2>3, <2>4, CellsTyped
      <4> QED
        BY <2>2, <4>1, SameEnding
    <3> QED
      BY <3>1, <3>2
  <2> QED
    BY <2>1, <2>7, <2>8 DEF DescriptionsOwn, said, own, class
<1> QED
  BY <1>1, LogInitially, LogStep, ScreenInitially, ScreenStep, LineInitially, LineStep,
     PTL DEF Spec

(* No call of the log touches memory that is not its own while none of the *)
(* six limits that nothing checks is passed (klog.c:31-76, pci.c:30,       *)
(* basic_output_console.c:22, psf.c:31-43).                                *)
THEOREM LostOnlyThere == Spec => []LostOnlyAtLimits
<1>1. LineInv => LostOnlyAtLimits
  BY DEF LineInv
<1> QED
  BY <1>1, LogInitially, LogStep, ScreenInitially, ScreenStep, LineInitially, LineStep,
     PTL DEF Spec
=============================================================================
