------------------------------- MODULE KernelLog -------------------------------
(***************************************************************************)
(* misc/klog/klog.c on the console, with the strings of the PCI            *)
(* descriptions: klogf one character or conversion of its format a step,   *)
(* then klog, which draws the whole text again one character a step.       *)
(*                                                                         *)
(* The caller is any sequence of calls: klogf with one of Messages, klog   *)
(* with one of Lines, a change of the mode, and the call that              *)
(* pci_enumerate_device has in a comment ("Uncomment this for some         *)
(* readable device info"), whose arguments C evaluates in any order.       *)
(*                                                                         *)
(* The log is lost where the code writes outside what it owns or reads     *)
(* outside what it was given.                                              *)
(***************************************************************************)
EXTENDS Console, PciDescriptions

CONSTANTS
  LINE_SIZE,   \* klogf's buffer[1024]
  Modes,       \* values klog_set_log_mode is called with
  Messages,    \* formats with arguments for them
  Banner,      \* the one kinit_init_display logs
  Lines,       \* texts passed to klog
  Devices,     \* headers of PCI devices
  CALLS        \* bound on the number of calls

(* An argument is a number, a character or a string: the format says which. *)
Argument      == [number : Nat, character : Cell, string : Pointer]
Number(n)     == [number |-> n, character |-> NUL, string |-> Literal(<<>>)]
Character(c)  == [number |-> 0, character |-> c, string |-> Literal(<<>>)]
String(s)     == [number |-> 0, character |-> NUL, string |-> s]
Message       == [fmt : Texts, args : Seq(Argument)]
DeviceHeader  == [vendor_id : Nat, device_id : Nat, device_class : Nat,
                  device_subclass : Nat, program_interface : Nat]

(* The format of the message about a device, without its spaces. *)
DeviceFormat == <<"%", "s", "/", "%", "s", "/", "%", "s", "/", "%", "s", "/", "%", "s", NEWLINE>>

ASSUME LogAssumption ==
  /\ LINE_SIZE \in Nat \ {0}
  /\ Modes \subseteq 0 .. 255
  /\ Messages \subseteq Message /\ Banner \in Message
  /\ \A m \in Messages \cup {Banner} :   \* only that one passes what itoa returned
       /\ \A k \in DOMAIN m.args : m.args[k].string.at = 0
       /\ m.fmt # DeviceFormat
  /\ Lines \subseteq Texts
  /\ Devices \subseteq DeviceHeader
  /\ CALLS \in Nat
  /\ {"%", "s", "/", "?"} \subseteq Char

VARIABLES
  kernel_log_mode,
  console,
  screen,
  buf,      \* itoa's static buffer
  itoa,     \* its call, or the last one,
  slot,     \* for this argument of the description, or 0 for klogf
  pc,       \* "off", "idle", "describe", "format", "itoa", "log", "draw", "lost"
  fmt,      \* the characters klogf has not read
  args,     \* the arguments it has not taken
  line,     \* its buffer, or the text passed to klog
  cursor,   \* where fb_psf_draw_string is,
  drawn,    \* and how many characters it has drawn
  device,   \* the device described last
  names,    \* the strings evaluated for it so far
  given,    \* history: lowest byte of the framebuffer pointer at first,
  called,   \* the format and the arguments of the call,
  meant,    \* the arguments as they were when evaluated,
  shown,    \* and the text when it was last displayed
  calls     \* number of calls

logger  == <<kernel_log_mode, console, screen, cursor, drawn, given, shown>>
format  == <<buf, itoa, slot, fmt, args, line, device, names>>
call    == <<called, meant, calls>>
vars    == <<kernel_log_mode, console, screen, buf, itoa, slot, pc, fmt, args,
             line, cursor, drawn, device, names, given, called, meant, shown, calls>>

(* A string argument as its caller sees it when the argument is evaluated. *)
AsText(arg, b) == [arg EXCEPT !.string = Literal(TextOf(arg.string, b))]

-----------------------------------------------------------------------------
(* Mutant: buffer[0] = '\0' is missing, and the buffer keeps its place. *)
BeginOnOldLine(text, arguments) ==
  /\ fmt' = text /\ args' = arguments
  /\ called' = [fmt |-> text, args |-> arguments]
  /\ UNCHANGED line

Begin(text, arguments) ==
  /\ fmt' = text /\ args' = arguments /\ line' = <<>>
  /\ called' = [fmt |-> text, args |-> arguments]

(* kinit_init_display. *)
InitDisplay ==
  /\ pc = "off"
  /\ pc' = "format"
  /\ screen' = fb_clear
  /\ \E byte \in FramebufferBytes : console' = boutcon_init(byte) /\ given' = byte
  /\ kernel_log_mode' = 0
  /\ Begin(Banner.fmt, Banner.args)
  /\ meant' = [k \in DOMAIN Banner.args |-> AsText(Banner.args[k], buf)]
  /\ UNCHANGED <<buf, itoa, slot, device, names, cursor, drawn, shown, calls>>

klog_set_log_mode ==
  /\ pc = "idle"
  /\ kernel_log_mode' \in Modes
  /\ UNCHANGED <<console, screen, cursor, drawn, given, shown, format, pc, call>>

CallKlogf ==
  /\ pc = "idle" /\ calls < CALLS
  /\ pc' = "format"
  /\ \E m \in Messages :
       /\ Begin(m.fmt, m.args)
       /\ meant' = [k \in DOMAIN m.args |-> AsText(m.args[k], buf)]
  /\ calls' = calls + 1
  /\ UNCHANGED <<logger, buf, itoa, slot, device, names>>

(* klog of a literal text: no format is read. *)
CallKlog ==
  /\ pc = "idle" /\ calls < CALLS
  /\ pc' = "log"
  /\ line' \in Lines
  /\ called' = [fmt |-> <<>>, args |-> <<>>] /\ meant' = <<>>
  /\ calls' = calls + 1
  /\ UNCHANGED <<logger, buf, itoa, slot, fmt, args, device, names>>

(* The message about a device: its arguments are evaluated first. *)
CallDescribe ==
  /\ pc = "idle" /\ calls < CALLS
  /\ pc' = "describe"
  /\ device' \in Devices
  /\ names' = <<>> /\ meant' = <<>>
  /\ calls' = calls + 1
  /\ UNCHANGED <<logger, buf, itoa, slot, fmt, args, line, called>>

(* The k-th argument.  The subclass passed to the last function is the     *)
(* class once more.                                                        *)
Described(k, d) ==
  CASE k = 1 -> pci_get_vendor_name(d.vendor_id)
    [] k = 2 -> pci_get_device_name(d.vendor_id, d.device_id)
    [] k = 3 -> Named(PCI_DEVICE_CLASSES[d.device_class + 1])
    [] k = 4 -> pci_get_subclass_name(d.device_class, d.device_subclass)
    [] k = 5 -> pci_get_program_interface_name(d.device_class, d.device_class,
                                               d.program_interface)

Evaluated(k, string) ==
  /\ names' = [j \in DOMAIN names \cup {k} |-> IF j = k THEN String(string) ELSE names[j]]
  /\ meant' = [j \in DOMAIN names \cup {k} |->
                 IF j = k THEN AsText(String(string), buf) ELSE meant[j]]

(* PCI_DEVICE_CLASSES is indexed with the class, whatever it is. *)
DescribeNoClass(k) ==
  /\ pc = "describe" /\ k \notin DOMAIN names
  /\ k = 3 /\ device.device_class + 1 \notin DOMAIN PCI_DEVICE_CLASSES
  /\ pc' = "lost"
  /\ UNCHANGED <<logger, format, call>>

DescribeByName(k) ==
  /\ pc = "describe" /\ k \notin DOMAIN names
  /\ k = 3 => device.device_class + 1 \in DOMAIN PCI_DEVICE_CLASSES
  /\ Described(k, device).name # NUL
  /\ Evaluated(k, Literal(<<Described(k, device).name>>))
  /\ UNCHANGED <<logger, buf, itoa, slot, pc, fmt, args, line, device, called, calls>>

DescribeByNumber(k) ==
  /\ pc = "describe" /\ k \notin DOMAIN names
  /\ k = 3 => device.device_class + 1 \in DOMAIN PCI_DEVICE_CLASSES
  /\ Described(k, device).name = NUL
  /\ itoa' = ItoaBegin(Described(k, device).number, 16) /\ slot' = k
  /\ pc' = "itoa"
  /\ UNCHANGED <<logger, buf, fmt, args, line, device, names, call>>

FormatDescription ==
  /\ pc = "describe" /\ DOMAIN names = 1 .. 5
  /\ pc' = "format"
  /\ Begin(DeviceFormat, [k \in 1 .. 5 |-> names[k]])
  /\ UNCHANGED <<logger, buf, itoa, slot, device, names, meant, calls>>

-----------------------------------------------------------------------------
(* itoa returns to the evaluation of an argument, or to klogf.  Nothing    *)
(* bounds the line to which klogf appends.                                 *)
Appended(written) ==
  /\ line' = written
  /\ pc' = IF Len(written) < LINE_SIZE THEN "format" ELSE "lost"

WriteDigit ==
  /\ pc = "itoa" /\ ~ ItoaDone(itoa)
  /\ buf' = ItoaDigit(itoa, buf)
  /\ itoa' = ItoaNext(itoa)
  /\ UNCHANGED <<logger, slot, pc, fmt, args, line, device, names, call>>

ReturnArgument ==
  /\ pc = "itoa" /\ ItoaDone(itoa) /\ slot # 0
  /\ Evaluated(slot, ItoaString(itoa))
  /\ pc' = "describe"
  /\ UNCHANGED <<logger, buf, itoa, slot, fmt, args, line, device, called, calls>>

ReturnNumber ==
  /\ pc = "itoa" /\ ItoaDone(itoa) /\ slot = 0
  /\ Appended(strcat(line, ItoaString(itoa), buf))
  /\ UNCHANGED <<logger, buf, itoa, slot, fmt, args, device, names, call>>

-----------------------------------------------------------------------------
(* A step of klogf's loop that reads n characters and takes k arguments. *)
Takes(n, k) ==
  /\ fmt' = SubSeq(fmt, n + 1, Len(fmt))
  /\ args' = SubSeq(args, k + 1, Len(args))

Reads(n, k, written) ==
  /\ Takes(n, k)
  /\ Appended(written)
  /\ UNCHANGED <<logger, buf, itoa, slot, device, names, call>>

(* The conversions that take an argument. *)
Conversions == {"s", "c", "d", "x", "p"}

Converts(characters) ==
  pc = "format" /\ Len(fmt) >= 2 /\ fmt[1] = "%" /\ fmt[2] \in characters

FormatLiteral ==
  /\ pc = "format" /\ fmt # <<>> /\ fmt[1] # "%"
  /\ Reads(1, 0, strchrcat(line, fmt[1]))

FormatString ==
  /\ Converts({"s"}) /\ args # <<>>
  /\ Reads(2, 1, strcat(line, args[1].string, buf))

FormatCharacter ==
  /\ Converts({"c"}) /\ args # <<>>
  /\ Reads(2, 1, strchrcat(line, args[1].character))

FormatNumber ==
  /\ Converts({"d", "x", "p"}) /\ args # <<>>
  /\ itoa' = ItoaBegin(args[1].number, IF fmt[2] = "d" THEN 10 ELSE 16) /\ slot' = 0
  /\ pc' = "itoa"
  /\ Takes(2, 1)
  /\ UNCHANGED <<logger, buf, line, device, names, call>>

(* va_arg behind the last argument. *)
FormatMissing ==
  /\ Converts(Conversions) /\ args = <<>>
  /\ pc' = "lost"
  /\ UNCHANGED <<logger, format, call>>

FormatPercent ==
  /\ Converts({"%"})
  /\ Reads(2, 0, line \o <<"%">>)

FormatUnknown ==
  /\ pc = "format" /\ Len(fmt) >= 2 /\ fmt[1] = "%"
  /\ fmt[2] \notin Conversions \cup {"%"}
  /\ Reads(2, 0, line \o <<"%", "?">>)

(* The default case skips the NUL too, and the loop goes on behind it. *)
FormatBeyondEnd ==
  /\ pc = "format" /\ fmt = <<"%">>
  /\ pc' = "lost"
  /\ line' = line \o <<"%", "?">> /\ fmt' = <<>>
  /\ UNCHANGED <<logger, buf, itoa, slot, args, device, names, call>>

EndFormat ==
  /\ pc = "format" /\ fmt = <<>>
  /\ pc' = "log"
  /\ UNCHANGED <<logger, buf, itoa, slot, fmt, args, line, device, names, call>>

-----------------------------------------------------------------------------
WriteDisplayed ==
  /\ pc = "log" /\ kernel_log_mode = 0
  /\ console' = boutcon_write_no_display(console, line)
  /\ pc' = "draw" /\ cursor' = [x |-> 0, y |-> 0] /\ drawn' = 0
  /\ UNCHANGED <<kernel_log_mode, screen, given, shown, format, call>>

WriteOnly ==
  /\ pc = "log" /\ kernel_log_mode = 1
  /\ console' = boutcon_write_no_display(console, line)
  /\ pc' = "idle"
  /\ UNCHANGED <<kernel_log_mode, screen, cursor, drawn, given, shown, format, call>>

(* Mutant: klog calls itself with the mode as it is. *)
RetryInSameMode ==
  /\ pc = "log" /\ kernel_log_mode \notin {0, 1}
  /\ UNCHANGED vars

(* Any other mode: klog sets it to 0 and calls itself. *)
CorrectMode ==
  /\ pc = "log" /\ kernel_log_mode \notin {0, 1}
  /\ kernel_log_mode' = 0
  /\ UNCHANGED <<console, screen, cursor, drawn, given, shown, format, pc, call>>

(* An iteration of fb_psf_draw_string: for all but a new line the          *)
(* framebuffer is read and written through the console's pointer.          *)
DrawCharacter ==
  /\ pc = "draw" /\ drawn < Len(console.text)
  /\ LET character == console.text[drawn + 1]
         at == Placed(cursor, character)
     IN  IF character = NEWLINE
         THEN cursor' = at /\ drawn' = drawn + 1 /\ UNCHANGED <<screen, pc>>
         ELSE IF console.framebuffer = given /\ OnScreen(at)
         THEN /\ screen' = fb_psf_draw_character(screen, character, at)
              /\ cursor' = [at EXCEPT !.x = @ + FONT_WIDTH]
              /\ drawn' = drawn + 1
              /\ pc' = pc
         ELSE pc' = "lost" /\ UNCHANGED <<screen, cursor, drawn>>
  /\ UNCHANGED <<kernel_log_mode, console, given, shown, format, call>>

EndDraw ==
  /\ pc = "draw" /\ drawn = Len(console.text)
  /\ pc' = "idle"
  /\ shown' = console.text
  /\ UNCHANGED <<kernel_log_mode, console, screen, cursor, drawn, given, format, call>>

klogf ==
  \/ FormatLiteral \/ FormatString \/ FormatCharacter \/ FormatNumber
  \/ FormatMissing \/ FormatPercent \/ FormatUnknown \/ FormatBeyondEnd \/ EndFormat

klog == WriteDisplayed \/ WriteOnly \/ CorrectMode \/ DrawCharacter \/ EndDraw

Describing ==
  \/ \E k \in 1 .. 5 : DescribeNoClass(k) \/ DescribeByName(k) \/ DescribeByNumber(k)
  \/ FormatDescription

Converting == WriteDigit \/ ReturnArgument \/ ReturnNumber

Init ==
  /\ pc = "off" /\ kernel_log_mode = 0
  /\ console = boutcon_init(0) /\ given = 0
  /\ screen = fb_clear /\ cursor = [x |-> 0, y |-> 0] /\ drawn = 0
  /\ buf = [c \in 0 .. ITOA_CELLS - 1 |-> NUL] /\ itoa = ItoaBegin(0, 10) /\ slot = 0
  /\ fmt = <<>> /\ args = <<>> /\ line = <<>>
  /\ called = [fmt |-> <<>>, args |-> <<>>]
  /\ meant = <<>> /\ names = <<>> /\ shown = <<>>
  /\ device = [vendor_id |-> 0, device_id |-> 0, device_class |-> 0,
               device_subclass |-> 0, program_interface |-> 0]
  /\ calls = 0

Next ==
  \/ InitDisplay \/ klog_set_log_mode
  \/ CallKlogf \/ CallKlog \/ CallDescribe
  \/ Describing \/ Converting \/ klogf \/ klog

(* A call that has begun is executed. *)
Fairness ==
  WF_vars(Describing) /\ WF_vars(Converting) /\ WF_vars(klogf) /\ WF_vars(klog)

Spec == Init /\ [][Next]_vars /\ Fairness

-----------------------------------------------------------------------------
(* The state of the log; and the last cell of itoa's buffer, which ends    *)
(* every string in it, is never written.                                   *)
LogTypeOK ==
  /\ kernel_log_mode \in 0 .. 255
  /\ console \in BasicOutputConsole /\ given \in 0 .. 255
  /\ screen \in Screen
  /\ buf \in Buffer /\ buf[LAST_CELL + 1] = NUL
  /\ itoa \in Conversion /\ slot \in 0 .. 5
  /\ pc \in {"off", "idle", "describe", "format", "itoa", "log", "draw", "lost"}
  /\ cursor \in [x : Nat, y : Nat] /\ drawn \in Nat
  /\ fmt \in Texts /\ line \in Texts /\ shown \in Texts
  /\ args \in Seq(Argument) /\ called \in Message
  /\ device \in DeviceHeader
  /\ \E known \in SUBSET (1 .. 5) : names \in [known -> Argument]
  /\ calls \in 0 .. CALLS

(* The text never outgrows the buffer, though the guard lets it fill the   *)
(* buffer to the last byte; only then, and then for good, is the lowest    *)
(* byte of the framebuffer pointer lost.                                   *)
PointerKept ==
  /\ Len(console.text) <= OUTBUFFER_SIZE
  /\ Len(console.text) = OUTBUFFER_SIZE => console.framebuffer = 0
  /\ console.framebuffer # given => Len(console.text) = OUTBUFFER_SIZE

-----------------------------------------------------------------------------
(* Where a text belongs on the screen: characters since the last new line, *)
(* and rows, of as many characters as fit side by side.                    *)
PerRow == WIDTH \div FONT_WIDTH

NewLines(text, i) == {j \in 1 .. i - 1 : text[j] = NEWLINE}
InParagraph(text, i) ==
  Cardinality({j \in 1 .. i - 1 : \A k \in j .. i - 1 : text[k] # NEWLINE})
RowOf(text, i) ==
  Cardinality(NewLines(text, i))
    + Cardinality({j \in 1 .. i : /\ text[j] # NEWLINE
                                  /\ InParagraph(text, j) > 0
                                  /\ InParagraph(text, j) % PerRow = 0})
Place(text, i) == <<FONT_WIDTH * (InParagraph(text, i) % PerRow),
                    FONT_HEIGHT * RowOf(text, i)>>
Visible(text)  == {i \in 1 .. Len(text) : text[i] # NEWLINE}

(* The text keeps what was displayed of it, and the screen shows this and, *)
(* after every drawn character, the text drawn so far, each character at   *)
(* its place, and nothing else: rows are filled to the last place, a full  *)
(* row before a new line leaves no empty row (psf.c:34-42).                *)
ScreenShowsText ==
  pc # "lost" =>
  LET text   == console.text
      last   == IF pc = "draw" /\ drawn > Len(shown) THEN drawn ELSE Len(shown)
      places == {<<Place(text, i), text[i]>> : i \in {j \in Visible(text) : j <= last}}
  IN  /\ SubSeq(text, 1, Len(shown)) = shown
      /\ \A x \in Column, y \in Line :
           LET here == {p \in places : p[1] = <<x, y>>}
           IN  IF here = {} THEN screen[x][y] = BLANK
               ELSE here = {<<<<x, y>>, screen[x][y]>>}

-----------------------------------------------------------------------------
(* What a call of klogf asks for.  In a run of percent signs every second  *)
(* one, the first included, starts a conversion.                           *)
Starts(f) ==
  {i \in 1 .. Len(f) :
     Cardinality({j \in 1 .. i : \A k \in j .. i : f[k] = "%"}) % 2 = 1}

(* The numeral of a number, without leading zeros.                         *)
Numerals(base) ==
  LET Of[n \in Nat] ==
        IF n < base THEN <<Digits[n + 1]>>
        ELSE Append(Of[n \div base], Digits[(n % base) + 1])
  IN  Of

Numeral(n, base) == Numerals(base)[n]

(* A number of 64 bits has 20 digits at most, of the 62 itoa has room for. *)
ASSUME NumbersAssumption ==
  /\ \A m \in Messages \cup {Banner} : \A k \in DOMAIN m.args, base \in {10, 16} :
       Len(Numeral(m.args[k].number, base)) <= LAST_CELL
  /\ \A d \in Devices :
       \A n \in {d.vendor_id, d.device_id, d.device_class, d.device_subclass,
                d.program_interface} : Len(Numeral(n, 16)) <= LAST_CELL

(* The conversions of f in front of its i-th character that take an        *)
(* argument.                                                               *)
Taken(f, i) == {j \in Starts(f) : j < i /\ f[j + 1] \in Conversions}

Converted(f, arguments, i) ==
  LET taken == Cardinality(Taken(f, i))
      arg   == arguments[taken + 1]
      what  == IF i = Len(f) THEN NUL ELSE f[i + 1]
  IN  IF what \in Conversions /\ taken + 1 \notin DOMAIN arguments THEN <<>>
      ELSE CASE what = "s" -> arg.string.text
             [] what = "c" -> IF arg.character = NUL THEN <<>> ELSE <<arg.character>>
             [] what = "d" -> Numeral(arg.number, 10)
             [] what \in {"x", "p"} -> Numeral(arg.number, 16)
             [] what = "%" -> <<"%">>
             [] OTHER -> <<"%", "?">>

(* What the i-th character adds to a text.                                 *)
Added(f, arguments, i) ==
  IF i \in Starts(f) THEN Converted(f, arguments, i)
  ELSE IF i - 1 \in Starts(f) THEN <<>>
  ELSE <<f[i]>>

Expansions(f, arguments) ==
  LET Upto[i \in 0 .. Len(f)] ==
        IF i = 0 THEN <<>> ELSE Upto[i - 1] \o Added(f, arguments, i)
  IN  Upto

Expansion(f, arguments) == Expansions(f, arguments)[Len(f)]

(* Arguments that are places in itoa's buffer. *)
Shared == {k \in DOMAIN called.args : called.args[k].string.at # 0}

(* When klogf passes its line on, the line has the length its caller asked *)
(* for, and says what it asked for unless two of the arguments share       *)
(* itoa's buffer.                                                          *)
LineExact ==
  pc = "log" /\ called.fmt # <<>> =>
    LET wanted == Expansion(called.fmt, meant)
    IN  /\ Len(line) = Len(wanted)
        /\ Cardinality(Shared) < 2 => line = wanted

-----------------------------------------------------------------------------
OwnNames(class) ==
  CASE class = 1  -> Members(MassStorageNames) \cup {"Other"}
    [] class = 6  -> Members(BridgeNames) \cup {"Other"}
    [] class = 12 -> Members(SerialBusNames) \cup {"SerialBusController - Other"}
    [] OTHER -> {}

(* The numbers in a device's header, in the order of the message about it. *)
Codes(d) == <<d.vendor_id, d.device_id, d.device_class, d.device_subclass,
              d.program_interface>>

(* The arguments as klogf reads them. *)
Printed == [k \in DOMAIN called.args |-> AsText(called.args[k], buf)]

(* The line about a device (pci.c:28-31), when klogf passes it on: a name  *)
(* of its subclass in it is one of its own class and its interface has     *)
(* none, in spite of the missing breaks (descriptors.c:156); only a        *)
(* display controller gets names of bridges and of USB controllers.        *)
(* Numbers without a name share itoa's buffer: one of them is printed as   *)
(* it is, the one evaluated last, and all others end in its digits.        *)
DescriptionsOwn ==
  LET class   == device.device_class
      said(k) == Printed[k].string.text
      own(k)  == Numeral(Codes(device)[k], 16)
      Ending(text, i) == text[Len(text) - i]
  IN  pc = "log" /\ called.fmt = DeviceFormat =>
        /\ line = Expansion(DeviceFormat, Printed)
        /\ class # 3 =>
             /\ 4 \notin Shared =>
                  said(4) = own(4) \/ \E name \in OwnNames(class) : said(4) = <<name>>
             /\ 5 \notin Shared => said(5) = own(5)
        /\ Shared # {} =>
             \E k \in Shared :
               /\ said(k) = own(k)
               /\ \A j \in Shared, i \in 0 .. LAST_CELL :
                    i < Len(said(j)) /\ i < Len(said(k))
                      => Ending(said(j), i) = Ending(said(k), i)

(* Six limits that nothing checks: the end of a format, its arguments, the *)
(* length of klogf's line, the classes with a name, the rows of the        *)
(* screen, and the pointer behind a full text.  While none of them is      *)
(* passed no call of the log touches memory that is not its own.           *)
LostOnlyAtLimits ==
  pc = "lost" =>
    \/ device.device_class >= Len(PCI_DEVICE_CLASSES)
    \/ Len(called.fmt) \in Starts(called.fmt)
    \/ Cardinality({i \in Starts(called.fmt) : called.fmt[i + 1] \in Conversions})
          > Len(called.args)
    \/ Len(Expansion(called.fmt, meant)) >= LINE_SIZE
    \/ Len(console.text) = OUTBUFFER_SIZE /\ given # 0
    \/ \E i \in Visible(console.text) :
         Place(console.text, i)[2] + FONT_HEIGHT > HEIGHT

(* Every call ends, in whatever mode the log is. *)
LogEnds == pc \in {"describe", "format", "itoa", "log", "draw"} ~> pc \in {"idle", "lost"}
=============================================================================
