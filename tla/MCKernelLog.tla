------------------------------ MODULE MCKernelLog ------------------------------
EXTENDS KernelLog

MCChar == STRING \ {""}

Txt(c) == String(Literal(<<c>>))

MCBanner == [fmt |-> <<"M", "%", "s", NEWLINE>>, args |-> <<Txt("v")>>]

MCMessages ==
  {[fmt |-> <<"n", "%", "d", "%", "x", NEWLINE>>, args |-> <<Number(105), Number(26)>>],
   [fmt |-> <<"%", "p", "%", "d">>, args |-> <<Number(0), Number(9)>>],
   [fmt |-> <<"%", "c", "%", "c", "%", "%", "s">>, args |-> <<Character("c"), Character(NUL)>>],
   [fmt |-> <<"%", "s", "%", "q">>, args |-> <<String(Literal(<<"s", "t", "r">>))>>],
   [fmt |-> <<"%", "s", "%", "s">>,
    args |-> <<String(Literal(<<"t", "e", "x", "t", NEWLINE>>)),
               String(Literal(<<"a", "b", "c", "d", "e", "f">>))>>],
   [fmt |-> <<"a", "%">>, args |-> <<>>], [fmt |-> <<"%", "c", "%", "d">>, args |-> <<Character("c")>>]}

MCLines == {<<>>, <<"a", "b", "c", "d", NEWLINE>>, <<NEWLINE, NEWLINE, "e">>}

Header(v, d, c, s, p) ==
  [vendor_id |-> v, device_id |-> d, device_class |-> c,
   device_subclass |-> s, program_interface |-> p]

(* One of each class with a table, numbers with and without a name, and a  *)
(* class that PCI_DEVICE_CLASSES does not have.                            *)
MCDevices ==
  {Header(INTEL, 10530, 1, 6, 1), Header(4660, 4369, 3, 0, 0),
   Header(4660, 4370, 3, 1, 48), Header(INTEL, 10688, 6, 30, 32),
   Header(INTEL, 4371, 12, 3, 48), Header(6900, 4096, 2, 0, 0),
   Header(INTEL, 10520, 1, 2, 17), Header(4318, 1, 64, 0, 0)}
=============================================================================
