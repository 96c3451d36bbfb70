---------------------------- MODULE MCCacamSource ----------------------------
(* Instances of CacamSource for TLC: the settings. *)
EXTENDS CacamSource

CONSTANTS p1, p2

S(m, auto, phone, q) == [mode |-> m, auto |-> auto, serial |-> phone,
                          port |-> DefaultPort, quality |-> q]

\* both modes, automatic or not, two adb phones
MCSettings == {S("usb", TRUE, None, "standard"), S("usb", FALSE, None, "standard"),
               S("adb", TRUE, None, "standard"), S("adb", TRUE, p1, "standard")}

=============================================================================
