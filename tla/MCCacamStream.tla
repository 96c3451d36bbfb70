--------------------------- MODULE MCCacamStream ---------------------------
(* Instances of CacamStream for TLC: what the phone may write. *)
EXTENDS CacamStream

Message(version, type, payload) ==
  [version |-> version, type |-> type, size |-> Len(payload), payload |-> payload]

Hello    == Message(1, 1, <<>>)
Frame    == Message(1, 3, <<C, C, A, M>>)  \* a payload may hold the magic word
Other    == Message(1, 9, <<C>>)           \* a type this version does not know
TooNew   == Message(2, 3, <<A, 0>>)
TooLarge == [Message(1, 3, <<M>>) EXCEPT !.size = 6]
\* not valid, and with a payload that reads like a message
Nested   == Message(2, 3, Encode(Hello))

MCAll == {Hello, Frame, Other, TooNew, TooLarge, Nested}
=============================================================================
