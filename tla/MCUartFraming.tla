---------------------------- MODULE MCUartFraming ----------------------------
(***************************************************************************)
(* Small instances of UartFraming.  Byte values stop at 8 or 12 and the index   *)
(* wraps at IndexMod instead of 256; the frames are chosen so that their   *)
(* payloads contain the two packet type bytes, small and large "lengths",  *)
(* and (in Oversized) lengths around the wrap.                             *)
(***************************************************************************)
EXTENDS UartFraming

SmallBytes == 0..12
TinyBytes  == 0..8

\* Well-formed events: an ordinary one, one whose payload looks like the
\* header of another event, and one with 0x02 in it.
CleanFrames == { <<4, 1, 1, 9>>, <<4, 4, 3, 4, 1, 2>>, <<4, 2, 2, 2, 4>> }

\* The same, and the legal event with an empty payload.
LossyFrames == { <<4, 1, 1, 8>>, <<4, 4, 3, 4, 1, 2>>, <<4, 2, 2, 2, 4>>,
                 <<4, 3, 0>> }

\* With IndexMod = 8 a payload of 5 wraps the index to 0 and 7 to 2.
Oversized == { <<4, 1, 4, 4, 6, 7, 8>>,
               <<4, 1, 5, 4, 1, 1, 1, 1>>, <<4, 1, 6, 5, 6, 7, 8, 4, 4>>,
               <<4, 3, 7, 5, 6, 7, 8, 2, 4, 1>> }

AnyLength == CleanFrames \cup Oversized
=============================================================================
