--------------------------- MODULE MCLedController ---------------------------
(***************************************************************************)
(* Small instances of LedController: requests of all three sizes, for both  *)
(* LEDs of the table, and for one beyond it where the stack holds another   *)
(* digit behind the two of a number.                                       *)
(***************************************************************************)
EXTENDS LedController

AnyNumber   == {<<"1">>, <<"0", "0">>, <<"1", "0", "0">>}
NoneOrSeven == {<<>>, <<"7">>}
=============================================================================
