--------------------------- MODULE MCDriverChannel ---------------------------
(***************************************************************************)
(* Small instances of DriverChannel: one driver, on one page or on two.      *)
(***************************************************************************)
EXTENDS DriverChannel

CONSTANTS d1, phone, tab

OneDriver == {d1}
OnePage == {phone}
TwoPages == {phone, tab}
OfDriver == [p \in Pages |-> d1]
=============================================================================
