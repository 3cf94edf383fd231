--------------------------- MODULE MCAppointments ---------------------------
(***************************************************************************)
(* One client: one appointment of its own and one internal one.            *)
(***************************************************************************)
EXTENDS Appointments

CONSTANTS q1, q2

MCRegular == {<<"mail", 1>>}
MCInternal == {<<"snapshot", 1>>}
MCSystem == <<"snapshot", 0>>
=============================================================================
