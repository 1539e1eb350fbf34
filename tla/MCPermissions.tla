--------------------------- MODULE MCPermissions ---------------------------
(* Two plain calls of one tool in a thread, a call of that tool there that a *)
(* deny rule matches although an allow rule does too, and a call of it that  *)
(* policy allows in another thread.                                          *)
EXTENDS Permissions

MCTurnOf   == <<1, 1, 1, 2>>
MCThreadOf == <<"a", "b">>
MCToolOf   == <<"bash", "bash", "bash", "bash">>
=============================================================================
