----------------------------- MODULE MCAdminRadio -----------------------------
(* AdminRadio with the settings an operator writes, for TLC.                       *)
EXTENDS AdminRadio

On(listen) == [intent |-> "configured", file |-> "on", listen |-> listen]
Few == {On(TRUE), On(FALSE)}
===============================================================================
