----------------------------- MODULE MCSession ------------------------------
(* Model checking of a session: the two control tools, a tool that may fail *)
(* and a name that is not in the registry.                                  *)
EXTENDS Session
=============================================================================
