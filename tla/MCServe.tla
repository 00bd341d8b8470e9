------------------------------ MODULE MCServe ------------------------------
(***************************************************************************)
(* Two requests at a time, two callers, two projects; the agent has a grant *)
(* for one executable and one project.                                      *)
(***************************************************************************)
EXTENDS Serve

CONSTANTS a, b, x, p, q
MCAgentGrants == {<<x, p>>}
=============================================================================
