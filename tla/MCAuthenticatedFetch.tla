------------------------- MODULE MCAuthenticatedFetch -------------------------
(* Model-checking instance of AuthenticatedFetch.                          *)
EXTENDS AuthenticatedFetchProperties, TLC

CONSTANTS r1, r2

\* Every kind of request beside one that saves.
MCKinds == (r1 :> Kind) @@ (r2 :> {"update"})
==============================================================================
