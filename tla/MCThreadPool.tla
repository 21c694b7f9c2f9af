---------------------------- MODULE MCThreadPool ----------------------------
EXTENDS ThreadPool, TLC

CONSTANTS w1, w2, w3, w4, mini, ssdp, http, found

(* The pool of received messages: the miniserver hands out messages, and   *)
(* one of them starts the search callbacks.                                *)
PriorityDef == (mini :> "med") @@ (ssdp :> "high") @@ (http :> "med") @@ (found :> "low")
AddsDef == (mini :> {ssdp, http}) @@ (ssdp :> {found}) @@ (http :> {}) @@ (found :> {})
=============================================================================
