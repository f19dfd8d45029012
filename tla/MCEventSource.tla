--------------------------- MODULE MCEventSource -----------------------------
(* EventSource with a message, which comes in parts, and a card action. *)
EXTENDS EventSource

MCEmptyParts == {<<3, 0>>}
=============================================================================
