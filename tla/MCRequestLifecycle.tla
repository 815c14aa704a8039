------------------------- MODULE MCRequestLifecycle -------------------------
(* One request of each kind; a run takes two of them, or the image alone.   *)
EXTENDS RequestLifecycle

CONSTANTS call, stream, image

OneOfEach == [r \in Requests |-> CASE r = call -> "call"
                                   [] r = stream -> "stream"
                                   [] r = image -> "image"]
=============================================================================
