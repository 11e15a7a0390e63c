----------------------------- MODULE OrderedCopy -----------------------------
(***************************************************************************)
(* What a pump promises its caller: the destination only ever grows by the *)
(* next buffer of the source, and true is returned only when all of the    *)
(* source that was asked for is there.  After the return nothing changes.  *)
(***************************************************************************)
EXTENDS Naturals, Sequences

VARIABLES
    total,   \* buffers in the part of the source to copy
    copied,  \* the buffers at the destination, in the order written
    result   \* "none" until the pump returns "true" or "false"

copyVars == <<total, copied, result>>

Init == total \in Nat /\ copied = << >> /\ result = "none"

Copy == /\ result = "none"
        /\ Len(copied) < total
        /\ copied' = Append(copied, Len(copied) + 1)
        /\ UNCHANGED <<total, result>>

Return == /\ result = "none"
          /\ \/ result' = "false"
             \/ Len(copied) = total /\ result' = "true"
          /\ UNCHANGED <<total, copied>>

Next == Copy \/ Return

Spec == Init /\ [][Next]_copyVars
=============================================================================
