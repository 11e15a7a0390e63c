---------------------------- MODULE TransferJobs ----------------------------
(***************************************************************************)
(* What a transfer session promises its user, without the worker thread,   *)
(* its event queue or its flags: transfers are served one at a time in the *)
(* order they were issued, and each one ends exactly once.  Transfers are  *)
(* numbered 1, 2, ... as they are issued.  Once the session is closed      *)
(* nothing more is promised, though work under way may still end.          *)
(***************************************************************************)
EXTENDS Naturals, Sequences

CONSTANT Outcomes  \* how a transfer can end

VARIABLES
    issued,   \* how many transfers the user has issued
    ended,    \* the transfers that have ended, and how
    running,  \* the one under way, or 0
    open      \* does the user still hold the session?

jobVars == <<issued, ended, running, open>>

Turn == Len(ended) + 1
Waiting == running = 0 /\ Turn <= issued
End(o) == ended' = Append(ended, [id |-> Turn, outcome |-> o])

Init == /\ issued = 0
        /\ ended = << >>
        /\ running = 0
        /\ open = TRUE

Issue == /\ open
         /\ issued' = issued + 1
         /\ UNCHANGED <<ended, running, open>>

Start == /\ Waiting
         /\ running' = Turn
         /\ UNCHANGED <<issued, ended, open>>

\* A transfer may be dropped without ever running, but never out of turn.
Drop == /\ Waiting
        /\ End("cancelled")
        /\ UNCHANGED <<issued, running, open>>

Finish == /\ running # 0
          /\ running' = 0
          /\ \E o \in Outcomes : End(o)
          /\ UNCHANGED <<issued, open>>

Close == /\ open
         /\ open' = FALSE
         /\ UNCHANGED <<issued, ended, running>>

Next == Issue \/ Start \/ Drop \/ Finish \/ Close

(***************************************************************************)
(* The user owes nothing.  The session owes an end to what it has started, *)
(* and, as long as it is open, a turn to what is waiting.                  *)
(***************************************************************************)
Spec == /\ Init
        /\ [][Next]_jobVars
        /\ WF_jobVars(Finish)
        /\ WF_jobVars(open /\ (Start \/ Drop))
=============================================================================
