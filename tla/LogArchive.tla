----------------------------- MODULE LogArchive -----------------------------
(***************************************************************************)
(* What the log API promises: a log is complete from one step to the next  *)
(* and stays so; a stream is confirmed only when the log is complete, and  *)
(* a reader is served the complete log or nothing. What happens to a log   *)
(* once there is an excuse for it (a deletion, say) is left open.          *)
(*                                                                         *)
(* complete   whether the whole log is in the store                        *)
(* confirmed  whether a stream of it was confirmed to its sender           *)
(* excused    whether something may spoil the log                         *)
(* answer     what a GetLog has served                                     *)
(***************************************************************************)
VARIABLES complete, confirmed, excused, answer

Init == ~complete /\ ~confirmed /\ excused \in BOOLEAN /\ answer = "none"

Complete == /\ ~complete
            /\ complete' = TRUE
            /\ UNCHANGED <<confirmed, excused, answer>>

Confirm == /\ complete \/ excused
           /\ confirmed' = TRUE
           /\ UNCHANGED <<complete, excused, answer>>

\* Something begins that may spoil the log; from then on parts of the log may go, or come back.
Excuse == /\ excused' = TRUE
          /\ UNCHANGED <<complete, confirmed, answer>>

Decay == /\ excused
         /\ complete' \in BOOLEAN
         /\ UNCHANGED <<confirmed, excused, answer>>

Serve == /\ \/ complete /\ answer' = "whole"
            \/ excused /\ answer' \in {"part", "whole"}
         /\ UNCHANGED <<complete, confirmed, excused>>

\* The last part arrives and the stream is confirmed, in one step.
CompleteAndConfirm == /\ complete' = TRUE
                      /\ confirmed' = TRUE
                      /\ UNCHANGED <<excused, answer>>

Next == \/ Complete \/ Confirm \/ CompleteAndConfirm \/ Excuse \/ Decay \/ Serve

Spec == Init /\ [][Next]_<<complete, confirmed, excused, answer>>
=============================================================================
