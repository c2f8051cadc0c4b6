---------------------------- MODULE ReceiveLoop ----------------------------
(***************************************************************************)
(* What the receive loop of a datagram connection promises: one receive at *)
(* a time, every datagram handed over before the next receive starts, and  *)
(* another receive only if the loop was wanted when the datagram had been  *)
(* handed over.                                                            *)
(***************************************************************************)

VARIABLES
  wanted,   \* somebody wants to receive
  stage     \* where the one receive is

vars == <<wanted, stage>>

Stage == {"down", "waiting", "full", "handed", "again", "failed"}

Init == wanted \in BOOLEAN /\ stage = "down"

\* The loop is wanted only while nothing of an earlier one is left.
Want   == stage = "down" /\ wanted' = TRUE /\ stage' = stage
Unwant == wanted' = FALSE /\ stage' = stage

\* The receive goes from stage s to stage t.
Move(s, t) == stage = s /\ stage' = t /\ wanted' = wanted

Start     == wanted /\ Move("down", "waiting")
Arrive    == Move("waiting", "full")
Break     == Move("waiting", "failed") \/ Move("again", "failed")
HandOver  == Move("full", "handed")
Continue  == wanted /\ Move("handed", "again")
Receive   == Move("again", "waiting")
Finish    == ~wanted /\ (Move("handed", "down") \/ Move("failed", "down"))

Next == \/ Want \/ Unwant
        \/ Start \/ Arrive \/ Break \/ HandOver \/ Continue \/ Receive \/ Finish

Spec == Init /\ [][Next]_vars
=============================================================================
