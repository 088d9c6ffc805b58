------------------------------- MODULE Handoff -------------------------------
(***************************************************************************)
(* What GStreamerVideoSource promises about the frames that pass from the  *)
(* streaming thread to the host: there is one place, a frame may be put    *)
(* into it only against a credit, the host's taking it gives the credit    *)
(* back, and the host sees frames in the order of the stream, each at most *)
(* once.  A credit is also granted whenever the stream prerolls.           *)
(***************************************************************************)
EXTENDS Integers

CONSTANT MaxFrames

VARIABLES
  slot,     \* the frame on offer, NoFrame when there is none
  taken,    \* the last frame the host took
  credit    \* how many frames may still be put into the slot

vars == <<slot, taken, credit>>

NoFrame == 0
Frames == 1 .. MaxFrames

Init == slot = NoFrame /\ taken = NoFrame /\ credit = 0

(* The stream prerolls: one more frame is asked for. *)
Grant ==
  /\ credit' = credit + 1
  /\ UNCHANGED <<slot, taken>>

(* The stream puts a frame, newer than all it put before, into the slot. *)
Offer ==
  /\ credit > 0
  /\ \E f \in Frames : f > taken /\ f > slot /\ slot' = f
  /\ credit' = credit - 1
  /\ UNCHANGED taken

(* The host takes the frame on offer and asks for the next one. *)
Take ==
  /\ slot # NoFrame
  /\ taken' = slot
  /\ slot' = NoFrame
  /\ credit' = credit + 1

(* The stream ends: it withdraws what is on offer, which needs a credit. *)
Close ==
  /\ credit > 0
  /\ slot' = NoFrame
  /\ UNCHANGED <<taken, credit>>

Next == Grant \/ Offer \/ Take \/ Close

Spec == Init /\ [][Next]_vars
=============================================================================
