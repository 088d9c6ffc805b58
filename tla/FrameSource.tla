----------------------------- MODULE FrameSource -----------------------------
(***************************************************************************)
(* What video/VideoSource.h asks of one video source: the image behind     *)
(* frame() changes only while nextFrame() runs, at most once, and          *)
(* nextFrame() reports success exactly when it did.                        *)
(***************************************************************************)
EXTENDS Integers

VARIABLES
  calling,   \* nextFrame() is running
  image,     \* the number of the image behind frame()
  before,    \* that number when nextFrame() was last called
  result     \* what the last nextFrame() returned

vars == <<calling, image, before, result>>

Init == calling = FALSE /\ image = 0 /\ before = 0 /\ result = "none"

Call ==
  /\ ~calling
  /\ calling' = TRUE
  /\ before' = image
  /\ UNCHANGED <<image, result>>

Refresh ==
  /\ calling /\ image = before
  /\ image' = image + 1
  /\ UNCHANGED <<calling, before, result>>

Return ==
  /\ calling
  /\ calling' = FALSE
  /\ result' = IF image = before THEN "failure" ELSE "success"
  /\ UNCHANGED <<image, before>>

Next == Call \/ Refresh \/ Return

Spec == Init /\ [][Next]_vars
=============================================================================
