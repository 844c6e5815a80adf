----------------------------- MODULE MCJetClips -----------------------------
(* Values for the constants of JetClips.                                   *)
EXTENDS JetClips

\* Two clips on one decorative track.
OneTrack == [c \in Clips |-> 1]

\* What a closed slot keeps, the slots of a ring that were read and the event
\* last read are never looked at again.
SlotView(slot) == IF slot.state = "CLOSED" THEN Closed ELSE slot
MCView == <<muteQueue, [s \in Slots |-> SlotView(seg[s])], playSegment, queueSegment,
            App!Contents, appRead, Jet!Contents, jetRead, endOfLoop, call, inClip,
            marked, credit>>
=============================================================================
