------------------------------- MODULE Playout -------------------------------
(***************************************************************************)
(* What a listener is promised, without rings, ramps, threads or           *)
(* acknowledgements.  Delivered frames are numbered from 0.  The listener  *)
(* is at `head'; during a transition the first frames of the next track,   *)
(* `early', are heard before head gets there.  RingPipeline implements     *)
(* this specification, see Implements there.                               *)
(***************************************************************************)
EXTENDS Integers

VARIABLES
    delivered,       \* frames delivered so far
    head,            \* the frame the outgoing track goes on with
    early,           \* frames of the next track already heard ahead of it
    heard,           \* all frames heard so far
    overrun          \* audio was lost to an overrun: nothing is promised

vars == <<delivered, head, early, heard, overrun>>

Init ==
    /\ delivered = 0
    /\ head = 0
    /\ early = {}
    /\ heard = {}
    /\ overrun = FALSE

\* Head after a boundary: it does not go back, nor to a frame heard early.
Ahead(h) == h >= head /\ \A f \in early : f < h

\* More audio arrives.  The one effect it may have on the listener is that a
\* boundary turns out to be later: the transition starts over behind what has
\* been heard of it.
Deliver ==
    /\ delivered' > delivered
    /\ \/ UNCHANGED <<head, early>>
       \/ /\ early' = {}
          /\ Ahead(head')
          /\ head' = head \/ head' - 1 \in early
    /\ UNCHANGED <<heard, overrun>>

\* A boundary: the listener leaves the audio up to head' for good.
Skip ==
    /\ early' = {}
    /\ Ahead(head')
    /\ head' <= delivered
    /\ UNCHANGED <<delivered, heard, overrun>>

\* n frames are heard of the outgoing track, and the frames b .. c - 1 of the
\* next one, which starts at `at'; the next track is heard no faster than the
\* outgoing one while that lasts.  When the outgoing track is over, the
\* transition may end: the listener goes on behind what was heard early.
Play ==
    /\ heard' # heard
    /\ \E n \in 0 .. (delivered - head) :
       \E at \in (head + n) .. delivered :
       \E b \in at .. delivered :
          /\ early = at .. (b - 1)
          /\ \E c \in b .. delivered :
                /\ c - b <= n \/ head + n = at
                /\ LET new == (head .. (head + n - 1)) \cup (b .. (c - 1))
                   IN  new \cap heard = {} /\ heard' = heard \cup new
                /\ \/ head' = head + n /\ early' = at .. (c - 1)
                   \/ head + n = at /\ head' = c /\ early' = {}
    /\ UNCHANGED <<delivered, overrun>>

\* The delivering side outran the listener by more than can be kept.
Overrun == ~overrun /\ overrun' /\ delivered' > delivered

Next ==
    \/ ~overrun /\ (Deliver \/ Skip \/ Play)
    \/ Overrun
    \/ overrun /\ overrun'

Spec == Init /\ [][Next]_vars
=============================================================================
