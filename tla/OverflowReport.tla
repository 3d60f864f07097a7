--------------------------- MODULE OverflowReport ---------------------------
(***************************************************************************)
(* What clARMOR promises its user, without canaries, queues or events: a   *)
(* kernel launch runs once and overflows some buffers; the detector then   *)
(* reports overflows of that launch, only ones that happened, and is done  *)
(* with the launch only when it has reported them all.                     *)
(***************************************************************************)

CONSTANTS Launches, Buffers

VARIABLES
    finished,  \* launches whose kernel has run
    happened,  \* <<l, b>>: the kernel of launch l overflowed b
    reported,  \* <<l, b>>: an overflow of b was reported against launch l
    closed     \* launches on which the detector will say nothing more

vars == <<finished, happened, reported, closed>>

Init == finished = {} /\ happened = {} /\ reported = {} /\ closed = {}

\* A launch may be closed once everything it did is reported.
Settled(l) == \A b \in Buffers : <<l, b>> \in happened' => <<l, b>> \in reported'

CloseIfSettled(l) == closed' = closed \/ (closed' = closed \cup {l} /\ Settled(l))

\* The kernel of l runs and overflows the buffers S.
Run(l, S) ==
    /\ l \notin finished
    /\ finished' = finished \cup {l}
    /\ happened' = happened \cup {<<l, b>> : b \in S}
    /\ UNCHANGED reported
    /\ CloseIfSettled(l)

\* The detector reports overflows R of l, perhaps none, and may be done with l.
Judge(l, R) ==
    /\ l \in finished \ closed
    /\ {<<l, b>> : b \in R} \subseteq happened
    /\ reported' = reported \cup {<<l, b>> : b \in R}
    /\ UNCHANGED <<finished, happened>>
    /\ CloseIfSettled(l)

Next == \E l \in Launches, B \in SUBSET Buffers : Run(l, B) \/ Judge(l, B)

Spec == Init /\ [][Next]_vars
=============================================================================
