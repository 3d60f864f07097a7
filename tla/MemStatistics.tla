---------------------------- MODULE MemStatistics ----------------------------
(***************************************************************************)
(* What the memory statistics of MemObjects should say.                    *)
(***************************************************************************)
EXTENDS MemObjects, FiniteSetsExt

Existing == {o \in Objects : refs[o] > 0}

\* The memory the application has asked for and not released.
UserMemory == Size * Cardinality({o \in Existing : maker[o] = "user"})

\* The memory the detector has added or uses itself.
OverheadMemory ==
    MapThenSumSet(LAMBDA o : Poisoned(kind[o]) + (IF maker[o] = "internal" THEN Size ELSE 0), Existing)

\* The objects whose creation and release change the statistics alike: not
\* sub-buffers, which only their release counts, nor images over the
\* application's memory, which only their creation counts, nor the detector's
\* own buffers over host memory, released as if they had canaries.
Balanced(o) == kind[o] \in {"buffer", "image"} \/ (kind[o] = "hostbuffer" /\ maker[o] = "user")

\* No call is under way, and only what is counted alike was ever created.
Settled ==
    /\ \A t \in Threads : pc[t] = "idle"
    /\ ~failed
    /\ \A o \in Objects : handle[o] # NoHandle => Balanced(o)

\* The current figures are those of the objects that exist: what a creation
\* adds, the release of the object takes away; and the high-water mark lies
\* between the current and the total figure.  With --perf_stat the overhead of
\* the canaries is told "vs. the total size of OpenCL buffers" (README.txt).
StatsExact ==
    Settled =>
        /\ stats.user = UserMemory /\ stats.over = OverheadMemory
        /\ stats.user <= stats.high /\ stats.high <= stats.total
=============================================================================
