----------------------- MODULE KernelLaunchInductive -----------------------
(***************************************************************************)
(* Why the verdicts of KernelLaunch are right: the inductive invariant     *)
(* behind Blame, NothingMissed, CleanAtReturn and EvidenceKept.            *)
(*                                                                         *)
(* The argument: two launches whose checks touch a common object never     *)
(* overlap (OrderInv, RunInv), so whatever sits in a canary when a check   *)
(* reads or repairs it was put there by the launch being checked           *)
(* (CanaryInv, SeenInv); and every stray write is followed from the canary *)
(* to the copy, to the result and to the report (StrayInv, JudgedInv).     *)
(***************************************************************************)
EXTENDS KernelLaunch

\* The conditions under which the argument works; the README gives, for
\* each of them, constants under which Blame fails without it.
Disciplined ==
    /\ Ordering = "checked"
    /\ ~ExitOnOverflow
    /\ Strategy = "single" => \A i, j \in Images : i = j

\* Launches whose checks meet in some object.
Conflict(k, l) == k # l /\ Checked(k) \cap Checked(l) # {}

\* k's call is over and l's kernel cannot run before the check of k is done.
Before(k, l) ==
    /\ stage[k] = "returned"
    /\ \/ k \in complete
       \/ k \in waits[l]
       \/ /\ queue[k] = queue[l] /\ queue[l] \in InOrder
          /\ OnDevice(k) /\ 0 < checkTick[k] /\ checkTick[k] < runTick[l]

\* The objects a host check of l is done with.
PassedBufs(l) ==
    {b \in Checked(l) : \/ pass[l] # "mem" /\ b \in MemBufs
                        \/ pass[l] \in {"svm", "end"} /\ b \in Images
                        \/ pass[l] = "end" /\ b \in SvmBufs}

\* How far a call can be.
StageInv ==
    \A l \in Launches :
        /\ stage[l] = "idle" => l \notin ran
        /\ stage[l] \in {"idle", "enqueued"} => pass[l] = "end"
        /\ stage[l] = "verifying" => ~OnDevice(l)
        /\ stage[l] = "returned" /\ OnDevice(l) => checkTick[l] > 0
        /\ stage[l] = "returned" /\ ~OnDevice(l) => pass[l] = "end"
        /\ stage[l] = "returned" /\ ~OnDevice(l) /\ Checked(l) # {} => l \in complete

\* Conflicting launches are ordered by the application, one way or the other.
OrderInv ==
    \A k, l \in Launches :
        stage[k] # "idle" /\ stage[l] # "idle" /\ Conflict(k, l) => Before(k, l) \/ Before(l, k)

\* A kernel has run only once the checks ordered before it are complete.
RunInv ==
    \A l \in ran : waits[l] \subseteq complete /\ \A k \in Launches : Before(k, l) => k \in complete

\* A check reads after the kernel; a checker kernel that reads also repairs.
SnapInv ==
    \A l \in Launches, b \in Buffers : <<l, b>> \in snapped =>
        /\ l \in ran /\ b \in Checked(l) /\ stage[l] \in {"verifying", "returned"}
        /\ OnDevice(l) /\ InPlace(b) => <<l, b>> \in mended

\* A check repairs after it has read; a host check also after it has reported.
MendInv ==
    \A l \in Launches, b \in Buffers :
        /\ <<l, b>> \in mended =>
              <<l, b>> \in snapped /\ (~OnDevice(l) => <<l, b>> \in reports)
        /\ <<l, b>> \in mending =>
              /\ stage[l] = "verifying" /\ b \in PassBufs(l) /\ Dirty(l, b)
              /\ <<l, b>> \in snapped /\ <<l, b>> \notin mended /\ <<l, b>> \in reports

\* What a host check leaves behind of the kinds it has been through.
HostInv ==
    \A l \in Launches : stage[l] \in {"verifying", "returned"} /\ ~OnDevice(l) =>
        \A b \in PassedBufs(l) : <<l, b>> \in snapped /\ (Dirty(l, b) => <<l, b>> \in mended)

\* A result is about what was read, is read back after the repairs, and is
\* reported by the callback.
JudgedInv ==
    \A l \in Launches, g \in Groups :
        /\ <<l, g>> \in judged =>
              /\ stage[l] = "returned" /\ OnDevice(l)
              /\ \A b \in Members(l, g) : <<l, b>> \in snapped /\ (Dirty(l, b) => <<l, b>> \in result)
        /\ <<l, g>> \in readback => <<l, g>> \in judged /\ \A b \in Members(l, g) : <<l, b>> \in mended
        /\ <<l, g>> \in called =>
              <<l, g>> \in readback /\ \A b \in Members(l, g) : <<l, b>> \in result => <<l, b>> \in reports

\* A completed event stands for a finished check.
CompleteInv ==
    \A l \in complete :
        /\ stage[l] = "returned"
        /\ \A b \in Checked(l) : <<l, b>> \in snapped /\ (OnDevice(l) => <<l, b>> \in mended)

\* What sits in a canary was put there by a launch whose check is not over.
CanaryInv ==
    \A b \in Buffers, x \in Launches : <<b, x>> \in canary =>
        /\ x \in ran /\ x \notin complete /\ b \in Checked(x)
        /\ <<x, b>> \in strays /\ <<x, b>> \notin mended
        /\ <<x, b>> \in snapped => <<x, b, x>> \in seen

\* A check only ever sees the strays of the launch it belongs to.
SeenInv ==
    \A l, x \in Launches, b \in Buffers : <<l, b, x>> \in seen =>
        x = l /\ <<l, b>> \in strays /\ <<l, b>> \in snapped

\* A stray write is in the canary until the check of its launch has read it.
StrayInv ==
    \A l \in Launches, b \in Buffers : <<l, b>> \in strays =>
        /\ l \in ran /\ b \in Checked(l)
        /\ <<b, l>> \in canary \/ <<l, b, l>> \in seen

\* Only groups with something to check are judged.
GroupInv == \A l \in Launches, g \in Groups : <<l, g>> \in judged => Members(l, g) # {}

\* All of the above: a launch is checked, repaired and reported on its own,
\* whatever other launches the wrapper and the runtime are busy with.
Inductive ==
    /\ TypeOK
    /\ StageInv /\ OrderInv /\ RunInv
    /\ SnapInv /\ MendInv /\ HostInv /\ JudgedInv /\ CompleteInv
    /\ CanaryInv /\ SeenInv /\ StrayInv
    /\ result \subseteq strays /\ reports \subseteq strays
=============================================================================
