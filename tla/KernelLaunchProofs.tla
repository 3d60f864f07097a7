------------------------- MODULE KernelLaunchProofs -------------------------
(***************************************************************************)
(* Machine-checked proofs about KernelLaunch, for every number of threads, *)
(* launches, queues and buffers.                                           *)
(***************************************************************************)
EXTENDS KernelLaunchInductive, TLAPS

-----------------------------------------------------------------------------
(***************************************************************************)
(* Type correctness: holds in every configuration.                         *)
(***************************************************************************)

\* What a launch checks are buffers, whatever its kernel was given.
LEMMA CheckedBuffers ==
    ASSUME NEW A \in SUBSET Buffers
    PROVE  CheckedOf(A) \subseteq Buffers /\ (A # {} => CheckedOf(A) # {}) /\ A \subseteq CheckedOf(A)
BY DEF CheckedOf, Buffers

\* Reading a canary observes launches, repairing one only removes.
LEMMA ObserveTypes ==
    ASSUME TypeOK, NEW l \in Launches, NEW b \in Buffers
    PROVE  /\ Observe(l, b) \in SUBSET (Launches \X Buffers \X Launches)
           /\ Repaired(b) \in SUBSET (Buffers \X Launches)
<1>1. seen \in SUBSET (Launches \X Buffers \X Launches) /\ canary \in SUBSET (Buffers \X Launches)
  BY DEF TypeOK
<1>2. \A x \in Launches : <<l, b, x>> \in Launches \X Buffers \X Launches
  OBVIOUS
<1> QED
  BY <1>1, <1>2 DEF Observe, Repaired

\* The calls of the host threads keep the types.
LEMMA HostTypes ==
    ASSUME TypeOK, NEW t \in Threads, NEW l \in Launches, HostStep(t, l)
    PROVE  TypeOK'
<1> USE DEF app, device, outcome, Stages, Passes
<1>1. CASE VerifyNothing(t, l)
  BY <1>1 DEF VerifyNothing, Leave, TypeOK
<1>2. CASE VerifyOnGpu(t, l)
  BY <1>2 DEF VerifyOnGpu, Leave, TypeOK
<1>3. CASE VerifyOnHost(t, l)
  BY <1>3 DEF VerifyOnHost, TypeOK
<1>4. CASE HostNextPass(t, l)
  BY <1>4 DEF HostNextPass, NextPass, TypeOK
<1>5. CASE HostReturn(t, l)
  BY <1>5 DEF HostReturn, Leave, TypeOK
<1>6. ASSUME NEW b \in Buffers, ParseCanary(t, l, b)
      PROVE  TypeOK'
  <2>1. CASE ExitOnOverflow
    BY <1>6, <2>1 DEF ParseCanary, TypeOK
  <2>2. CASE ~ExitOnOverflow
    BY <1>6, <2>2 DEF ParseCanary, TypeOK
  <2> QED
    BY <2>1, <2>2
<1> QED
  BY <1>1, <1>2, <1>3, <1>4, <1>5, <1>6 DEF HostStep

\* The commands and callbacks the runtime runs keep the types.
LEMMA RuntimeTypes ==
    ASSUME TypeOK, NEW l \in Launches, Runtime(l)
    PROVE  TypeOK'
<1> USE DEF app, device, outcome
<1>1. ASSUME NEW S \in SUBSET Buffers, RunKernel(l, S)
      PROVE  TypeOK'
  BY <1>1 DEF RunKernel, TypeOK
<1>2. ASSUME NEW b \in Buffers, CopyCanary(l, b) \/ ReadCanary(l, b)
      PROVE  TypeOK'
  BY <1>2, ObserveTypes DEF CopyCanary, ReadCanary, TypeOK
<1>3. ASSUME NEW b \in Buffers, CheckInPlace(l, b)
      PROVE  TypeOK'
  BY <1>3, ObserveTypes DEF CheckInPlace, TypeOK
<1>4. ASSUME NEW b \in Buffers, MendCanary(l, b) \/ MendOnHost(l, b)
      PROVE  TypeOK'
  BY <1>4, ObserveTypes DEF MendCanary, MendOnHost, TypeOK
<1>5. ASSUME NEW g \in Groups, FindCorruption(l, g)
      PROVE  TypeOK'
  <2>1. Members(l, g) \subseteq Buffers
    BY CheckedBuffers DEF Members, Checked, TypeOK
  <2>2. Members(l, g) # {} => FirstChange(l, g) \subseteq Buffers
    BY <2>1 DEF FirstChange
  <2> QED
    BY <1>5, <2>2 DEF FindCorruption, TypeOK
<1>6. ASSUME NEW g \in Groups, ReadBack(l, g)
      PROVE  TypeOK'
  BY <1>6 DEF ReadBack, TypeOK
<1>7. ASSUME NEW g \in Groups, VerifyCallback(l, g)
      PROVE  TypeOK'
  <2>1. Members(l, g) \subseteq Buffers
    BY CheckedBuffers DEF Members, Checked, TypeOK
  <2>2. exited' \in BOOLEAN
    BY <1>7, Zenon DEF VerifyCallback
  <2>3. reports' \in SUBSET (Launches \X Buffers)
    <3> DEFINE found == {b \in Members(l, g) : <<l, b>> \in result}
    <3>1. reports' = reports \cup {<<l, b>> : b \in found}
      BY <1>7, Zenon DEF VerifyCallback
    <3>2. found \subseteq Buffers
      BY <2>1
    <3> HIDE DEF found
    <3> QED
      BY <3>1, <3>2 DEF TypeOK
  <2> QED
    BY <1>7, <2>2, <2>3 DEF VerifyCallback, TypeOK
<1>8. CASE FinishMarker(l)
  BY <1>8 DEF FinishMarker, TypeOK
<1> QED
  BY <1>1, <1>2, <1>3, <1>4, <1>5, <1>6, <1>7, <1>8 DEF Runtime

\* The initial values have the right types.
LEMMA InitTypes == Init => TypeOK
<1>1. FillQueue \in Queues
  BY ConstantsAssumption
<1>2. Init => /\ clock \in Nat
              /\ runTick \in [Launches -> 0 .. clock] /\ checkTick \in [Launches -> 0 .. clock]
  BY DEF Init
<1>3. Init => userEvent \in BOOLEAN /\ exited \in BOOLEAN
  BY Zenon DEF Init
<1>4. Init => inCall \in [Threads -> Launches \cup {NoLaunch}]
  BY DEF Init
<1> QED
  BY <1>1, <1>2, <1>3, <1>4 DEF Init, TypeOK, Stages, Passes

\* Every step keeps the types.
LEMMA NextTypes ==
    ASSUME TypeOK, [Next]_vars
    PROVE  TypeOK'
<1> USE DEF app, device, outcome
<1>1. ASSUME NEW t \in Threads, NEW l \in Launches, NEW q \in Queues,
             NEW A \in SUBSET Buffers, NEW W \in SUBSET Launches, EnqueueKernel(t, l, q, A, W)
      PROVE  TypeOK'
  BY <1>1 DEF EnqueueKernel, TypeOK, Stages
<1>2. CASE SetUserEvent
  BY <1>2 DEF SetUserEvent, TypeOK
<1>3. CASE UNCHANGED vars
  BY <1>3 DEF vars, TypeOK
<1> QED
  BY <1>1, <1>2, <1>3, HostTypes, RuntimeTypes DEF Next

\* Every variable keeps its type in every behaviour, in every configuration.
THEOREM TypeCorrect == Spec => []TypeOK
<1>1. TypeOK /\ [Next]_vars => TypeOK'
  BY NextTypes
<1> QED
  BY <1>1, InitTypes, PTL DEF Spec

-----------------------------------------------------------------------------
(***************************************************************************)
(* Facts that every step uses.                                             *)
(***************************************************************************)

\* What a launch checks, and where, depends on the host's variables only.
LEMMA AppFrame ==
    ASSUME UNCHANGED app
    PROVE  \A k \in Launches :
              /\ Checked(k)' = Checked(k) /\ OnDevice(k)' = OnDevice(k)
              /\ PassBufs(k)' = PassBufs(k) /\ PassedBufs(k)' = PassedBufs(k)
              /\ \A g \in Groups : Members(k, g)' = Members(k, g)
BY DEF app, Checked, OnDevice, PassBufs, PassedBufs, Members, CheckedOf

\* The order of the launches only changes with their calls and their events.
LEMMA OrderFrame ==
    ASSUME UNCHANGED app, UNCHANGED complete
    PROVE  \A k, l \in Launches : Before(k, l)' = Before(k, l) /\ Conflict(k, l)' = Conflict(k, l)
BY AppFrame DEF app, Before, Conflict

\* Two launches that check a common object and have both run: the check of
\* one of them is over.
LEMMA Exclusive ==
    ASSUME Inductive, NEW k \in ran, NEW l \in ran, k # l,
           NEW b, b \in Checked(k), b \in Checked(l)
    PROVE  k \in complete \/ l \in complete
<1>1. k \in Launches /\ l \in Launches
  BY DEF Inductive, TypeOK
<1>2. Conflict(k, l)
  BY DEF Conflict
<1> QED
  BY <1>1, <1>2 DEF Inductive, StageInv, OrderInv, RunInv

\* While the check of l is not over, what sits in the canaries it checks is
\* l's own doing.
LEMMA OwnCanary ==
    ASSUME Inductive, NEW l \in ran, l \notin complete, NEW b \in Buffers, b \in Checked(l),
           NEW x \in Launches, <<b, x>> \in canary
    PROVE  x = l
<1>1. x \in ran /\ x \notin complete /\ b \in Checked(x)
  BY DEF Inductive, CanaryInv
<1> QED
  BY <1>1, Exclusive

\* Commands that neither run a kernel nor complete an event keep the order.
LEMMA OrderKept ==
    ASSUME Inductive, UNCHANGED app, UNCHANGED ran, UNCHANGED complete
    PROVE  StageInv' /\ OrderInv' /\ RunInv'
<1>1. StageInv'
  BY AppFrame DEF Inductive, StageInv, app
<1>2. OrderInv'
  BY OrderFrame DEF Inductive, OrderInv, app
<1>3. RunInv'
  BY OrderFrame DEF Inductive, RunInv, app, TypeOK
<1> QED
  BY <1>1, <1>2, <1>3

\* Types of the pairs and triples that the invariant is about.
LEMMA MemberTypes ==
    ASSUME Inductive, NEW l \in Launches
    PROVE  /\ Checked(l) \subseteq Buffers /\ PassBufs(l) \subseteq Checked(l)
           /\ PassedBufs(l) \subseteq Checked(l)
           /\ \A g \in Groups : Members(l, g) \subseteq Checked(l)
           /\ \A b \in Checked(l) : GroupOf(b) \in Groups /\ b \in Members(l, GroupOf(b))
BY CheckedBuffers DEF Inductive, TypeOK, Checked, PassBufs, PassedBufs, Members, GroupOf, Groups

-----------------------------------------------------------------------------
(***************************************************************************)
(* Commands of the runtime preserve the invariant.                         *)
(***************************************************************************)

\* A copy or a host read observes only the strays of the launch checked.
LEMMA ReadPreserves ==
    ASSUME Inductive, NEW l \in Launches, NEW b \in Buffers, TypeOK',
           CopyCanary(l, b) \/ ReadCanary(l, b)
    PROVE  Inductive'
<1>1. UNCHANGED <<app, ran, canary, mending, mended, judged, result, readback, complete, outcome>>
  BY DEF CopyCanary, ReadCanary
<1>2. UNCHANGED <<inCall, queue, args, waits, stage, pass, runTick, checkTick, clock>>
  BY <1>1 DEF app
<1>3. UNCHANGED <<strays, called, reports, userEvent, exited>>
  BY <1>1 DEF outcome
<1>4. /\ seen' = Observe(l, b) /\ snapped' = snapped \cup {<<l, b>>}
      /\ l \in ran /\ <<l, b>> \notin snapped /\ b \in Checked(l)
      /\ stage[l] \in {"verifying", "returned"}
      /\ ~(OnDevice(l) /\ InPlace(b))
  BY MemberTypes DEF CopyCanary, ReadCanary, DeviceReady, Inductive, StageInv
<1>5. l \notin complete
  BY <1>4 DEF Inductive, CompleteInv
<1>6. /\ seen \subseteq seen'
      /\ \A k, x \in Launches, c \in Buffers :
            <<k, c, x>> \in seen' => <<k, c, x>> \in seen \/ (k = l /\ c = b /\ x = l /\ <<b, l>> \in canary)
      /\ <<b, l>> \in canary => <<l, b, l>> \in seen'
  BY <1>4, <1>5, OwnCanary DEF Observe
<1>7. \A k \in Launches, c \in Buffers :
         (<<k, c>> # <<l, b>> => Dirty(k, c)' = Dirty(k, c)) /\ (Dirty(k, c) => Dirty(k, c)')
  BY <1>6 DEF Dirty
<1>8. StageInv' /\ OrderInv' /\ RunInv'
  BY <1>1, OrderKept
<1>9. SnapInv'
  BY <1>1, <1>2, <1>4, AppFrame DEF Inductive, SnapInv
<1>10. MendInv'
  BY <1>1, <1>2, <1>3, <1>4, <1>7, AppFrame DEF Inductive, MendInv
<1>11. HostInv'
  BY <1>1, <1>2, <1>4, <1>7, AppFrame, MemberTypes DEF Inductive, HostInv
<1>12. JudgedInv'
  BY ZenonT(60), <1>1, <1>2, <1>3, <1>4, <1>7, AppFrame, MemberTypes DEF Inductive, JudgedInv
<1>13. CompleteInv'
  BY <1>1, <1>2, <1>4, AppFrame DEF Inductive, CompleteInv, TypeOK
<1>14. CanaryInv'
  BY <1>1, <1>2, <1>3, <1>4, <1>6, AppFrame DEF Inductive, CanaryInv
<1>15. SeenInv'
  BY <1>3, <1>4, <1>6 DEF Inductive, SeenInv, CanaryInv
<1>16. StrayInv'
  BY <1>1, <1>2, <1>3, <1>6, AppFrame DEF Inductive, StrayInv
<1> QED
  BY <1>1, <1>3, <1>8, <1>9, <1>10, <1>11, <1>12, <1>13, <1>14, <1>15, <1>16 DEF Inductive

\* A fill on the cached queue repairs only what its own check has read.
LEMMA MendPreserves ==
    ASSUME Inductive, NEW l \in Launches, NEW b \in Buffers, TypeOK',
           MendCanary(l, b) \/ MendOnHost(l, b)
    PROVE  Inductive'
<1>1. UNCHANGED <<app, ran, seen, snapped, judged, result, readback, complete, outcome>>
  BY DEF MendCanary, MendOnHost
<1>2. UNCHANGED <<inCall, queue, args, waits, stage, pass, runTick, checkTick, clock>>
  BY <1>1 DEF app
<1>3. UNCHANGED <<strays, called, reports, userEvent, exited>>
  BY <1>1 DEF outcome
<1>4. /\ canary' = Repaired(b) /\ mended' = mended \cup {<<l, b>>}
      /\ <<l, b>> \in snapped /\ <<l, b>> \notin mended
      /\ ~OnDevice(l) => <<l, b>> \in reports
      /\ l \notin complete
  <2>1. CASE MendCanary(l, b)
    BY <2>1 DEF MendCanary, Inductive, CompleteInv
  <2>2. CASE MendOnHost(l, b)
    BY <2>2 DEF MendOnHost, Inductive, MendInv, CompleteInv
  <2> QED
    BY <2>1, <2>2
<1>5. mending' \subseteq mending /\ <<l, b>> \notin mending'
  <2>1. CASE MendCanary(l, b)
    BY <2>1 DEF MendCanary, Inductive, StageInv, MendInv
  <2>2. CASE MendOnHost(l, b)
    BY <2>2 DEF MendOnHost
  <2> QED
    BY <2>1, <2>2
<1>6. l \in ran /\ b \in Checked(l)
  BY <1>4 DEF Inductive, SnapInv
<1>7. \A c \in Buffers, x \in Launches :
         /\ <<c, x>> \in canary' <=> <<c, x>> \in canary /\ c # b
         /\ <<b, x>> \in canary => x = l /\ <<l, b, l>> \in seen
  BY <1>4, <1>6, OwnCanary DEF Repaired, Inductive, CanaryInv
<1>8. \A k \in Launches, c \in Buffers : Dirty(k, c)' = Dirty(k, c)
  BY <1>1 DEF Dirty
<1>9. StageInv' /\ OrderInv' /\ RunInv'
  BY <1>1, OrderKept
<1>10. SnapInv'
  BY <1>1, <1>2, <1>4, AppFrame DEF Inductive, SnapInv
<1>11. MendInv'
  BY <1>1, <1>2, <1>3, <1>4, <1>5, <1>8, AppFrame DEF Inductive, MendInv
<1>12. HostInv'
  BY <1>1, <1>2, <1>4, <1>8, AppFrame, MemberTypes DEF Inductive, HostInv
<1>13. JudgedInv'
  BY ZenonT(60), <1>1, <1>2, <1>3, <1>4, <1>8, AppFrame, MemberTypes DEF Inductive, JudgedInv
<1>14. CompleteInv'
  BY <1>1, <1>2, <1>4, AppFrame DEF Inductive, CompleteInv, TypeOK
<1>15. CanaryInv'
  BY ZenonT(60), <1>1, <1>2, <1>3, <1>4, <1>7, AppFrame DEF Inductive, CanaryInv
<1>16. SeenInv'
  BY <1>1, <1>3 DEF Inductive, SeenInv
<1>17. StrayInv'
  BY <1>1, <1>2, <1>3, <1>7, AppFrame DEF Inductive, StrayInv
<1> QED
  BY <1>1, <1>3, <1>9, <1>10, <1>11, <1>12, <1>13, <1>14, <1>15, <1>16, <1>17 DEF Inductive

\* A checker kernel that works in place reads and repairs in one step.
LEMMA InPlacePreserves ==
    ASSUME Inductive, NEW l \in Launches, NEW b \in Buffers, TypeOK', CheckInPlace(l, b)
    PROVE  Inductive'
<1>1. UNCHANGED <<app, ran, mending, judged, result, readback, complete, outcome>>
  BY DEF CheckInPlace
<1>2. UNCHANGED <<inCall, queue, args, waits, stage, pass, runTick, checkTick, clock>>
  BY <1>1 DEF app
<1>3. UNCHANGED <<strays, called, reports, userEvent, exited>>
  BY <1>1 DEF outcome
<1>4. /\ seen' = Observe(l, b) /\ snapped' = snapped \cup {<<l, b>>}
      /\ canary' = Repaired(b) /\ mended' = mended \cup {<<l, b>>}
      /\ l \in ran /\ <<l, b>> \notin snapped /\ b \in Checked(l)
      /\ stage[l] = "returned" /\ OnDevice(l)
  BY DEF CheckInPlace, DeviceReady
<1>5. l \notin complete /\ <<l, b>> \notin mended
  BY <1>4 DEF Inductive, CompleteInv, MendInv
<1>6. /\ seen \subseteq seen'
      /\ \A k, x \in Launches, c \in Buffers :
            <<k, c, x>> \in seen' => <<k, c, x>> \in seen \/ (k = l /\ c = b /\ x = l /\ <<b, l>> \in canary)
      /\ <<b, l>> \in canary => <<l, b, l>> \in seen'
  BY <1>4, <1>5, OwnCanary DEF Observe
<1>7. \A k \in Launches, c \in Buffers :
         (<<k, c>> # <<l, b>> => Dirty(k, c)' = Dirty(k, c)) /\ (Dirty(k, c) => Dirty(k, c)')
  BY <1>6 DEF Dirty
<1>8. \A c \in Buffers, x \in Launches :
         /\ <<c, x>> \in canary' <=> <<c, x>> \in canary /\ c # b
         /\ <<b, x>> \in canary => x = l
  BY <1>4, <1>5, OwnCanary DEF Repaired
<1>9. StageInv' /\ OrderInv' /\ RunInv'
  BY <1>1, OrderKept
<1>10. SnapInv'
  BY <1>1, <1>2, <1>4, AppFrame DEF Inductive, SnapInv
<1>11. MendInv'
  BY <1>1, <1>2, <1>3, <1>4, <1>7, AppFrame DEF Inductive, MendInv
<1>12. HostInv'
  BY <1>1, <1>2, <1>4, <1>7, AppFrame, MemberTypes DEF Inductive, HostInv
<1>13. JudgedInv'
  BY ZenonT(60), <1>1, <1>2, <1>3, <1>4, <1>7, AppFrame, MemberTypes DEF Inductive, JudgedInv
<1>14. CompleteInv'
  BY <1>1, <1>2, <1>4, AppFrame DEF Inductive, CompleteInv, TypeOK
<1>15. CanaryInv'
  <2> SUFFICES ASSUME NEW c \in Buffers, NEW x \in Launches, <<c, x>> \in canary'
               PROVE  /\ x \in ran /\ x \notin complete /\ c \in Checked(x)
                      /\ <<x, c>> \in strays /\ <<x, c>> \notin mended'
                      /\ <<x, c>> \in snapped' => <<x, c, x>> \in seen'
    BY <1>1, <1>3, AppFrame DEF CanaryInv
  <2>1. <<c, x>> \in canary /\ c # b
    BY <1>8
  <2>2. (<<x, c>> \in mended' => <<x, c>> \in mended) /\ (<<x, c>> \in snapped' => <<x, c>> \in snapped)
    BY <1>4, <2>1
  <2> QED
    BY <1>6, <2>1, <2>2 DEF Inductive, CanaryInv
<1>16. SeenInv'
  BY <1>3, <1>4, <1>6 DEF Inductive, SeenInv, CanaryInv
<1>17. StrayInv'
  BY <1>1, <1>2, <1>3, <1>6, <1>8, AppFrame DEF Inductive, StrayInv
<1> QED
  BY <1>1, <1>3, <1>9, <1>10, <1>11, <1>12, <1>13, <1>14, <1>15, <1>16, <1>17 DEF Inductive

\* The checker kernel of a group judges what the copies of its members show.
LEMMA FindPreserves ==
    ASSUME Inductive, Disciplined, NEW l \in Launches, NEW g \in Groups, TypeOK', FindCorruption(l, g)
    PROVE  Inductive'
<1>1. UNCHANGED <<app, ran, canary, seen, snapped, mending, mended, readback, complete, outcome>>
  BY DEF FindCorruption
<1>2. UNCHANGED <<inCall, queue, args, waits, stage, pass, runTick, checkTick, clock>>
  BY <1>1 DEF app
<1>3. UNCHANGED <<strays, called, reports, userEvent, exited>>
  BY <1>1 DEF outcome
<1>4. /\ judged' = judged \cup {<<l, g>>}
      /\ result' = result \cup {<<l, b>> : b \in FirstChange(l, g)}
      /\ \A b \in Members(l, g) : <<l, b>> \in snapped
      /\ stage[l] = "returned" /\ OnDevice(l) /\ <<l, g>> \notin judged /\ Members(l, g) # {}
  BY DEF FindCorruption, DeviceReady
<1>5. FirstChange(l, g) = {b \in Members(l, g) : Dirty(l, b)}
  <2> DEFINE bad == {b \in Members(l, g) : Dirty(l, b)}
  <2>1. CASE ~(Strategy = "single" /\ g = "img" /\ bad # {})
    BY <2>1 DEF FirstChange
  <2>2. CASE Strategy = "single" /\ g = "img" /\ bad # {}
    <3>1. Members(l, g) \subseteq Images
      BY <2>2 DEF Members, GroupOf
    <3>2. PICK i \in Members(l, g) : Dirty(l, i)
      BY <2>2
    <3>3. Members(l, g) = {i}
      BY <2>2, <3>1, <3>2 DEF Disciplined
    <3>4. FirstChange(l, g) = {CHOOSE b \in Members(l, g) : TRUE}
      BY <2>2 DEF FirstChange
    <3>5. (CHOOSE b \in Members(l, g) : TRUE) = i
      BY <3>3
    <3> QED
      BY <3>2, <3>3, <3>4, <3>5
  <2> QED
    BY <2>1, <2>2
<1>6. \A b \in FirstChange(l, g) : <<l, b>> \in strays
  BY <1>5, MemberTypes DEF Dirty, Inductive, SeenInv
<1>7. \A k \in Launches, c \in Buffers : Dirty(k, c)' = Dirty(k, c)
  BY <1>1 DEF Dirty
<1>8. \A k \in Launches, c \in Buffers :
         <<k, c>> \in result' <=> <<k, c>> \in result \/ (k = l /\ c \in FirstChange(l, g))
  BY <1>4
<1>9. StageInv' /\ OrderInv' /\ RunInv'
  BY <1>1, OrderKept
<1>10. SnapInv' /\ CompleteInv'
  BY <1>1, <1>2, AppFrame DEF Inductive, SnapInv, CompleteInv, TypeOK
<1>11. MendInv' /\ HostInv'
  BY <1>1, <1>2, <1>3, <1>7, AppFrame, MemberTypes DEF Inductive, MendInv, HostInv
<1>12. JudgedInv'
  <2> SUFFICES ASSUME NEW k \in Launches, NEW h \in Groups
               PROVE  /\ <<k, h>> \in judged' =>
                            /\ stage[k] = "returned" /\ OnDevice(k)
                            /\ \A b \in Members(k, h) :
                                  <<k, b>> \in snapped /\ (Dirty(k, b) => <<k, b>> \in result')
                      /\ <<k, h>> \in readback =>
                            <<k, h>> \in judged' /\ \A b \in Members(k, h) : <<k, b>> \in mended
                      /\ <<k, h>> \in called =>
                            /\ <<k, h>> \in readback
                            /\ \A b \in Members(k, h) : <<k, b>> \in result' => <<k, b>> \in reports
    BY <1>1, <1>2, <1>3, <1>7, AppFrame, MemberTypes DEF JudgedInv
  <2>1. CASE <<k, h>> = <<l, g>>
    BY <2>1, <1>4, <1>5, <1>8, MemberTypes DEF Inductive, JudgedInv
  <2>2. CASE <<k, h>> # <<l, g>>
    <3>1. \A b \in Members(k, h) : <<k, b>> \in result' <=> <<k, b>> \in result
      BY <2>2, <1>5, <1>8, MemberTypes DEF Members
    <3> QED
      BY <2>2, <3>1, <1>4 DEF Inductive, JudgedInv
  <2> QED
    BY <2>1, <2>2
<1>13. CanaryInv' /\ SeenInv' /\ StrayInv'
  BY <1>1, <1>3, AppFrame DEF Inductive, CanaryInv, SeenInv, StrayInv
<1>14. result' \subseteq strays' /\ reports' \subseteq strays'
  BY <1>3, <1>4, <1>6 DEF Inductive
<1> QED
  BY <1>9, <1>10, <1>11, <1>12, <1>13, <1>14 DEF Inductive

\* A result is read back once the group's canaries hold the poison value again.
LEMMA ReadBackPreserves ==
    ASSUME Inductive, Disciplined, NEW l \in Launches, NEW g \in Groups, TypeOK', ReadBack(l, g)
    PROVE  Inductive'
<1>1. UNCHANGED <<app, ran, canary, seen, snapped, mending, mended, judged, result, complete, outcome>>
  BY DEF ReadBack
<1>2. UNCHANGED <<inCall, queue, args, waits, stage, pass, runTick, checkTick, clock>>
  BY <1>1 DEF app
<1>3. UNCHANGED <<strays, called, reports, userEvent, exited>>
  BY <1>1 DEF outcome
<1>4. readback' = readback \cup {<<l, g>>} /\ <<l, g>> \in judged
  BY DEF ReadBack
<1>5. \A b \in Members(l, g) : <<l, b>> \in mended
  <2> SUFFICES ASSUME NEW b \in Members(l, g)
               PROVE  <<l, b>> \in mended
    OBVIOUS
  <2>1. OnDevice(l) /\ <<l, b>> \in snapped /\ b \in Buffers
    BY <1>4, MemberTypes DEF Inductive, JudgedInv
  <2>2. CASE InPlace(b)
    BY <2>1, <2>2 DEF Inductive, SnapInv
  <2>3. CASE ~InPlace(b)
    BY <2>3 DEF Disciplined, FillMended, ReadBack
  <2> QED
    BY <2>2, <2>3
<1>6. \A k \in Launches, c \in Buffers : Dirty(k, c)' = Dirty(k, c)
  BY <1>1 DEF Dirty
<1>7. StageInv' /\ OrderInv' /\ RunInv'
  BY <1>1, OrderKept
<1>8. SnapInv' /\ CompleteInv'
  BY <1>1, <1>2, AppFrame DEF Inductive, SnapInv, CompleteInv, TypeOK
<1>9. MendInv' /\ HostInv'
  BY <1>1, <1>2, <1>3, <1>6, AppFrame, MemberTypes DEF Inductive, MendInv, HostInv
<1>10. JudgedInv'
  BY ZenonT(60), <1>1, <1>2, <1>3, <1>4, <1>5, <1>6, AppFrame, MemberTypes DEF Inductive, JudgedInv
<1>11. CanaryInv' /\ SeenInv' /\ StrayInv'
  BY <1>1, <1>3, AppFrame DEF Inductive, CanaryInv, SeenInv, StrayInv
<1> QED
  BY <1>1, <1>3, <1>7, <1>8, <1>9, <1>10, <1>11 DEF Inductive

\* The marker completes the launch's event once every group is read back.
LEMMA MarkerPreserves ==
    ASSUME Inductive, Disciplined, NEW l \in Launches, TypeOK', FinishMarker(l)
    PROVE  Inductive'
<1>1. UNCHANGED <<app, ran, canary, seen, snapped, mending, mended, judged, result, readback, outcome>>
  BY DEF FinishMarker
<1>2. UNCHANGED <<inCall, queue, args, waits, stage, pass, runTick, checkTick, clock>>
  BY <1>1 DEF app
<1>3. UNCHANGED <<strays, called, reports, userEvent, exited>>
  BY <1>1 DEF outcome
<1>4. /\ complete' = complete \cup {l} /\ stage[l] = "returned" /\ OnDevice(l)
      /\ \A g \in Groups : Members(l, g) # {} => <<l, g>> \in readback
  BY DEF FinishMarker, DeviceReady
<1>5. \A b \in Checked(l) : <<l, b>> \in mended /\ <<l, b>> \in snapped
  <2> SUFFICES ASSUME NEW b \in Checked(l)
               PROVE  <<l, b>> \in mended /\ <<l, b>> \in snapped
    OBVIOUS
  <2>1. b \in Buffers /\ GroupOf(b) \in Groups /\ b \in Members(l, GroupOf(b))
    BY MemberTypes
  <2>2. <<l, GroupOf(b)>> \in readback
    BY <1>4, <2>1
  <2> QED
    BY <2>1, <2>2 DEF Inductive, JudgedInv, MendInv
<1>6. \A k \in Launches, c \in Buffers : Dirty(k, c)' = Dirty(k, c)
  BY <1>1 DEF Dirty
<1>7. \A k, m \in Launches :
         /\ Conflict(k, m)' = Conflict(k, m)
         /\ Before(k, m) => Before(k, m)'
         /\ Before(k, m)' => Before(k, m) \/ k = l
  BY <1>1, <1>2, <1>4, AppFrame DEF Before, Conflict
<1>8. StageInv'
  BY <1>1, <1>2, <1>4, AppFrame DEF Inductive, StageInv
<1>9. OrderInv'
  BY <1>2, <1>7 DEF Inductive, OrderInv
<1>10. RunInv'
  BY <1>1, <1>2, <1>4, <1>7 DEF Inductive, RunInv, TypeOK
<1>11. SnapInv' /\ CompleteInv'
  BY <1>1, <1>2, <1>4, <1>5, AppFrame DEF Inductive, SnapInv, CompleteInv, TypeOK
<1>12. MendInv' /\ HostInv'
  BY <1>1, <1>2, <1>3, <1>6, AppFrame, MemberTypes DEF Inductive, MendInv, HostInv
<1>13. JudgedInv'
  BY <1>1, <1>2, <1>3, <1>6, AppFrame, MemberTypes DEF Inductive, JudgedInv
<1>14. CanaryInv' /\ SeenInv' /\ StrayInv'
  BY <1>1, <1>3, <1>4, <1>5, AppFrame DEF Inductive, CanaryInv, SeenInv, StrayInv
<1> QED
  BY <1>1, <1>3, <1>8, <1>9, <1>10, <1>11, <1>12, <1>13, <1>14 DEF Inductive

\* verify_callback reports exactly what was read back for its group.
LEMMA CallbackPreserves ==
    ASSUME Inductive, Disciplined, NEW l \in Launches, NEW g \in Groups, TypeOK', VerifyCallback(l, g)
    PROVE  Inductive'
<1> DEFINE found == {b \in Members(l, g) : <<l, b>> \in result}
<1>1. UNCHANGED <<app, device, strays, userEvent>>
  BY DEF VerifyCallback
<1>2. UNCHANGED <<inCall, queue, args, waits, stage, pass, runTick, checkTick, clock>>
  BY <1>1 DEF app
<1>3. UNCHANGED <<ran, canary, seen, snapped, mending, mended, judged, result, readback, complete>>
  BY <1>1 DEF device
<1>4. /\ called' = called \cup {<<l, g>>} /\ <<l, g>> \in readback
      /\ reports' = reports \cup {<<l, b>> : b \in found}
  BY Zenon DEF VerifyCallback
<1>5. \A b \in Members(l, g) : <<l, b>> \in result => <<l, b>> \in reports'
  BY <1>4
<1>6. reports \subseteq reports' /\ reports' \subseteq strays'
  BY <1>1, <1>4 DEF Inductive
<1> HIDE DEF found
<1>7. \A k \in Launches, c \in Buffers : Dirty(k, c)' = Dirty(k, c)
  BY <1>3 DEF Dirty
<1>8. StageInv' /\ OrderInv' /\ RunInv'
  BY <1>1, <1>3, OrderKept
<1>9. SnapInv' /\ CompleteInv'
  BY <1>1, <1>2, <1>3, AppFrame DEF Inductive, SnapInv, CompleteInv, TypeOK
<1>10. MendInv' /\ HostInv'
  BY <1>1, <1>2, <1>3, <1>6, <1>7, AppFrame, MemberTypes DEF Inductive, MendInv, HostInv
<1>11. JudgedInv'
  <2>1. \A k \in Launches, h \in Groups :
           Members(k, h)' = Members(k, h) /\ Members(k, h) \subseteq Buffers /\ OnDevice(k)' = OnDevice(k)
    BY <1>1, AppFrame, MemberTypes
  <2> SUFFICES ASSUME NEW k \in Launches, NEW h \in Groups
               PROVE  /\ <<k, h>> \in judged' =>
                            /\ stage'[k] = "returned" /\ OnDevice(k)'
                            /\ \A b \in Members(k, h)' :
                                  <<k, b>> \in snapped' /\ (Dirty(k, b)' => <<k, b>> \in result')
                      /\ <<k, h>> \in readback' =>
                            <<k, h>> \in judged' /\ \A b \in Members(k, h)' : <<k, b>> \in mended'
                      /\ <<k, h>> \in called' =>
                            /\ <<k, h>> \in readback'
                            /\ \A b \in Members(k, h)' : <<k, b>> \in result' => <<k, b>> \in reports'
    BY DEF JudgedInv
  <2>2. JudgedInv
    BY DEF Inductive
  <2>3. <<k, h>> \in judged' =>
           /\ stage'[k] = "returned" /\ OnDevice(k)'
           /\ \A b \in Members(k, h)' :
                 <<k, b>> \in snapped' /\ (Dirty(k, b)' => <<k, b>> \in result')
    BY <1>2, <1>3, <1>7, <2>1, <2>2 DEF JudgedInv
  <2>4. <<k, h>> \in readback' =>
           <<k, h>> \in judged' /\ \A b \in Members(k, h)' : <<k, b>> \in mended'
    BY <1>3, <2>1, <2>2 DEF JudgedInv
  <2>5. <<k, h>> \in called' =>
           /\ <<k, h>> \in readback'
           /\ \A b \in Members(k, h)' : <<k, b>> \in result' => <<k, b>> \in reports'
    <3>1. CASE <<k, h>> \in called
      BY <1>3, <1>6, <2>1, <2>2, <3>1 DEF JudgedInv
    <3>2. CASE <<k, h>> = <<l, g>>
      BY <1>3, <1>4, <1>5, <2>1, <3>2
    <3> QED
      BY <1>4, <3>1, <3>2
  <2> QED
    BY <2>3, <2>4, <2>5
<1>12. CanaryInv' /\ SeenInv' /\ StrayInv'
  BY <1>1, <1>3, AppFrame DEF Inductive, CanaryInv, SeenInv, StrayInv
<1> QED
  BY <1>1, <1>3, <1>6, <1>8, <1>9, <1>10, <1>11, <1>12 DEF Inductive

\* A kernel runs only when no conflicting check is under way.
LEMMA RunPreserves ==
    ASSUME Inductive, NEW l \in Launches, NEW S \in SUBSET Buffers, TypeOK', RunKernel(l, S)
    PROVE  Inductive'
<1>1. UNCHANGED <<app, seen, snapped, mending, mended, judged, result, readback, complete>>
  BY DEF RunKernel
<1>2. UNCHANGED <<inCall, queue, args, waits, stage, pass, runTick, checkTick, clock>>
  BY <1>1 DEF app
<1>3. UNCHANGED <<called, reports, userEvent, exited>>
  BY DEF RunKernel
<1>4. /\ ran' = ran \cup {l} /\ stage[l] # "idle" /\ l \notin ran
      /\ canary' = canary \cup {<<b, l>> : b \in S}
      /\ strays' = strays \cup {<<l, b>> : b \in S}
      /\ waits[l] \subseteq complete /\ QueueReady(queue[l], runTick[l])
  BY DEF RunKernel
<1>5. S \subseteq Checked(l)
  BY CheckedBuffers DEF RunKernel, Checked, Inductive, TypeOK
<1>6. \A b \in Buffers : <<l, b>> \notin snapped /\ <<l, b>> \notin mended
  BY <1>4 DEF Inductive, SnapInv, MendInv
<1>7. \A b \in S : l \notin complete
  BY <1>5, <1>6 DEF Inductive, CompleteInv
<1>8. \A k \in Launches : Before(k, l) => k \in complete
  <2> SUFFICES ASSUME NEW k \in Launches, Before(k, l), k \notin complete, k \notin waits[l]
               PROVE  FALSE
    BY <1>4
  <2>1. /\ queue[k] = queue[l] /\ queue[l] \in InOrder /\ OnDevice(k)
        /\ 0 < checkTick[k] /\ checkTick[k] < runTick[l]
    BY DEF Before
  <2>2. checkTick[k] \in 1 .. (runTick[l] - 1)
    BY <2>1 DEF Inductive, TypeOK
  <2> QED
    BY <1>4, <2>1, <2>2 DEF QueueReady
<1>9. \A k \in Launches, c \in Buffers : Dirty(k, c)' = Dirty(k, c)
  BY <1>1 DEF Dirty
<1>10. StageInv'
  BY <1>1, <1>2, <1>4, AppFrame DEF Inductive, StageInv
<1>11. OrderInv'
  BY <1>1, <1>2, OrderFrame DEF Inductive, OrderInv
<1>12. RunInv'
  BY <1>1, <1>2, <1>4, <1>8, OrderFrame DEF Inductive, RunInv, TypeOK
<1>13. SnapInv' /\ CompleteInv'
  BY <1>1, <1>2, <1>4, AppFrame DEF Inductive, SnapInv, CompleteInv, TypeOK
<1>14. MendInv' /\ HostInv'
  BY <1>1, <1>2, <1>3, <1>9, AppFrame, MemberTypes DEF Inductive, MendInv, HostInv
<1>15. JudgedInv'
  BY ZenonT(60), <1>1, <1>2, <1>3, <1>9, AppFrame, MemberTypes DEF Inductive, JudgedInv
<1>16. CanaryInv'
  BY <1>1, <1>4, <1>5, <1>6, <1>7, AppFrame DEF Inductive, CanaryInv
<1>17. SeenInv'
  BY <1>1, <1>4 DEF Inductive, SeenInv
<1>18. StrayInv'
  BY <1>1, <1>4, <1>5, AppFrame DEF Inductive, StrayInv
<1>19. result' \subseteq strays' /\ reports' \subseteq strays'
  BY <1>1, <1>3, <1>4 DEF Inductive
<1> QED
  BY <1>10, <1>11, <1>12, <1>13, <1>14, <1>15, <1>16, <1>17, <1>18, <1>19 DEF Inductive

-----------------------------------------------------------------------------
(***************************************************************************)
(* Calls of the host preserve the invariant.                               *)
(***************************************************************************)

\* What a launch checks, and where, is fixed by the arguments of its kernel.
LEMMA ArgsFrame ==
    ASSUME UNCHANGED args
    PROVE  \A k \in Launches :
              /\ Checked(k)' = Checked(k) /\ OnDevice(k)' = OnDevice(k)
              /\ \A g \in Groups : Members(k, g)' = Members(k, g)
              /\ \A m \in Launches : Conflict(k, m)' = Conflict(k, m)
BY DEF Checked, OnDevice, Members, CheckedOf, Conflict

\* verifyBufferInBounds finds nothing to check, or enqueues checks, and returns.
LEMMA VerifyPreserves ==
    ASSUME Inductive, NEW t \in Threads, NEW l \in Launches, TypeOK',
           VerifyNothing(t, l) \/ VerifyOnGpu(t, l)
    PROVE  Inductive'
<1>1. UNCHANGED <<queue, args, waits, pass, runTick, device, outcome>>
  BY DEF VerifyNothing, VerifyOnGpu
<1>2. UNCHANGED <<ran, canary, seen, snapped, mending, mended, judged, result, readback, complete>>
  BY <1>1 DEF device
<1>3. UNCHANGED <<strays, called, reports, userEvent, exited>>
  BY <1>1 DEF outcome
<1>4. /\ stage[l] = "enqueued" /\ stage' = [stage EXCEPT ![l] = "returned"]
      /\ \A k \in Launches : k # l => checkTick'[k] = checkTick[k]
      /\ OnDevice(l) \/ Checked(l) = {}
      /\ OnDevice(l) => checkTick'[l] > clock
  BY DEF VerifyNothing, VerifyOnGpu, Leave, OnDevice, Inductive, TypeOK
<1>5. /\ stage'[l] = "returned" /\ \A k \in Launches : k # l => stage'[k] = stage[k]
      /\ l \notin complete
  BY <1>4 DEF Inductive, TypeOK, CompleteInv
<1>6. \A k \in Launches : PassBufs(k)' = PassBufs(k) /\ PassedBufs(k)' = PassedBufs(k)
  BY <1>1, ArgsFrame DEF PassBufs, PassedBufs
<1>7. \A k \in Launches, c \in Buffers : Dirty(k, c)' = Dirty(k, c)
  BY <1>2 DEF Dirty
<1>8. \A k, m \in Launches :
         /\ Before(k, m) => Before(k, m)'
         /\ Before(k, m)' => Before(k, m) \/ k \in waits[m]
  BY <1>1, <1>2, <1>4, <1>5, ArgsFrame DEF Before, Inductive, TypeOK
<1>9. StageInv'
  BY <1>1, <1>2, <1>4, <1>5, ArgsFrame DEF Inductive, StageInv, TypeOK
<1>10. OrderInv'
  <2> SUFFICES ASSUME NEW k \in Launches, NEW m \in Launches,
                      stage'[k] # "idle", stage'[m] # "idle", Conflict(k, m)
               PROVE  Before(k, m) \/ Before(m, k)
    BY <1>1, <1>8, ArgsFrame DEF OrderInv
  <2> QED
    BY <1>4, <1>5 DEF Inductive, OrderInv
<1>11. RunInv'
  BY <1>1, <1>2, <1>8 DEF Inductive, RunInv, TypeOK
<1>12. SnapInv' /\ CompleteInv'
  BY <1>1, <1>2, <1>5, ArgsFrame DEF Inductive, SnapInv, CompleteInv, TypeOK
<1>13. MendInv'
  BY ZenonT(60), <1>1, <1>2, <1>3, <1>4, <1>5, <1>6, <1>7, ArgsFrame DEF Inductive, MendInv
<1>14. HostInv'
  BY <1>1, <1>2, <1>4, <1>5, <1>6, <1>7, ArgsFrame, MemberTypes DEF Inductive, HostInv
<1>15. JudgedInv'
  BY ZenonT(60), <1>1, <1>2, <1>3, <1>5, <1>7, ArgsFrame, MemberTypes DEF Inductive, JudgedInv
<1>16. CanaryInv' /\ SeenInv' /\ StrayInv'
  BY <1>1, <1>2, <1>3, ArgsFrame DEF Inductive, CanaryInv, SeenInv, StrayInv
<1> QED
  BY <1>2, <1>3, <1>9, <1>10, <1>11, <1>12, <1>13, <1>14, <1>15, <1>16 DEF Inductive

\* A host check starts, or goes on to the next kind of object.
LEMMA PassPreserves ==
    ASSUME Inductive, NEW t \in Threads, NEW l \in Launches, TypeOK',
           VerifyOnHost(t, l) \/ HostNextPass(t, l)
    PROVE  Inductive'
<1>1. UNCHANGED <<inCall, queue, args, waits, runTick, device, outcome>>
  BY DEF VerifyOnHost, HostNextPass
<1>2. UNCHANGED <<ran, canary, seen, snapped, mending, mended, judged, result, readback, complete>>
  BY <1>1 DEF device
<1>3. UNCHANGED <<strays, called, reports, userEvent, exited>>
  BY <1>1 DEF outcome
<1>4. /\ stage[l] \in {"enqueued", "verifying"} /\ ~OnDevice(l)
      /\ stage'[l] = "verifying"
      /\ \A k \in Launches : k # l => /\ stage'[k] = stage[k]
                                      /\ pass'[k] = pass[k]
                                      /\ checkTick'[k] = checkTick[k]
  BY DEF VerifyOnHost, HostNextPass, Inductive, TypeOK, StageInv
<1>5. \A b \in Buffers : <<l, b>> \notin mending
  <2>1. CASE VerifyOnHost(t, l)
    BY <2>1 DEF VerifyOnHost, Inductive, MendInv
  <2>2. CASE HostNextPass(t, l)
    BY <2>2 DEF HostNextPass, PassDone, Inductive, MendInv
  <2> QED
    BY <2>1, <2>2
<1>6. \A b \in PassedBufs(l)' : <<l, b>> \in snapped /\ (Dirty(l, b) => <<l, b>> \in mended)
  <2>1. CASE VerifyOnHost(t, l)
    <3>1. pass'[l] = "mem"
      BY <2>1 DEF VerifyOnHost, Inductive, TypeOK
    <3> QED
      BY <3>1 DEF PassedBufs
  <2>2. CASE HostNextPass(t, l)
    <3>1. pass'[l] = NextPass(pass[l]) /\ pass[l] # "end" /\ PassDone(l) /\ stage[l] = "verifying"
      BY <2>2 DEF HostNextPass, Inductive, TypeOK
    <3>2. pass[l] \in {"mem", "img", "svm"}
      BY <3>1 DEF Inductive, TypeOK, Passes
    <3>3. PassedBufs(l)' \subseteq PassedBufs(l) \cup PassBufs(l)
      BY <1>1, <3>1, <3>2, ArgsFrame DEF PassedBufs, PassBufs, NextPass
    <3> QED
      BY <1>4, <3>1, <3>3 DEF PassDone, Inductive, HostInv
  <2> QED
    BY <2>1, <2>2
<1>7. \A k \in Launches : k # l => PassBufs(k)' = PassBufs(k) /\ PassedBufs(k)' = PassedBufs(k)
  BY <1>1, <1>4, ArgsFrame DEF PassBufs, PassedBufs
<1>8. \A k \in Launches, c \in Buffers : Dirty(k, c)' = Dirty(k, c)
  BY <1>2 DEF Dirty
<1>9. \A k, m \in Launches : Before(k, m)' = Before(k, m)
  BY <1>1, <1>2, <1>4, ArgsFrame DEF Before
<1>10. StageInv'
  BY <1>1, <1>2, <1>4, ArgsFrame DEF Inductive, StageInv
<1>11. OrderInv'
  BY <1>1, <1>4, <1>9, ArgsFrame DEF Inductive, OrderInv
<1>12. RunInv'
  BY <1>1, <1>2, <1>9 DEF Inductive, RunInv, TypeOK
<1>13. SnapInv' /\ CompleteInv'
  BY <1>1, <1>2, <1>4, ArgsFrame DEF Inductive, SnapInv, CompleteInv, TypeOK
<1>14. MendInv'
  BY <1>1, <1>2, <1>3, <1>4, <1>5, <1>7, <1>8, ArgsFrame DEF Inductive, MendInv
<1>15. HostInv'
  <2> SUFFICES ASSUME NEW k \in Launches, stage'[k] \in {"verifying", "returned"}, ~OnDevice(k),
                      NEW b \in PassedBufs(k)'
               PROVE  <<k, b>> \in snapped /\ (Dirty(k, b) => <<k, b>> \in mended)
    <3>1. \A k \in Launches : PassedBufs(k)' \subseteq Buffers
      BY <1>1, ArgsFrame, MemberTypes DEF PassedBufs
    <3> QED
      BY <1>1, <1>2, <1>8, <3>1, ArgsFrame DEF HostInv
  <2>1. CASE k = l
    BY <2>1, <1>6
  <2>2. CASE k # l
    BY <2>2, <1>4, <1>7 DEF Inductive, HostInv
  <2> QED
    BY <2>1, <2>2
<1>16. JudgedInv'
  BY ZenonT(60), <1>1, <1>2, <1>3, <1>4, <1>8, ArgsFrame, MemberTypes DEF Inductive, JudgedInv
<1>17. CanaryInv' /\ SeenInv' /\ StrayInv'
  BY <1>1, <1>2, <1>3, ArgsFrame DEF Inductive, CanaryInv, SeenInv, StrayInv
<1> QED
  BY <1>2, <1>3, <1>10, <1>11, <1>12, <1>13, <1>14, <1>15, <1>16, <1>17 DEF Inductive

\* cpu_parse_canary reports a launch's own stray and enqueues its repair.
LEMMA ParsePreserves ==
    ASSUME Inductive, Disciplined, NEW t \in Threads, NEW l \in Launches, NEW b \in Buffers, TypeOK',
           ParseCanary(t, l, b)
    PROVE  Inductive'
<1>1. /\ UNCHANGED <<inCall, queue, args, waits, stage, pass, runTick>>
      /\ UNCHANGED <<ran, canary, seen, snapped, mended, judged, result, readback, complete>>
      /\ UNCHANGED <<strays, called, userEvent>>
  BY DEF ParseCanary
<1>2. /\ reports' = reports \cup {<<l, b>>} /\ mending' = mending \cup {<<l, b>>}
      /\ stage[l] = "verifying" /\ b \in PassBufs(l) /\ Dirty(l, b)
      /\ <<l, b>> \in snapped /\ <<l, b>> \notin mended
      /\ \A k \in Launches : k # l => checkTick'[k] = checkTick[k]
  BY DEF ParseCanary, Disciplined, Inductive, TypeOK
<1>3. <<l, b>> \in strays
  BY <1>2 DEF Dirty, Inductive, SeenInv
<1>4. \A k \in Launches : PassBufs(k)' = PassBufs(k) /\ PassedBufs(k)' = PassedBufs(k)
  BY <1>1, ArgsFrame DEF PassBufs, PassedBufs
<1>5. \A k \in Launches, c \in Buffers : Dirty(k, c)' = Dirty(k, c)
  BY <1>1 DEF Dirty
<1>6. \A k, m \in Launches : Before(k, m)' = Before(k, m)
  BY <1>1, <1>2, ArgsFrame DEF Before
<1>7. StageInv'
  BY <1>1, <1>2, ArgsFrame DEF Inductive, StageInv
<1>8. OrderInv'
  BY <1>1, <1>6, ArgsFrame DEF Inductive, OrderInv
<1>9. RunInv'
  BY <1>1, <1>6 DEF Inductive, RunInv, TypeOK
<1>10. SnapInv' /\ CompleteInv'
  BY <1>1, ArgsFrame DEF Inductive, SnapInv, CompleteInv, TypeOK
<1>11. MendInv'
  BY ZenonT(60), <1>1, <1>2, <1>4, <1>5, ArgsFrame DEF Inductive, MendInv
<1>12. HostInv'
  BY <1>1, <1>4, <1>5, ArgsFrame, MemberTypes DEF Inductive, HostInv
<1>13. JudgedInv'
  BY ZenonT(60), <1>1, <1>2, <1>5, ArgsFrame, MemberTypes DEF Inductive, JudgedInv
<1>14. CanaryInv' /\ SeenInv' /\ StrayInv'
  BY <1>1, ArgsFrame DEF Inductive, CanaryInv, SeenInv, StrayInv
<1>15. result' \subseteq strays' /\ reports' \subseteq strays'
  BY <1>1, <1>2, <1>3 DEF Inductive
<1> QED
  BY <1>7, <1>8, <1>9, <1>10, <1>11, <1>12, <1>13, <1>14, <1>15 DEF Inductive

\* A host check returns with every canary it checked free of its own strays.
LEMMA ReturnPreserves ==
    ASSUME Inductive, NEW t \in Threads, NEW l \in Launches, TypeOK', HostReturn(t, l)
    PROVE  Inductive'
<1>1. /\ UNCHANGED <<queue, args, waits, pass, runTick, checkTick, clock>>
      /\ UNCHANGED <<ran, canary, seen, snapped, mending, mended, judged, result, readback>>
      /\ UNCHANGED outcome
  BY DEF HostReturn
<1>2. UNCHANGED <<strays, called, reports, userEvent, exited>>
  BY <1>1 DEF outcome
<1>3. /\ stage[l] = "verifying" /\ pass[l] = "end" /\ complete' = complete \cup {l}
      /\ stage'[l] = "returned" /\ \A k \in Launches : k # l => stage'[k] = stage[k]
      /\ ~OnDevice(l)
  BY DEF HostReturn, Leave, Inductive, TypeOK, StageInv
<1>4. \A k \in Launches : PassBufs(k)' = PassBufs(k) /\ PassedBufs(k)' = PassedBufs(k)
  BY <1>1, ArgsFrame DEF PassBufs, PassedBufs
<1>5. PassedBufs(l) = Checked(l) /\ PassBufs(l) = {}
  BY <1>3, MemberTypes DEF PassedBufs, PassBufs, Buffers
<1>6. \A b \in Checked(l) : <<l, b>> \in snapped /\ <<b, l>> \notin canary
  <2> SUFFICES ASSUME NEW b \in Checked(l)
               PROVE  <<l, b>> \in snapped /\ <<b, l>> \notin canary
    OBVIOUS
  <2>1. b \in Buffers /\ <<l, b>> \in snapped /\ (Dirty(l, b) => <<l, b>> \in mended)
    BY <1>3, <1>5, MemberTypes DEF Inductive, HostInv
  <2> QED
    BY <2>1 DEF Dirty, Inductive, CanaryInv
<1>7. \A k \in Launches, c \in Buffers : Dirty(k, c)' = Dirty(k, c)
  BY <1>1 DEF Dirty
<1>8. \A k, m \in Launches :
         /\ Before(k, m) => Before(k, m)'
         /\ Before(k, m)' => Before(k, m) \/ k = l
  BY <1>1, <1>3, ArgsFrame DEF Before
<1>9. StageInv'
  BY <1>1, <1>3, ArgsFrame DEF Inductive, StageInv
<1>10. OrderInv'
  BY <1>1, <1>3, <1>8, ArgsFrame DEF Inductive, OrderInv
<1>11. RunInv'
  BY <1>1, <1>3, <1>8 DEF Inductive, RunInv, TypeOK
<1>12. SnapInv' /\ CompleteInv'
  <2>1. SnapInv'
    BY <1>1, <1>3, ArgsFrame DEF Inductive, SnapInv
  <2>2. CompleteInv'
    BY ZenonT(60), <1>1, <1>3, <1>6, ArgsFrame DEF Inductive, CompleteInv, TypeOK
  <2> QED
    BY <2>1, <2>2
<1>13. MendInv'
  BY ZenonT(60), <1>1, <1>2, <1>3, <1>4, <1>5, <1>7, ArgsFrame DEF Inductive, MendInv
<1>14. HostInv'
  BY <1>1, <1>3, <1>4, <1>7, ArgsFrame, MemberTypes DEF Inductive, HostInv
<1>15. JudgedInv'
  BY ZenonT(60), <1>1, <1>2, <1>3, <1>7, ArgsFrame, MemberTypes DEF Inductive, JudgedInv
<1>16. CanaryInv' /\ SeenInv' /\ StrayInv'
  BY <1>1, <1>2, <1>3, <1>6, ArgsFrame DEF Inductive, CanaryInv, SeenInv, StrayInv
<1> QED
  BY <1>1, <1>2, <1>9, <1>10, <1>11, <1>12, <1>13, <1>14, <1>15, <1>16 DEF Inductive

\* The application orders a new launch after the launches it conflicts with.
LEMMA EnqueuePreserves ==
    ASSUME Inductive, Disciplined, NEW t \in Threads, NEW l \in Launches, NEW q \in Queues,
           NEW A \in SUBSET Buffers, NEW W \in SUBSET Launches, TypeOK',
           EnqueueKernel(t, l, q, A, W)
    PROVE  Inductive'
<1>1. UNCHANGED <<pass, checkTick, device, outcome>>
  BY DEF EnqueueKernel
<1>2. UNCHANGED <<ran, canary, seen, snapped, mending, mended, judged, result, readback, complete>>
  BY <1>1 DEF device
<1>3. UNCHANGED <<strays, called, reports, userEvent, exited>>
  BY <1>1 DEF outcome
<1>4. /\ stage[l] = "idle" /\ stage'[l] = "enqueued" /\ AppOrders(q, A, W)
      /\ queue'[l] = q /\ args'[l] = A /\ waits'[l] = W /\ runTick'[l] = clock + 1
      /\ \A k \in Launches : k # l => /\ stage'[k] = stage[k] /\ queue'[k] = queue[k]
                                      /\ args'[k] = args[k] /\ waits'[k] = waits[k]
                                      /\ runTick'[k] = runTick[k]
  BY DEF EnqueueKernel, Inductive, TypeOK
<1>5. \A k \in Launches : k # l =>
         /\ Checked(k)' = Checked(k) /\ OnDevice(k)' = OnDevice(k)
         /\ PassBufs(k)' = PassBufs(k) /\ PassedBufs(k)' = PassedBufs(k)
         /\ \A g \in Groups : Members(k, g)' = Members(k, g)
  BY <1>1, <1>4 DEF Checked, OnDevice, Members, CheckedOf, PassBufs, PassedBufs
<1>6. /\ l \notin ran /\ l \notin complete /\ pass[l] = "end"
      /\ \A b \in Buffers :
            /\ <<l, b>> \notin snapped /\ <<l, b>> \notin mended /\ <<l, b>> \notin mending
            /\ <<b, l>> \notin canary /\ <<l, b>> \notin strays
      /\ \A g \in Groups : <<l, g>> \notin judged /\ <<l, g>> \notin readback /\ <<l, g>> \notin called
  BY <1>4 DEF Inductive, StageInv, CompleteInv, SnapInv, MendInv, CanaryInv, StrayInv, JudgedInv
<1>7. \A k \in Launches, c \in Buffers : Dirty(k, c)' = Dirty(k, c)
  BY <1>2 DEF Dirty
<1>8. \A k, m \in Launches : k # l /\ m # l =>
         Before(k, m)' = Before(k, m) /\ Conflict(k, m)' = Conflict(k, m)
  BY <1>1, <1>2, <1>4, <1>5 DEF Before, Conflict
<1>9. \A m \in Launches : ~Before(l, m)'
  BY <1>4 DEF Before
<1>10. \A k \in Launches : k # l /\ stage[k] # "idle" /\ (Checked(k) \cap Checked(l)' # {}) => Before(k, l)'
  <2> SUFFICES ASSUME NEW k \in Launches, k # l, stage[k] # "idle", Checked(k) \cap Checked(l)' # {}
               PROVE  Before(k, l)'
    OBVIOUS
  <2>1. Checked(l)' = CheckedOf(A)
    BY <1>4 DEF Checked, CheckedOf
  <2>2. MustOrder(A, args[k])
    BY <2>1 DEF MustOrder, Disciplined, Checked
  <2>3. stage[k] = "returned" /\ (k \in complete \/ k \in W \/ (q = queue[k] /\ q \in InOrder))
    BY <1>4, <2>2 DEF AppOrders
  <2>4. k \in complete \/ (OnDevice(k) /\ 0 < checkTick[k] /\ checkTick[k] < clock + 1)
    BY <2>3 DEF Inductive, StageInv, TypeOK
  <2> QED
    BY <1>1, <1>2, <1>4, <1>5, <2>3, <2>4 DEF Before
<1>11. StageInv'
  BY <1>1, <1>2, <1>4, <1>5, <1>6 DEF Inductive, StageInv
<1>12. OrderInv'
  <2> SUFFICES ASSUME NEW k \in Launches, NEW m \in Launches,
                      stage'[k] # "idle", stage'[m] # "idle", Conflict(k, m)'
               PROVE  Before(k, m)' \/ Before(m, k)'
    BY DEF OrderInv
  <2>1. CASE k # l /\ m # l
    BY <2>1, <1>4, <1>8 DEF Inductive, OrderInv
  <2>2. CASE k = l
    BY <2>2, <1>4, <1>5, <1>10 DEF Conflict
  <2>3. CASE m = l
    BY <2>3, <1>4, <1>5, <1>10 DEF Conflict
  <2> QED
    BY <2>1, <2>2, <2>3
<1>13. RunInv'
  BY <1>2, <1>4, <1>6, <1>8, <1>9 DEF Inductive, RunInv, TypeOK
<1>14. SnapInv'
  BY <1>2, <1>4, <1>5, <1>6 DEF Inductive, SnapInv
<1>15. CompleteInv'
  BY <1>2, <1>4, <1>5, <1>6 DEF Inductive, CompleteInv, TypeOK
<1>16. MendInv'
  BY ZenonT(60), <1>2, <1>3, <1>4, <1>5, <1>6, <1>7 DEF Inductive, MendInv
<1>17. HostInv'
  BY <1>2, <1>4, <1>5, <1>7, MemberTypes DEF Inductive, HostInv
<1>18. JudgedInv'
  BY ZenonT(60), <1>2, <1>3, <1>4, <1>5, <1>6, <1>7, MemberTypes DEF Inductive, JudgedInv
<1>19. CanaryInv' /\ SeenInv' /\ StrayInv'
  BY <1>2, <1>3, <1>5, <1>6 DEF Inductive, CanaryInv, SeenInv, StrayInv
<1> QED
  BY <1>2, <1>3, <1>11, <1>12, <1>13, <1>14, <1>15, <1>16, <1>17, <1>18, <1>19 DEF Inductive

-----------------------------------------------------------------------------
(***************************************************************************)
(* The theorems.                                                           *)
(***************************************************************************)

\* Steps outside the application's calls and the device's commands.
LEMMA IdlePreserves ==
    ASSUME Inductive, TypeOK', SetUserEvent \/ UNCHANGED vars
    PROVE  Inductive'
<1>1. UNCHANGED <<app, device, strays, called, reports, exited>>
  BY DEF SetUserEvent, vars, outcome
<1>2. UNCHANGED <<inCall, queue, args, waits, stage, pass, runTick, checkTick, clock>>
  BY <1>1 DEF app
<1>3. UNCHANGED <<ran, canary, seen, snapped, mending, mended, judged, result, readback, complete>>
  BY <1>1 DEF device
<1>4. \A k \in Launches, c \in Buffers : Dirty(k, c)' = Dirty(k, c)
  BY <1>3 DEF Dirty
<1>5. StageInv' /\ OrderInv' /\ RunInv'
  BY <1>1, <1>3, OrderKept
<1>6. SnapInv' /\ CompleteInv'
  BY <1>1, <1>2, <1>3, AppFrame DEF Inductive, SnapInv, CompleteInv, TypeOK
<1>7. MendInv' /\ HostInv'
  BY <1>1, <1>2, <1>3, <1>4, AppFrame, MemberTypes DEF Inductive, MendInv, HostInv
<1>8. JudgedInv'
  BY ZenonT(60), <1>1, <1>2, <1>3, <1>4, AppFrame, MemberTypes DEF Inductive, JudgedInv
<1>9. CanaryInv' /\ SeenInv' /\ StrayInv'
  BY <1>1, <1>3, AppFrame DEF Inductive, CanaryInv, SeenInv, StrayInv
<1> QED
  BY <1>1, <1>3, <1>5, <1>6, <1>7, <1>8, <1>9 DEF Inductive

\* Before anything is enqueued the invariant holds trivially.
LEMMA InitInductive == Init => Inductive
<1> SUFFICES ASSUME Init PROVE Inductive
  OBVIOUS
<1>1. TypeOK
  BY InitTypes
<1>2. \A l \in Launches : stage[l] = "idle" /\ pass[l] = "end" /\ checkTick[l] = 0
  BY DEF Init
<1>3. StageInv /\ OrderInv /\ RunInv
  BY <1>2 DEF Init, StageInv, OrderInv, RunInv
<1>4. SnapInv /\ MendInv /\ HostInv /\ JudgedInv /\ CompleteInv
  BY <1>2 DEF Init, SnapInv, MendInv, HostInv, JudgedInv, CompleteInv
<1>5. CanaryInv /\ SeenInv /\ StrayInv
  BY DEF Init, CanaryInv, SeenInv, StrayInv
<1> QED
  BY <1>1, <1>3, <1>4, <1>5 DEF Init, Inductive

\* Every step preserves the invariant.
LEMMA NextInductive ==
    ASSUME Disciplined, Inductive, [Next]_vars
    PROVE  Inductive'
<1>1. TypeOK'
  BY NextTypes DEF Inductive
<1>2. ASSUME NEW t \in Threads, NEW l \in Launches, HostStep(t, l)
      PROVE  Inductive'
  BY <1>1, <1>2, VerifyPreserves, PassPreserves, ParsePreserves, ReturnPreserves DEF HostStep
<1>3. ASSUME NEW l \in Launches, Runtime(l)
      PROVE  Inductive'
  BY <1>1, <1>3, RunPreserves, ReadPreserves, InPlacePreserves, MendPreserves, FindPreserves,
     ReadBackPreserves, CallbackPreserves, MarkerPreserves DEF Runtime
<1> QED
  BY <1>1, <1>2, <1>3, EnqueuePreserves, IdlePreserves DEF Next

\* The invariant holds throughout, for an application that orders launches
\* whose checks meet and a detector that continues after an overflow.
THEOREM InductiveCorrect == ASSUME Disciplined PROVE Spec => []Inductive
<1>1. Inductive /\ [Next]_vars => Inductive'
  BY NextInductive
<1> QED
  BY <1>1, InitInductive, PTL DEF Spec

\* No launch is blamed for what another one did (report_kernel_overflows,
\* cpu_parse_canary).
THEOREM BlameCorrect == ASSUME Disciplined PROVE Spec => []Blame
<1>1. Inductive => Blame
  BY DEF Inductive, Blame
<1> QED
  BY <1>1, InductiveCorrect, PTL

\* When the event returned for a launch completes, its strays are repaired
\* (mendCanaryRegion before the marker).
THEOREM CleanAtReturnCorrect == ASSUME Disciplined PROVE Spec => []CleanAtReturn
<1>1. Inductive => CleanAtReturn
  BY DEF Inductive, CanaryInv, CleanAtReturn, TypeOK
<1> QED
  BY <1>1, InductiveCorrect, PTL

\* A launch whose verdict is given has had each of its strays reported.
LEMMA VerdictComplete == Inductive => NothingMissed
<1> SUFFICES ASSUME Inductive, NEW l \in Launches, NEW b \in Buffers, <<l, b>> \in strays, Delivered(l)
             PROVE  <<l, b>> \in reports
  BY DEF NothingMissed
<1>1. b \in Checked(l) /\ (<<l, b>> \in snapped => Dirty(l, b)) /\ stage[l] = "returned"
  BY DEF Inductive, StrayInv, CanaryInv, Dirty, Delivered
<1>2. CASE OnDevice(l)
  <2>1. GroupOf(b) \in Groups /\ b \in Members(l, GroupOf(b))
    BY <1>1, MemberTypes
  <2>2. <<l, GroupOf(b)>> \in called
    BY <1>2, <2>1 DEF Delivered
  <2> QED
    BY <1>1, <2>1, <2>2 DEF Inductive, JudgedInv
<1>3. CASE ~OnDevice(l)
  <2>1. b \in PassedBufs(l)
    BY <1>1, <1>3 DEF Inductive, StageInv, PassedBufs, Buffers
  <2> QED
    BY <1>1, <1>3, <2>1 DEF Inductive, HostInv, MendInv
<1> QED
  BY <1>2, <1>3

\* No repair and no other check swallows a stray write before it is reported.
THEOREM NothingMissedCorrect == ASSUME Disciplined PROVE Spec => []NothingMissed
BY VerdictComplete, InductiveCorrect, PTL

\* A repair only removes strays that the check doing it has read.
LEMMA RepairSees ==
    ASSUME Inductive, NEW l \in Launches, NEW b \in Buffers, NEW x \in Launches, <<b, x>> \in canary,
           MendCanary(l, b) \/ MendOnHost(l, b) \/ CheckInPlace(l, b)
    PROVE  <<x, b, x>> \in seen'
<1>1. CASE CheckInPlace(l, b)
  <2>1. l \in ran /\ <<l, b>> \notin snapped /\ b \in Checked(l) /\ seen' = Observe(l, b)
    BY <1>1 DEF CheckInPlace
  <2>2. l \notin complete
    BY <2>1 DEF Inductive, CompleteInv
  <2> QED
    BY <2>1, <2>2, OwnCanary DEF Observe
<1>2. CASE MendCanary(l, b) \/ MendOnHost(l, b)
  <2>1. <<l, b>> \in snapped /\ l \notin complete /\ UNCHANGED seen
    BY <1>2 DEF MendCanary, MendOnHost, Inductive, MendInv, CompleteInv
  <2>2. l \in ran /\ b \in Checked(l)
    BY <2>1 DEF Inductive, SnapInv
  <2> QED
    BY <2>1, <2>2, OwnCanary DEF Inductive, CanaryInv
<1> QED
  BY <1>1, <1>2

\* A stray write is repaired only after the check of its own launch has read
\* it (the fill waits for the copy's event).
THEOREM EvidenceKeptCorrect == ASSUME Disciplined PROVE Spec => EvidenceKept
<1> DEFINE Kept == \A b \in Buffers, x \in Launches : <<b, x>> \in canary \ canary' => <<x, b, x>> \in seen'
<1>1. Inductive /\ [Next]_vars => [Kept]_vars
  <2> SUFFICES ASSUME Inductive, Next, NEW c \in Buffers, NEW x \in Launches, <<c, x>> \in canary \ canary'
               PROVE  <<x, c, x>> \in seen'
    OBVIOUS
  <2>1. PICK l \in Launches, b \in Buffers :
           MendCanary(l, b) \/ MendOnHost(l, b) \/ CheckInPlace(l, b)
    <3>1. ASSUME NEW t \in Threads, NEW l \in Launches, HostStep(t, l)
          PROVE  UNCHANGED canary
      BY <3>1 DEF HostStep, VerifyNothing, VerifyOnGpu, VerifyOnHost, HostNextPass, HostReturn,
                  ParseCanary, device
    <3>2. ASSUME NEW t \in Threads, NEW l \in Launches, NEW q \in Queues,
                 NEW A \in SUBSET Buffers, NEW W \in SUBSET Launches, EnqueueKernel(t, l, q, A, W)
          PROVE  UNCHANGED canary
      BY <3>2 DEF EnqueueKernel, device
    <3>3. CASE SetUserEvent
      BY <3>3 DEF SetUserEvent, device
    <3>4. ASSUME NEW l \in Launches, Runtime(l),
                 ~\E b \in Buffers : MendCanary(l, b) \/ MendOnHost(l, b) \/ CheckInPlace(l, b)
          PROVE  canary \subseteq canary'
      <4>1. ASSUME NEW S \in SUBSET Buffers, RunKernel(l, S)
            PROVE  canary \subseteq canary'
        BY <4>1 DEF RunKernel
      <4>2. ASSUME NEW b \in Buffers, CopyCanary(l, b) \/ ReadCanary(l, b)
            PROVE  canary \subseteq canary'
        BY <4>2 DEF CopyCanary, ReadCanary
      <4>3. ASSUME NEW g \in Groups, FindCorruption(l, g) \/ ReadBack(l, g) \/ VerifyCallback(l, g)
            PROVE  canary \subseteq canary'
        BY <4>3 DEF FindCorruption, ReadBack, VerifyCallback, device
      <4>4. CASE FinishMarker(l)
        BY <4>4 DEF FinishMarker
      <4> QED
        BY <3>4, <4>1, <4>2, <4>3, <4>4 DEF Runtime
    <3> QED
      BY <3>1, <3>2, <3>3, <3>4 DEF Next
  <2>2. canary' = Repaired(b)
    BY <2>1 DEF MendCanary, MendOnHost, CheckInPlace
  <2>3. c = b
    BY <2>2 DEF Repaired
  <2> QED
    BY <2>1, <2>3, RepairSees
<1> QED
  BY <1>1, InductiveCorrect, PTL DEF Spec, EvidenceKept

-----------------------------------------------------------------------------
(***************************************************************************)
(* KernelLaunch implements OverflowReport.                                 *)
(***************************************************************************)

\* A step either enqueues a kernel or leaves all kernels' arguments alone.
LEMMA ArgsChange ==
    ASSUME [Next]_vars
    PROVE  \/ UNCHANGED args
           \/ \E t \in Threads, l \in Launches, q \in Queues, A \in SUBSET Buffers, W \in SUBSET Launches :
                 EnqueueKernel(t, l, q, A, W)
<1>1. ASSUME NEW t \in Threads, NEW l \in Launches, HostStep(t, l)
      PROVE  UNCHANGED args
  BY <1>1 DEF HostStep, VerifyNothing, VerifyOnGpu, VerifyOnHost, HostNextPass, HostReturn, ParseCanary
<1>2. ASSUME NEW l \in Launches, Runtime(l)
      PROVE  UNCHANGED args
  BY <1>2 DEF Runtime, RunKernel, CopyCanary, ReadCanary, CheckInPlace, MendCanary, MendOnHost,
              FindCorruption, ReadBack, VerifyCallback, FinishMarker, app
<1> QED
  BY <1>1, <1>2 DEF Next, SetUserEvent, vars, app

\* Only groups with something to check are judged, in any behaviour.
LEMMA GroupStep ==
    ASSUME Inductive, GroupInv, [Next]_vars
    PROVE  GroupInv'
<1>1. ASSUME NEW t \in Threads, NEW l \in Launches, NEW q \in Queues,
             NEW A \in SUBSET Buffers, NEW W \in SUBSET Launches, EnqueueKernel(t, l, q, A, W)
      PROVE  GroupInv'
  <2>1. UNCHANGED judged /\ stage[l] = "idle" /\ \A k \in Launches : k # l => args'[k] = args[k]
    BY <1>1 DEF EnqueueKernel, device, Inductive, TypeOK
  <2>2. \A g \in Groups : <<l, g>> \notin judged
    BY <2>1 DEF Inductive, JudgedInv
  <2>3. \A k \in Launches, g \in Groups : k # l => Members(k, g)' = Members(k, g)
    BY <2>1 DEF Members, Checked, CheckedOf
  <2> QED
    BY <2>1, <2>2, <2>3 DEF GroupInv
<1>2. CASE UNCHANGED args
  <2>1. ASSUME NEW l \in Launches, NEW g \in Groups, FindCorruption(l, g)
        PROVE  GroupInv'
    BY <2>1, <1>2, ArgsFrame DEF FindCorruption, GroupInv
  <2>2. CASE UNCHANGED judged
    BY <1>2, <2>2, ArgsFrame DEF GroupInv
  <2>3. ASSUME NEW t \in Threads, NEW l \in Launches, HostStep(t, l)
        PROVE  UNCHANGED judged
    BY <2>3 DEF HostStep, VerifyNothing, VerifyOnGpu, VerifyOnHost, HostNextPass, HostReturn,
                ParseCanary, device
  <2>4. ASSUME NEW l \in Launches, Runtime(l)
        PROVE  UNCHANGED judged \/ \E g \in Groups : FindCorruption(l, g)
    BY <2>4 DEF Runtime, RunKernel, CopyCanary, ReadCanary, CheckInPlace, MendCanary, MendOnHost,
                ReadBack, VerifyCallback, FinishMarker, device
  <2> QED
    BY <1>1, <2>1, <2>2, <2>3, <2>4 DEF Next, SetUserEvent, vars, device
<1> QED
  BY <1>1, <1>2, ArgsChange

\* Host calls that say nothing about an overflow are silent for the promise,
\* or close a launch all of whose strays are reported.
LEMMA HostKeepsPromise ==
    ASSUME Disciplined, Inductive, NothingMissed', NEW t \in Threads, NEW l \in Launches, HostStep(t, l)
    PROVE  [Promise!Next]_(Promise!vars)
<1> DEFINE Closed == {k \in ran : Delivered(k)}
<1>1. CASE VerifyNothing(t, l) \/ VerifyOnGpu(t, l) \/ VerifyOnHost(t, l) \/ HostNextPass(t, l) \/ HostReturn(t, l)
  <2>1. UNCHANGED <<args, ran, strays, called, reports>>
    BY <1>1 DEF VerifyNothing, VerifyOnGpu, VerifyOnHost, HostNextPass, HostReturn, device, outcome
  <2>2. /\ stage[l] # "returned" /\ \A k \in Launches : k # l => stage'[k] = stage[k]
    BY <1>1 DEF VerifyNothing, VerifyOnGpu, VerifyOnHost, HostNextPass, HostReturn, Leave, Inductive, TypeOK
  <2>3. ~Delivered(l) /\ \A k \in Launches : k # l => Delivered(k)' = Delivered(k)
    BY <2>1, <2>2, ArgsFrame DEF Delivered
  <2>4. Closed' = Closed \/ (Closed' = Closed \cup {l} /\ l \in ran \ Closed /\ Delivered(l)')
    BY <2>1, <2>3 DEF Inductive, TypeOK
  <2>5. CASE Closed' = Closed
    BY <2>1, <2>5 DEF Promise!vars
  <2>6. CASE Closed' = Closed \cup {l} /\ l \in ran \ Closed /\ Delivered(l)'
    <3>1. Promise!Settled(l)
      BY <2>6 DEF Promise!Settled, NothingMissed
    <3>2. Promise!Judge(l, {})
      BY <2>1, <2>6, <3>1 DEF Promise!Judge, Promise!CloseIfSettled
    <3> QED
      BY <3>2 DEF Promise!Next
  <2> QED
    BY <2>4, <2>5, <2>6
<1>2. ASSUME NEW b \in Buffers, ParseCanary(t, l, b)
      PROVE  [Promise!Next]_(Promise!vars)
  <2>1. /\ UNCHANGED <<args, stage, ran, strays, called>> /\ reports' = reports \cup {<<l, b>>}
        /\ stage[l] = "verifying" /\ b \in PassBufs(l) /\ Dirty(l, b)
        /\ <<l, b>> \in snapped
    BY <1>2 DEF ParseCanary
  <2>2. <<l, b>> \in strays /\ l \in ran
    BY <2>1 DEF Dirty, Inductive, SeenInv, SnapInv
  <2>3. ~Delivered(l) /\ \A k \in Launches : Delivered(k)' = Delivered(k)
    BY <2>1, ArgsFrame DEF Delivered
  <2>4. Closed' = Closed /\ l \notin Closed
    BY <2>1, <2>3 DEF Inductive, TypeOK
  <2>5. Promise!Judge(l, {b})
    BY <2>1, <2>2, <2>4 DEF Promise!Judge, Promise!CloseIfSettled
  <2> QED
    BY <2>5 DEF Promise!Next
<1> QED
  BY <1>1, <1>2 DEF HostStep

\* Running a kernel is the promise's Run, a callback its Judge, and the other
\* commands are silent.
LEMMA RuntimeKeepsPromise ==
    ASSUME Disciplined, Inductive, GroupInv, NothingMissed', NEW l \in Launches, Runtime(l)
    PROVE  [Promise!Next]_(Promise!vars)
<1> DEFINE Closed == {k \in ran : Delivered(k)}
<1>1. UNCHANGED <<args, stage>>
  BY DEF Runtime, RunKernel, CopyCanary, ReadCanary, CheckInPlace, MendCanary, MendOnHost,
         FindCorruption, ReadBack, VerifyCallback, FinishMarker, app
<1>2. CASE UNCHANGED <<ran, strays, called, reports>>
  <2>1. \A k \in Launches : Delivered(k)' = Delivered(k)
    BY <1>1, <1>2, ArgsFrame DEF Delivered
  <2>2. Closed' = Closed
    BY <1>2, <2>1 DEF Inductive, TypeOK
  <2> QED
    BY <1>2, <2>2 DEF Promise!vars
<1>3. ASSUME NEW S \in SUBSET Buffers, RunKernel(l, S)
      PROVE  [Promise!Next]_(Promise!vars)
  <2>1. /\ ran' = ran \cup {l} /\ l \notin ran /\ UNCHANGED <<called, reports>>
        /\ strays' = strays \cup {<<l, b>> : b \in S}
    BY <1>3 DEF RunKernel
  <2>2. \A k \in Launches : Delivered(k)' = Delivered(k)
    BY <1>1, <2>1, ArgsFrame DEF Delivered
  <2>3. Closed' = Closed \/ (Closed' = Closed \cup {l} /\ Delivered(l)')
    BY <2>1, <2>2 DEF Inductive, TypeOK
  <2>4. Delivered(l)' => Promise!Settled(l)
    BY DEF Promise!Settled, NothingMissed
  <2>5. Promise!Run(l, S)
    BY <2>1, <2>3, <2>4 DEF Promise!Run, Promise!CloseIfSettled
  <2> QED
    BY <2>5 DEF Promise!Next
<1>4. ASSUME NEW g \in Groups, VerifyCallback(l, g)
      PROVE  [Promise!Next]_(Promise!vars)
  <2> DEFINE found == {b \in Members(l, g) : <<l, b>> \in result}
  <2>1. /\ called' = called \cup {<<l, g>>} /\ <<l, g>> \in readback /\ <<l, g>> \notin called
        /\ reports' = reports \cup {<<l, b>> : b \in found}
    BY <1>4, Zenon DEF VerifyCallback
  <2>2. UNCHANGED <<ran, strays>>
    BY <1>4 DEF VerifyCallback, device
  <2>3. found \subseteq Buffers /\ {<<l, b>> : b \in found} \subseteq strays
    BY MemberTypes DEF Inductive
  <2> HIDE DEF found
  <2>4. <<l, g>> \in judged /\ Members(l, g) # {} /\ OnDevice(l)
    BY <2>1 DEF Inductive, JudgedInv, GroupInv
  <2>5. l \in ran
    BY <2>4, MemberTypes DEF Inductive, JudgedInv, SnapInv
  <2>6. ~Delivered(l) /\ \A k \in Launches : k # l => Delivered(k)' = Delivered(k)
    BY <1>1, <2>1, <2>4, ArgsFrame DEF Delivered
  <2>7. l \notin Closed /\ (Closed' = Closed \/ (Closed' = Closed \cup {l} /\ Delivered(l)'))
    BY <2>2, <2>6 DEF Inductive, TypeOK
  <2>8. Delivered(l)' => Promise!Settled(l)
    BY DEF Promise!Settled, NothingMissed
  <2>9. Promise!Judge(l, found)
    BY <2>1, <2>2, <2>3, <2>5, <2>7, <2>8 DEF Promise!Judge, Promise!CloseIfSettled
  <2> QED
    BY <2>3, <2>9 DEF Promise!Next
<1>5. \/ UNCHANGED <<ran, strays, called, reports>>
      \/ \E S \in SUBSET Buffers : RunKernel(l, S)
      \/ \E g \in Groups : VerifyCallback(l, g)
  BY DEF Runtime, CopyCanary, ReadCanary, CheckInPlace, MendCanary, MendOnHost,
         FindCorruption, ReadBack, FinishMarker, outcome
<1> QED
  BY <1>2, <1>3, <1>4, <1>5

\* The wrapper, the runtime and the callbacks together implement the promise
\* of OverflowReport: verdicts are final, complete and accuse nobody wrongly.
THEOREM KeepsPromiseCorrect == ASSUME Disciplined PROVE Spec => KeepsPromise
<1> DEFINE Closed == {k \in ran : Delivered(k)}
<1>1. Init => Promise!Init
  BY DEF Init, Promise!Init
<1>2. Init => GroupInv
  BY DEF Init, GroupInv
<1>3. Inductive /\ GroupInv /\ NothingMissed' /\ [Next]_vars => [Promise!Next]_(Promise!vars)
  <2> SUFFICES ASSUME Inductive, GroupInv, NothingMissed', [Next]_vars
               PROVE  [Promise!Next]_(Promise!vars)
    OBVIOUS
  <2>1. ASSUME NEW t \in Threads, NEW l \in Launches, NEW q \in Queues,
               NEW A \in SUBSET Buffers, NEW W \in SUBSET Launches, EnqueueKernel(t, l, q, A, W)
        PROVE  UNCHANGED Promise!vars
    <3>1. /\ UNCHANGED <<ran, strays, called, reports>> /\ stage[l] = "idle"
          /\ \A k \in Launches : k # l => args'[k] = args[k] /\ stage'[k] = stage[k]
      BY <2>1 DEF EnqueueKernel, device, outcome, Inductive, TypeOK
    <3>2. \A k \in ran : k # l /\ k \in Launches
      BY <3>1 DEF Inductive, StageInv, TypeOK
    <3>3. \A k \in Launches : k # l => Delivered(k)' = Delivered(k)
      BY <3>1 DEF Delivered, OnDevice, Members, Checked, CheckedOf
    <3>4. Closed' = Closed
      BY <3>1, <3>2, <3>3
    <3> QED
      BY <3>1, <3>4 DEF Promise!vars
  <2>2. CASE SetUserEvent \/ UNCHANGED vars
    <3>1. UNCHANGED <<args, stage, ran, strays, called, reports>>
      BY <2>2 DEF SetUserEvent, vars, app, device, outcome
    <3>2. \A k \in Launches : Delivered(k)' = Delivered(k)
      BY <3>1, ArgsFrame DEF Delivered
    <3>3. Closed' = Closed
      BY <3>1, <3>2 DEF Inductive, TypeOK
    <3> QED
      BY <3>1, <3>3 DEF Promise!vars
  <2> QED
    BY <2>1, <2>2, HostKeepsPromise, RuntimeKeepsPromise DEF Next
<1>4. Inductive /\ GroupInv /\ [Next]_vars => GroupInv'
  BY GroupStep
<1> QED
  BY <1>1, <1>2, <1>3, <1>4, InductiveCorrect, NothingMissedCorrect, PTL DEF Spec, KeepsPromise, Promise!Spec
=============================================================================
