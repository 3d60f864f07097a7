---------------------------- MODULE KernelLaunch ----------------------------
(***************************************************************************)
(* The core of clARMOR: what happens around one clEnqueueNDRangeKernel.    *)
(*                                                                         *)
(* A host thread enqueues the application's kernel, then enqueues (device  *)
(* checks) or performs (host checks) the verification of the canaries of   *)
(* every buffer the kernel could touch.  The commands run asynchronously,  *)
(* ordered only by the events they wait on and by in-order queues; the     *)
(* findings of a device check are reported by a callback on a runtime      *)
(* thread.  A canary's contents are abstracted to the set of launches      *)
(* whose stray writes sit in it (none: the poison value is intact), which  *)
(* is what makes "who is blamed" a state predicate.                        *)
(*                                                                         *)
(* All buffers, queues and kernels belong to one context.                  *)
(***************************************************************************)
EXTENDS Naturals

CONSTANTS
    Threads,         \* application threads that call clEnqueueNDRangeKernel
    Launches,        \* the launches the application may make, each once
    NoLaunch,        \* a thread that is not inside the wrapper
    Queues,          \* command queues of the context
    InOrder,         \* those created without CL_QUEUE_OUT_OF_ORDER_EXEC_MODE
    FillQueue,       \* the queue cached for the context (getCommandQueueForContext)
    MemBufs,         \* cl_mem buffers that have canaries
    SvmBufs,         \* live SVM allocations that are not the detector's own
    Images,          \* images that have canaries
    DeviceSelect,    \* CLARMOR_DEVICE_SELECT: "auto", "device" or "host"
    CpuDevice,       \* the queue's device is a CL_DEVICE_TYPE_CPU
    Strategy,        \* CLARMOR_ALTERNATE_GPU_DETECTION: "copy", "svmptr" or "single"
    ExitOnOverflow,  \* CLARMOR_EXIT_ON_OVERFLOW (get_error_envvar)
    Ordering,        \* how the application orders launches: see MustOrder
    Gated,           \* launches that wait for a user event of the application
    WaitsFirst       \* the application sets that event after its other launches

Buffers == MemBufs \cup SvmBufs \cup Images

ASSUME ConstantsAssumption ==
    /\ NoLaunch \notin Launches
    /\ InOrder \subseteq Queues
    /\ FillQueue \in Queues
    /\ MemBufs \cap SvmBufs = {} /\ MemBufs \cap Images = {} /\ SvmBufs \cap Images = {}
    /\ DeviceSelect \in {"auto", "device", "host"}
    /\ CpuDevice \in BOOLEAN
    /\ Strategy \in {"copy", "svmptr", "single"}
    /\ ExitOnOverflow \in BOOLEAN
    /\ Ordering \in {"none", "args", "checked"}
    /\ Gated \subseteq Launches
    /\ WaitsFirst \in BOOLEAN

VARIABLES
    inCall,     \* thread -> the launch it is inside the wrapper for
    queue,      \* launch -> queue
    args,       \* launch -> buffers its kernel was given
    waits,      \* launch -> launches whose returned events it waits on
    stage,      \* launch -> how far its wrapper call has got
    pass,       \* launch -> which kind of object a host check is at
    runTick,    \* launch -> when its kernel was enqueued (0: not yet)
    checkTick,  \* launch -> when its check commands were enqueued (0: not yet)
    clock,      \* number of enqueues so far
    ran,        \* launches whose kernel has finished
    canary,     \* <<b, x>>: a stray write of launch x sits in b's canary
    strays,     \* <<x, b>>: launch x wrote into b's canary (history)
    seen,       \* <<l, b, x>>: the check of l read x's stray from b's canary
    snapped,    \* <<l, b>>: the check of l has read b's canary
    mending,    \* <<l, b>>: a host check of l has enqueued a repair of b
    mended,     \* <<l, b>>: the check of l has repaired b's canary
    judged,     \* <<l, g>>: the checker kernel of group g has finished
    result,     \* <<l, b>>: first_change of b is not INT_MAX
    readback,   \* <<l, g>>: the result of group g has been read back
    complete,   \* launches whose returned event is complete
    called,     \* <<l, g>>: verify_callback has run for group g
    reports,    \* <<l, b>>: an overflow of b was reported against launch l
    userEvent,  \* the application's user event has been set
    exited      \* optionalKillOnOverflow ended the process

app     == <<inCall, queue, args, waits, stage, pass, runTick, checkTick, clock>>
device  == <<ran, canary, seen, snapped, mending, mended, judged, result, readback, complete>>
outcome == <<strays, called, reports, userEvent, exited>>
vars    == <<app, device, outcome>>

Groups == {"buf", "svm", "img"}
Passes == {"mem", "img", "svm", "end"}
Stages == {"idle", "enqueued", "verifying", "returned"}

-----------------------------------------------------------------------------
(***************************************************************************)
(* What a launch checks, and where.                                        *)
(***************************************************************************)

\* The objects verifyBufferInBounds collects for a kernel given the buffers A:
\* every distinct cl_mem argument, and all live SVM once one argument is SVM.
CheckedOf(A) ==
    (A \cap (MemBufs \cup Images)) \cup (IF A \cap SvmBufs # {} THEN SvmBufs ELSE {})

Checked(l) == CheckedOf(args[l])

\* Whether the checks run on the device: the test of verifyBufferInBounds.
OnDevice(l) ==
    /\ ~CpuDevice
    /\ \/ Checked(l) \cap (SvmBufs \cup Images) # {} /\ DeviceSelect # "host"
       \/ Checked(l) # {} /\ DeviceSelect = "device"

\* The objects one checker kernel, one readback and one callback stand for:
\* copy_canary checks cl_mem and SVM together, single_buffer each kind alone.
GroupOf(b) ==
    IF b \in Images THEN "img"
    ELSE IF b \in SvmBufs /\ Strategy = "single" THEN "svm" ELSE "buf"

Members(l, g) == {b \in Checked(l) : GroupOf(b) = g}

\* Checked where it lies, by a kernel that repairs what it finds: buffers of
\* the single_buffer strategy, SVM when only its pointers are copied.
InPlace(b) ==
    \/ Strategy = "single" /\ b \notin Images
    \/ Strategy = "svmptr" /\ b \in SvmBufs

\* Repaired by a fill on the context's cached queue.
FillMended(b) == ~InPlace(b) /\ ~ExitOnOverflow

\* The objects a host check is reading or repairing.
PassBufs(l) ==
    {b \in Checked(l) : \/ pass[l] = "mem" /\ b \in MemBufs
                        \/ pass[l] = "img" /\ b \in Images
                        \/ pass[l] = "svm" /\ b \in SvmBufs}

\* Commands of launch l that are still outstanding on the cached queue.
FillPending(l) ==
    IF OnDevice(l)
    THEN {b \in Checked(l) : FillMended(b) /\ <<l, b>> \notin mended}
    ELSE {b \in PassBufs(l) : <<l, b>> \notin snapped \/ <<l, b>> \in mending}

\* A command enqueued on q at tick n may start: an in-order queue first
\* finishes what was enqueued on it earlier.
QueueReady(q, n) ==
    q \in InOrder =>
        \A k \in Launches :
            /\ (queue[k] = q /\ runTick[k] \in 1 .. (n - 1)) => k \in ran
            /\ (queue[k] = q /\ checkTick[k] \in 1 .. (n - 1) /\ OnDevice(k)) => k \in complete
            /\ (FillQueue = q /\ checkTick[k] \in 1 .. (n - 1)) => FillPending(k) = {}

-----------------------------------------------------------------------------
(***************************************************************************)
(* Host: the application and the wrapper's part of the call.               *)
(***************************************************************************)

Init ==
    /\ inCall = [t \in Threads |-> NoLaunch]
    /\ queue = [l \in Launches |-> FillQueue]
    /\ args = [l \in Launches |-> {}]
    /\ waits = [l \in Launches |-> {}]
    /\ stage = [l \in Launches |-> "idle"]
    /\ pass = [l \in Launches |-> "end"]
    /\ runTick = [l \in Launches |-> 0]
    /\ checkTick = [l \in Launches |-> 0]
    /\ clock = 0
    /\ ran = {} /\ canary = {} /\ seen = {} /\ snapped = {} /\ mending = {} /\ mended = {}
    /\ judged = {} /\ result = {} /\ readback = {} /\ complete = {}
    /\ strays = {} /\ called = {} /\ reports = {}
    /\ userEvent = FALSE /\ exited = FALSE

\* Which pairs of launches the application orders: none beyond what OpenCL
\* needs for the data ("none": an in-order queue does it), those that share
\* an argument, or those whose checks touch a common object.
MustOrder(A, B) ==
    \/ Ordering = "args" /\ A \cap B # {}
    \/ Ordering = "checked" /\ CheckedOf(A) \cap CheckedOf(B) # {}

\* The application orders a launch on q after the launches W and after what
\* its in-order queue already holds.
AppOrders(q, A, W) ==
    \A k \in Launches :
        stage[k] # "idle" /\ MustOrder(A, args[k]) =>
            /\ stage[k] = "returned"
            /\ k \in complete \/ k \in W \/ (q = queue[k] /\ q \in InOrder)

\* Launches whose call has given the application an event to wait on.
Returned == {k \in Launches : stage[k] = "returned" /\ Checked(k) # {}}

\* Mutant: the enqueue takes a tick without counting it.
EnqueueKernelUncounted(t, l, q, A, W) ==
    /\ inCall[t] = NoLaunch /\ stage[l] = "idle"
    /\ W \subseteq Returned /\ AppOrders(q, A, W)
    /\ inCall' = [inCall EXCEPT ![t] = l]
    /\ queue' = [queue EXCEPT ![l] = q]
    /\ args' = [args EXCEPT ![l] = A]
    /\ waits' = [waits EXCEPT ![l] = W]
    /\ stage' = [stage EXCEPT ![l] = "enqueued"]
    /\ runTick' = [runTick EXCEPT ![l] = clock + 1]
    /\ UNCHANGED <<clock, pass, checkTick, device, outcome>>

\* kernelLaunchFunc up to runNDRangeKernel: the kernel itself is enqueued.
EnqueueKernel(t, l, q, A, W) ==
    /\ ~exited
    /\ inCall[t] = NoLaunch
    /\ stage[l] = "idle"
    /\ W \subseteq Returned
    /\ AppOrders(q, A, W)
    /\ inCall' = [inCall EXCEPT ![t] = l]
    /\ queue' = [queue EXCEPT ![l] = q]
    /\ args' = [args EXCEPT ![l] = A]
    /\ waits' = [waits EXCEPT ![l] = W]
    /\ stage' = [stage EXCEPT ![l] = "enqueued"]
    /\ clock' = clock + 1
    /\ runTick' = [runTick EXCEPT ![l] = clock']
    /\ UNCHANGED <<pass, checkTick, device, outcome>>

\* The call is over: the thread runs application code again.
Leave(t, l) ==
    /\ inCall' = [inCall EXCEPT ![t] = NoLaunch]
    /\ stage' = [stage EXCEPT ![l] = "returned"]

\* verifyBufferInBounds with nothing to check enqueues nothing.
VerifyNothing(t, l) ==
    /\ ~exited
    /\ inCall[t] = l /\ stage[l] = "enqueued"
    /\ Checked(l) = {}
    /\ Leave(t, l)
    /\ UNCHANGED <<queue, args, waits, pass, runTick, checkTick, clock, device, outcome>>

\* verify_on_gpu_*: enqueue the check commands, register the callbacks, return.
VerifyOnGpu(t, l) ==
    /\ ~exited
    /\ inCall[t] = l /\ stage[l] = "enqueued"
    /\ OnDevice(l)
    /\ Leave(t, l)
    /\ clock' = clock + 1
    /\ checkTick' = [checkTick EXCEPT ![l] = clock']
    /\ UNCHANGED <<queue, args, waits, pass, runTick, device, outcome>>

\* verify_buffer_on_host: the thread stays in the call, one kind at a time.
VerifyOnHost(t, l) ==
    /\ ~exited
    /\ inCall[t] = l /\ stage[l] = "enqueued"
    /\ Checked(l) # {} /\ ~OnDevice(l)
    /\ stage' = [stage EXCEPT ![l] = "verifying"]
    /\ pass' = [pass EXCEPT ![l] = "mem"]
    /\ clock' = clock + 1
    /\ checkTick' = [checkTick EXCEPT ![l] = clock']
    /\ UNCHANGED <<inCall, queue, args, waits, runTick, device, outcome>>

\* The copy of b's canary that the check of l works on shows a stray write.
Dirty(l, b) == \E x \in Launches : <<l, b, x>> \in seen

\* cpu_parse_canary on a bad word: report, maybe exit, enqueue the repair.
ParseCanary(t, l, b) ==
    /\ ~exited
    /\ inCall[t] = l /\ stage[l] = "verifying"
    /\ b \in PassBufs(l)
    /\ \A c \in PassBufs(l) : <<l, c>> \in snapped /\ <<l, c>> \notin mending
    /\ Dirty(l, b) /\ <<l, b>> \notin mended
    /\ reports' = reports \cup {<<l, b>>}
    /\ IF ExitOnOverflow
       THEN exited' = TRUE /\ UNCHANGED <<mending, clock, checkTick>>
       ELSE /\ mending' = mending \cup {<<l, b>>}
            /\ clock' = clock + 1
            /\ checkTick' = [checkTick EXCEPT ![l] = clock']
            /\ UNCHANGED exited
    /\ UNCHANGED <<inCall, queue, args, waits, stage, pass, runTick>>
    /\ UNCHANGED <<ran, canary, seen, snapped, mended, judged, result, readback, complete>>
    /\ UNCHANGED <<strays, called, userEvent>>

NextPass(p) == IF p = "mem" THEN "img" ELSE IF p = "img" THEN "svm" ELSE "end"

\* Mutant: the thread goes on without waiting for the fill it enqueued.
PassDoneUnblocked(l) == \A b \in PassBufs(l) : <<l, b>> \in snapped

\* All objects of this kind are read, and the damaged ones repaired.
PassDone(l) ==
    \A b \in PassBufs(l) : <<l, b>> \in snapped /\ (Dirty(l, b) => <<l, b>> \in mended)

\* verify_cl_mem, verify_images and verify_svm follow one another.
HostNextPass(t, l) ==
    /\ ~exited
    /\ inCall[t] = l /\ stage[l] = "verifying"
    /\ pass[l] # "end" /\ PassDone(l)
    /\ pass' = [pass EXCEPT ![l] = NextPass(pass[l])]
    /\ clock' = clock + 1
    /\ checkTick' = [checkTick EXCEPT ![l] = clock']
    /\ UNCHANGED <<inCall, queue, args, waits, stage, runTick, device, outcome>>

\* Mutant: a user event is handed out but never set complete.
HostReturnUnset(t, l) ==
    /\ ~exited
    /\ inCall[t] = l /\ stage[l] = "verifying" /\ pass[l] = "end"
    /\ Leave(t, l)
    /\ UNCHANGED <<queue, args, waits, pass, runTick, checkTick, clock, device, outcome>>

\* After a host check the event handed out is a user event already complete.
HostReturn(t, l) ==
    /\ ~exited
    /\ inCall[t] = l /\ stage[l] = "verifying" /\ pass[l] = "end"
    /\ Leave(t, l)
    /\ complete' = complete \cup {l}
    /\ UNCHANGED <<queue, args, waits, pass, runTick, checkTick, clock>>
    /\ UNCHANGED <<ran, canary, seen, snapped, mending, mended, judged, result, readback>>
    /\ UNCHANGED outcome

\* Nothing the application did makes l depend on a gated launch.
Ungated(l) ==
    /\ l \notin Gated /\ waits[l] = {}
    /\ \A k \in Gated : stage[k] # "idle" => queue[k] # queue[l]

\* The application sets the user event its gated launches wait for, perhaps
\* only after the launches that do not depend on it are complete.
SetUserEvent ==
    /\ ~exited
    /\ Gated # {} /\ ~userEvent
    /\ WaitsFirst =>
           /\ \A t \in Threads : inCall[t] = NoLaunch
           /\ \A l \in Launches : Ungated(l) /\ stage[l] # "idle" /\ Checked(l) # {} => l \in complete
    /\ userEvent' = TRUE
    /\ UNCHANGED <<app, device, strays, called, reports, exited>>

-----------------------------------------------------------------------------
(***************************************************************************)
(* Runtime: commands that run when their events and their queue let them.  *)
(***************************************************************************)

\* The application's kernel runs and writes into the canaries of S.
RunKernel(l, S) ==
    /\ ~exited
    /\ stage[l] # "idle" /\ l \notin ran
    /\ waits[l] \subseteq complete
    /\ l \in Gated => userEvent
    /\ QueueReady(queue[l], runTick[l])
    /\ S \subseteq args[l]
    /\ ran' = ran \cup {l}
    /\ canary' = canary \cup {<<b, l>> : b \in S}
    /\ strays' = strays \cup {<<l, b>> : b \in S}
    /\ UNCHANGED <<app, seen, snapped, mending, mended, judged, result, readback, complete>>
    /\ UNCHANGED <<called, reports, userEvent, exited>>

\* The check commands of l are enqueued and its queue has reached them.
DeviceReady(l) ==
    /\ ~exited
    /\ OnDevice(l) /\ stage[l] = "returned"
    /\ QueueReady(queue[l], checkTick[l])

\* What reading b's canary for launch l observes.
Observe(l, b) == seen \cup {<<l, b, x>> : x \in {y \in Launches : <<b, y>> \in canary}}

\* b's canary regions hold the poison value again.
Repaired(b) == {p \in canary : p[1] # b}

\* Mutant: the copy does not wait for the kernel's event.
CopyCanaryEarly(l, b) ==
    /\ DeviceReady(l)
    /\ b \in Checked(l) /\ ~InPlace(b) /\ <<l, b>> \notin snapped
    /\ seen' = Observe(l, b)
    /\ snapped' = snapped \cup {<<l, b>>}
    /\ UNCHANGED <<app, ran, canary, mending, mended, judged, result, readback, complete, outcome>>

\* The copy of b's canary regions, which waits for the kernel.
CopyCanary(l, b) ==
    /\ DeviceReady(l)
    /\ b \in Checked(l) /\ ~InPlace(b)
    /\ l \in ran /\ <<l, b>> \notin snapped
    /\ seen' = Observe(l, b)
    /\ snapped' = snapped \cup {<<l, b>>}
    /\ UNCHANGED <<app, ran, canary, mending, mended, judged, result, readback, complete, outcome>>

\* A host check reads b's canary through the cached queue.
ReadCanary(l, b) ==
    /\ ~exited
    /\ stage[l] = "verifying"
    /\ b \in PassBufs(l)
    /\ l \in ran /\ <<l, b>> \notin snapped
    /\ QueueReady(FillQueue, checkTick[l])
    /\ seen' = Observe(l, b)
    /\ snapped' = snapped \cup {<<l, b>>}
    /\ UNCHANGED <<app, ran, canary, mending, mended, judged, result, readback, complete, outcome>>

\* Mutant: the fill does not wait for the copy.
MendCanaryEarly(l, b) ==
    /\ ~exited
    /\ OnDevice(l) /\ stage[l] = "returned"
    /\ b \in Checked(l) /\ FillMended(b) /\ <<l, b>> \notin mended
    /\ QueueReady(FillQueue, checkTick[l])
    /\ canary' = Repaired(b)
    /\ mended' = mended \cup {<<l, b>>}
    /\ UNCHANGED <<app, ran, seen, snapped, mending, judged, result, readback, complete, outcome>>

\* The fill of mend_this_canary: on the cached queue, after the copy.
MendCanary(l, b) ==
    /\ ~exited
    /\ OnDevice(l) /\ stage[l] = "returned"
    /\ b \in Checked(l) /\ FillMended(b)
    /\ <<l, b>> \in snapped /\ <<l, b>> \notin mended
    /\ QueueReady(FillQueue, checkTick[l])
    /\ canary' = Repaired(b)
    /\ mended' = mended \cup {<<l, b>>}
    /\ UNCHANGED <<app, ran, seen, snapped, mending, judged, result, readback, complete, outcome>>

\* The blocking fill of a host check: mendCanaryRegion.
MendOnHost(l, b) ==
    /\ ~exited
    /\ <<l, b>> \in mending
    /\ QueueReady(FillQueue, checkTick[l])
    /\ canary' = Repaired(b)
    /\ mended' = mended \cup {<<l, b>>}
    /\ mending' = mending \ {<<l, b>>}
    /\ UNCHANGED <<app, ran, seen, snapped, judged, result, readback, complete, outcome>>

\* A checker kernel that reads and repairs b where it lies (locateDiffParts,
\* locateDiffSVMPtr), once the copies its other members need are made.
CheckInPlace(l, b) ==
    /\ DeviceReady(l)
    /\ b \in Checked(l) /\ InPlace(b)
    /\ l \in ran /\ <<l, b>> \notin snapped
    /\ \A c \in Members(l, GroupOf(b)) : ~InPlace(c) => <<l, c>> \in snapped
    /\ seen' = Observe(l, b)
    /\ snapped' = snapped \cup {<<l, b>>}
    /\ canary' = Repaired(b)
    /\ mended' = mended \cup {<<l, b>>}
    /\ UNCHANGED <<app, ran, mending, judged, result, readback, complete, outcome>>

\* The first_change entries that a group's checker kernel lowers.  The kernel
\* of verify_cl_images_single is told of one image: it always writes entry 0.
FirstChange(l, g) ==
    LET bad == {b \in Members(l, g) : Dirty(l, b)}
    IN  IF Strategy = "single" /\ g = "img" /\ bad # {}
        THEN {CHOOSE b \in Members(l, g) : TRUE}
        ELSE bad

\* findCorruption over the copies of a group.
FindCorruption(l, g) ==
    /\ DeviceReady(l)
    /\ Members(l, g) # {} /\ <<l, g>> \notin judged
    /\ \A b \in Members(l, g) : <<l, b>> \in snapped
    /\ judged' = judged \cup {<<l, g>>}
    /\ result' = result \cup {<<l, b>> : b \in FirstChange(l, g)}
    /\ UNCHANGED <<app, ran, canary, seen, snapped, mending, mended, readback, complete, outcome>>

\* Mutant: the readback waits for the checker kernel but not for the fills.
ReadBackUnmended(l, g) ==
    /\ DeviceReady(l)
    /\ <<l, g>> \in judged /\ <<l, g>> \notin readback
    /\ readback' = readback \cup {<<l, g>>}
    /\ UNCHANGED <<app, ran, canary, seen, snapped, mending, mended, judged, result, complete, outcome>>

\* get_change_buffer: the results are read once the repairs are made, too.
ReadBack(l, g) ==
    /\ DeviceReady(l)
    /\ <<l, g>> \in judged /\ <<l, g>> \notin readback
    /\ \A b \in Members(l, g) : FillMended(b) => <<l, b>> \in mended
    /\ readback' = readback \cup {<<l, g>>}
    /\ UNCHANGED <<app, ran, canary, seen, snapped, mending, mended, judged, result, complete, outcome>>

\* Mutant: the application gets the event of its kernel, not of the marker.
FinishMarkerUnordered(l) ==
    /\ DeviceReady(l)
    /\ l \in ran \ complete
    /\ complete' = complete \cup {l}
    /\ UNCHANGED <<app, ran, canary, seen, snapped, mending, mended, judged, result, readback, outcome>>

\* The marker whose event the application gets.
FinishMarker(l) ==
    /\ DeviceReady(l)
    /\ l \notin complete
    /\ \A g \in Groups : Members(l, g) # {} => <<l, g>> \in readback
    /\ complete' = complete \cup {l}
    /\ UNCHANGED <<app, ran, canary, seen, snapped, mending, mended, judged, result, readback, outcome>>

\* Mutant: the callback is registered for images only.
VerifyCallbackPartial(l, g) ==
    /\ ~exited
    /\ g = "img" /\ <<l, g>> \in readback /\ <<l, g>> \notin called
    /\ called' = called \cup {<<l, g>>}
    /\ reports' = reports \cup {<<l, b>> : b \in {c \in Members(l, g) : <<l, c>> \in result}}
    /\ UNCHANGED <<app, device, strays, userEvent, exited>>

\* verify_callback on a thread of the runtime, at any time after the readback.
VerifyCallback(l, g) ==
    /\ ~exited
    /\ <<l, g>> \in readback /\ <<l, g>> \notin called
    /\ called' = called \cup {<<l, g>>}
    /\ LET found == {b \in Members(l, g) : <<l, b>> \in result}
       IN  /\ reports' = reports \cup {<<l, b>> : b \in found}
           /\ exited' = (ExitOnOverflow /\ found # {})
    /\ UNCHANGED <<app, device, strays, userEvent>>

-----------------------------------------------------------------------------
HostStep(t, l) ==
    \/ VerifyNothing(t, l) \/ VerifyOnGpu(t, l) \/ VerifyOnHost(t, l)
    \/ HostNextPass(t, l) \/ HostReturn(t, l)
    \/ \E b \in Buffers : ParseCanary(t, l, b)

Runtime(l) ==
    \/ \E S \in SUBSET Buffers : RunKernel(l, S)
    \/ \E b \in Buffers :
          \/ CopyCanary(l, b) \/ ReadCanary(l, b) \/ CheckInPlace(l, b)
          \/ MendCanary(l, b) \/ MendOnHost(l, b)
    \/ \E g \in Groups : FindCorruption(l, g) \/ ReadBack(l, g) \/ VerifyCallback(l, g)
    \/ FinishMarker(l)

Next ==
    \/ \E t \in Threads, l \in Launches :
          \/ \E q \in Queues, A \in SUBSET Buffers, W \in SUBSET Launches : EnqueueKernel(t, l, q, A, W)
          \/ HostStep(t, l)
    \/ \E l \in Launches : Runtime(l)
    \/ SetUserEvent

\* Threads leave the wrapper if they can, the runtime runs what is ready and
\* calls what was registered, and the application sets its user events.  It
\* need not launch anything.
Fairness ==
    /\ \A t \in Threads, l \in Launches : WF_vars(HostStep(t, l))
    /\ \A l \in Launches : WF_vars(Runtime(l))
    /\ WF_vars(SetUserEvent)

Spec == Init /\ [][Next]_vars
FairSpec == Spec /\ Fairness

-----------------------------------------------------------------------------
(***************************************************************************)
(* Properties.                                                             *)
(***************************************************************************)

\* Every variable stays within what the code can store in it.
TypeOK ==
    /\ inCall \in [Threads -> Launches \cup {NoLaunch}]
    /\ queue \in [Launches -> Queues]
    /\ args \in [Launches -> SUBSET Buffers]
    /\ waits \in [Launches -> SUBSET Launches]
    /\ stage \in [Launches -> Stages]
    /\ pass \in [Launches -> Passes]
    /\ clock \in Nat
    /\ runTick \in [Launches -> 0 .. clock] /\ checkTick \in [Launches -> 0 .. clock]
    /\ ran \in SUBSET Launches /\ complete \in SUBSET Launches
    /\ canary \in SUBSET (Buffers \X Launches)
    /\ seen \in SUBSET (Launches \X Buffers \X Launches)
    /\ strays \in SUBSET (Launches \X Buffers) /\ reports \in SUBSET (Launches \X Buffers)
    /\ snapped \in SUBSET (Launches \X Buffers) /\ result \in SUBSET (Launches \X Buffers)
    /\ mending \in SUBSET (Launches \X Buffers) /\ mended \in SUBSET (Launches \X Buffers)
    /\ judged \in SUBSET (Launches \X Groups) /\ readback \in SUBSET (Launches \X Groups)
    /\ called \in SUBSET (Launches \X Groups)
    /\ userEvent \in BOOLEAN /\ exited \in BOOLEAN

\* A report names a kernel and a buffer only if that kernel wrote outside that
\* buffer: no launch is blamed for what another one did, and no buffer for
\* what happened to another.
Blame == reports \subseteq strays

\* The verdict on launch l has been given: its callbacks have run, or its host
\* check has returned.
Delivered(l) ==
    /\ stage[l] = "returned"
    /\ OnDevice(l) => \A g \in Groups : Members(l, g) # {} => <<l, g>> \in called

\* Once the verdict on a launch is given, each of its stray writes has been
\* reported: no repair or other check swallowed one.
NothingMissed ==
    \A l \in Launches, b \in Buffers :
        <<l, b>> \in strays /\ Delivered(l) => <<l, b>> \in reports

\* KernelLaunch keeps the promise of OverflowReport: the detector is done with
\* a launch once its kernel has run and its verdict has been given.
Promise == INSTANCE OverflowReport WITH
    finished <- ran,
    happened <- strays,
    reported <- reports,
    closed <- {l \in ran : Delivered(l)}

\* Each step of the wrapper, the runtime and the callbacks is a step of the
\* promise or leaves it alone: a verdict is only given on a kernel that has
\* run, it is final, it is complete and it accuses nobody wrongly.
KeepsPromise == Promise!Spec

\* Once the event returned for a launch is complete, the canaries are free of
\* its stray writes, so a kernel ordered after it starts from intact poison.
CleanAtReturn == \A b \in Buffers, x \in complete : <<b, x>> \notin canary

\* A stray write leaves a canary (is repaired) only after the check of the
\* launch that made it has read it.
EvidenceKept ==
    [][\A b \in Buffers, x \in Launches :
          <<b, x>> \in canary \ canary' => <<x, b, x>> \in seen']_vars

\* Every stray write is reported in the end, unless a report ends the process.
EveryStrayReported ==
    \A l \in Launches, b \in Buffers :
        <<l, b>> \in strays ~> (<<l, b>> \in reports \/ exited)

\* Every launch with something to check returns, and its event completes.
EveryLaunchCompletes ==
    \A l \in Launches :
        (stage[l] = "enqueued" /\ Checked(l) # {}) ~> (l \in complete \/ exited)

=============================================================================
