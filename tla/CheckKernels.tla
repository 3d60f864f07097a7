---------------------------- MODULE CheckKernels ----------------------------
(***************************************************************************)
(* The checker kernels that device checks share.                           *)
(*                                                                         *)
(* The detector compiles its checker kernels once for a context and keeps  *)
(* the last one of each sort in a global variable.  A check fetches the    *)
(* kernel, sets its arguments and enqueues it, once for the copies of all  *)
(* canaries or once for each object; the runtime takes the arguments at    *)
(* the enqueue.  None of this is protected by a lock, so the steps of      *)
(* checks that run on different threads interleave.                        *)
(*                                                                         *)
(* The method (CLARMOR_ALTERNATE_GPU_DETECTION) does not change while the  *)
(* process runs, so a slot always holds kernels of one name, and the name  *)
(* comparison of check_if_same_kernel never fails.  clReleaseKernel is the *)
(* wrapper's, which drops the record of the kernel's arguments and leaks   *)
(* the kernel itself: a handle once built stays valid.                     *)
(***************************************************************************)
EXTENDS Naturals

CONSTANTS
    Threads,     \* threads inside verify_on_gpu_*
    Checks,      \* the checks they perform, each once
    NoCheck,
    Contexts,
    NoContext,
    Slots,       \* check_canary_kern, check_canary_kern_no_svm, check_img_canary_kern
    Kernels,     \* cl_kernel handles the runtime may return (a bound)
    NoKernel,    \* NULL
    MaxObjects,  \* bound on the checker launches of one check
    Serialised   \* the application makes its launches one after another

ASSUME KernelAssumption ==
    /\ NoCheck \notin Checks
    /\ NoContext \notin Contexts
    /\ NoKernel \notin Kernels
    /\ MaxObjects \in Nat \ {0}
    /\ Serialised \in BOOLEAN

VARIABLES
    cached,    \* slot -> the kernel in its global variable
    builtFor,  \* kernel -> the context it was built for (NoContext: not built)
    resultArg, \* kernel -> the check whose result buffer it was last given
    dataArg,   \* kernel -> the object <<check, number>> it was last given
    pc,        \* thread -> where it is
    job,       \* thread -> its check
    kern,      \* thread -> its local variable for the kernel
    context,   \* check -> context
    slot,      \* check -> slot
    objects,   \* check -> number of checker launches it needs (0: not begun)
    next,      \* check -> the number of its next object
    launched,  \* checker launches: who, which object, and the kernel's arguments
    lastUse    \* slot -> context of the last check that enqueued its kernel (history)

kernels == <<cached, builtFor, resultArg, dataArg>>
checks  == <<context, slot, objects, next>>
vars    == <<kernels, pc, job, kern, checks, launched, lastUse>>

Data == Checks \X (1 .. MaxObjects)

Places == {"idle", "look", "clear", "fetch", "build", "store", "result", "data", "launch"}

Init ==
    /\ cached = [s \in Slots |-> NoKernel]
    /\ builtFor = [k \in Kernels |-> NoContext]
    /\ resultArg = [k \in Kernels |-> NoCheck]
    /\ dataArg = [k \in Kernels |-> NoCheck]
    /\ pc = [t \in Threads |-> "idle"]
    /\ job = [t \in Threads |-> NoCheck]
    /\ kern = [t \in Threads |-> NoKernel]
    /\ context \in [Checks -> Contexts]
    /\ slot \in [Checks -> Slots]
    /\ objects = [j \in Checks |-> 0]
    /\ next = [j \in Checks |-> 1]
    /\ launched = {}
    /\ lastUse = [s \in Slots |-> NoContext]

Goto(t, p) == pc' = [pc EXCEPT ![t] = p]

\* A launch with n objects to look at reaches its device check.
Begin(t, j, n) ==
    /\ pc[t] = "idle" /\ objects[j] = 0
    /\ Serialised => \A u \in Threads : pc[u] = "idle"
    /\ job' = [job EXCEPT ![t] = j]
    /\ objects' = [objects EXCEPT ![j] = n]
    /\ Goto(t, "look")
    /\ UNCHANGED <<kernels, kern, context, slot, next, launched, lastUse>>

\* The cached kernel of t's slot is missing or built for t's context.
Suits(t) ==
    LET k == cached[slot[job[t]]] IN k = NoKernel \/ builtFor[k] = context[job[t]]

\* Mutant: any cached kernel will do.
LookAnywhere(t) ==
    /\ pc[t] = "look"
    /\ Goto(t, "fetch")
    /\ UNCHANGED <<kernels, job, kern, checks, launched, lastUse>>

\* Mutant: the cached kernel is never good enough.
LookNever(t) ==
    /\ pc[t] = "look"
    /\ Goto(t, "clear")
    /\ UNCHANGED <<kernels, job, kern, checks, launched, lastUse>>

\* check_if_same_kernel: is the cached kernel one for this context?
Look(t) ==
    /\ pc[t] = "look"
    /\ Goto(t, IF Suits(t) THEN "fetch" ELSE "clear")
    /\ UNCHANGED <<kernels, job, kern, checks, launched, lastUse>>

\* If it is not, it is given up and the global variable is cleared.
ClearSlot(t) ==
    /\ pc[t] = "clear"
    /\ cached' = [cached EXCEPT ![slot[job[t]]] = NoKernel]
    /\ Goto(t, "fetch")
    /\ UNCHANGED <<builtFor, resultArg, dataArg, job, kern, checks, launched, lastUse>>

\* get_kernel_for_context reads the global variable again,
Fetch(t) ==
    /\ pc[t] = "fetch"
    /\ LET k == cached[slot[job[t]]] IN
          /\ kern' = [kern EXCEPT ![t] = k]
          /\ Goto(t, IF k = NoKernel THEN "build" ELSE "store")
    /\ UNCHANGED <<kernels, job, checks, launched, lastUse>>

\* compiles the kernel if there is none,
Build(t, k) ==
    /\ pc[t] = "build"
    /\ builtFor[k] = NoContext
    /\ builtFor' = [builtFor EXCEPT ![k] = context[job[t]]]
    /\ kern' = [kern EXCEPT ![t] = k]
    /\ Goto(t, "store")
    /\ UNCHANGED <<cached, resultArg, dataArg, job, checks, launched, lastUse>>

\* and writes the global variable in either case.
Store(t) ==
    /\ pc[t] = "store"
    /\ cached' = [cached EXCEPT ![slot[job[t]]] = kern[t]]
    /\ Goto(t, "result")
    /\ UNCHANGED <<builtFor, resultArg, dataArg, job, kern, checks, launched, lastUse>>

\* The arguments that are the same for all objects, the result buffer among them.
SetResult(t) ==
    /\ pc[t] = "result"
    /\ resultArg' = [resultArg EXCEPT ![kern[t]] = job[t]]
    /\ Goto(t, "data")
    /\ UNCHANGED <<cached, builtFor, dataArg, job, kern, checks, launched, lastUse>>

\* The object to look at: one buffer, or the copies of all canaries.
SetData(t) ==
    /\ pc[t] = "data"
    /\ dataArg' = [dataArg EXCEPT ![kern[t]] = <<job[t], next[job[t]]>>]
    /\ Goto(t, "launch")
    /\ UNCHANGED <<cached, builtFor, resultArg, job, kern, checks, launched, lastUse>>

\* What the runtime takes from the kernel at the enqueue.
Taken(t) ==
    [check  |-> job[t],
     ctx    |-> builtFor[kern[t]],
     result |-> resultArg[kern[t]],
     data   |-> dataArg[kern[t]]]

\* Mutant: the loop over the objects stops one short.
EnqueueOneShort(t) ==
    /\ pc[t] = "launch"
    /\ launched' = launched \cup {Taken(t)}
    /\ next' = [next EXCEPT ![job[t]] = @ + 1]
    /\ lastUse' = [lastUse EXCEPT ![slot[job[t]]] = context[job[t]]]
    /\ Goto(t, IF next[job[t]] + 1 < objects[job[t]] THEN "data" ELSE "idle")
    /\ UNCHANGED <<kernels, job, kern, context, slot, objects>>

\* Mutant: the loop runs once too often.
EnqueueOneMore(t) ==
    /\ pc[t] = "launch"
    /\ launched' = launched \cup {Taken(t)}
    /\ next' = [next EXCEPT ![job[t]] = @ + 1]
    /\ lastUse' = [lastUse EXCEPT ![slot[job[t]]] = context[job[t]]]
    /\ Goto(t, IF next[job[t]] <= objects[job[t]] THEN "data" ELSE "idle")
    /\ UNCHANGED <<kernels, job, kern, context, slot, objects>>

\* runNDRangeKernel; the loop goes on to the next object.
EnqueueCheck(t) ==
    /\ pc[t] = "launch"
    /\ launched' = launched \cup {Taken(t)}
    /\ next' = [next EXCEPT ![job[t]] = @ + 1]
    /\ lastUse' = [lastUse EXCEPT ![slot[job[t]]] = context[job[t]]]
    /\ Goto(t, IF next[job[t]] < objects[job[t]] THEN "data" ELSE "idle")
    /\ UNCHANGED <<kernels, job, kern, context, slot, objects>>

Step(t) ==
    \/ Look(t) \/ ClearSlot(t) \/ Fetch(t) \/ Store(t)
    \/ SetResult(t) \/ SetData(t) \/ EnqueueCheck(t)
    \/ \E k \in Kernels : Build(t, k)

Next ==
    \E t \in Threads :
        \/ \E j \in Checks, n \in 1 .. MaxObjects : Begin(t, j, n)
        \/ Step(t)

Spec == Init /\ [][Next]_vars

-----------------------------------------------------------------------------
\* Every variable stays within what the code can store in it.
KernelTypeOK ==
    /\ cached \in [Slots -> Kernels \cup {NoKernel}]
    /\ builtFor \in [Kernels -> Contexts \cup {NoContext}]
    /\ resultArg \in [Kernels -> Checks \cup {NoCheck}]
    /\ dataArg \in [Kernels -> Data \cup {NoCheck}]
    /\ pc \in [Threads -> Places]
    /\ job \in [Threads -> Checks \cup {NoCheck}]
    /\ kern \in [Threads -> Kernels \cup {NoKernel}]
    /\ context \in [Checks -> Contexts] /\ slot \in [Checks -> Slots]
    /\ objects \in [Checks -> 0 .. MaxObjects]
    /\ next \in [Checks -> 1 .. (MaxObjects + 1)]
    /\ lastUse \in [Slots -> Contexts \cup {NoContext}]

\* The objects whose findings go to the result buffer of check j.
Analysed(j) == {r.data : r \in {q \in launched : q.result = j}}

\* The objects check j is for.
Wanted(j) == {<<j, i>> : i \in 1 .. objects[j]}

Finished(j) == objects[j] > 0 /\ \A t \in Threads : job[t] = j => pc[t] = "idle"

\* When a check has enqueued its checker kernels, exactly its own objects are
\* looked at on its behalf: "the canary values of all buffers the kernel could
\* possibly touch are analyzed" (README).
EveryObjectAnalysed == \A j \in Checks : Finished(j) => Analysed(j) = Wanted(j)

\* A check only enqueues kernels that were built for its context.
RightKernel == \A r \in launched : r.ctx = context[r.check]

\* "If the kernel already exists for the given parameters, it is returned
\* without rebuilding [...] only the last kernel built is cached" (the comment
\* above get_kernel_for_context): a kernel is built only if the last check that
\* used its slot was in another context.
NoRebuild ==
    [][\A t \in Threads :
          pc[t] = "build" /\ pc'[t] = "store" => lastUse[slot[job[t]]] # context[job[t]]]_vars
=============================================================================
