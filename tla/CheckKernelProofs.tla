-------------------------- MODULE CheckKernelProofs --------------------------
(***************************************************************************)
(* Proofs about CheckKernels: if the application makes its launches one    *)
(* after another, sharing the checker kernels is harmless, for any number  *)
(* of threads, checks, contexts, slots and kernels.  With Serialised FALSE *)
(* EveryObjectAnalysed and RightKernel fail: see the README.               *)
(***************************************************************************)
EXTENDS CheckKernels, TLAPS

Mine(t) == slot[job[t]]

\* One thread at a time is inside a check, and that check is under way.
TurnInv ==
    /\ \A t, u \in Threads : pc[t] # "idle" /\ pc[u] # "idle" => t = u
    /\ \A t \in Threads : pc[t] # "idle" =>
          job[t] \in Checks /\ next[job[t]] <= objects[job[t]]

\* What a thread knows about the kernel of its slot at each step.
PlaceInv ==
    \A t \in Threads :
        /\ pc[t] = "clear" => cached[Mine(t)] # NoKernel /\ builtFor[cached[Mine(t)]] # context[job[t]]
        /\ pc[t] = "fetch" /\ cached[Mine(t)] # NoKernel =>
              builtFor[cached[Mine(t)]] = context[job[t]]
        /\ pc[t] = "build" => cached[Mine(t)] = NoKernel
        /\ pc[t] \in {"store", "result", "data", "launch"} =>
              kern[t] \in Kernels /\ builtFor[kern[t]] = context[job[t]]
        /\ pc[t] \in {"result", "data", "launch"} => kern[t] = cached[Mine(t)]
        /\ pc[t] \in {"data", "launch"} => resultArg[kern[t]] = job[t]
        /\ pc[t] = "launch" => dataArg[kern[t]] = <<job[t], next[job[t]]>>

\* A slot keeps the kernel its last check used, until a check in another
\* context is about to replace it.
LastInv ==
    \A s \in Slots : lastUse[s] # NoContext =>
        \/ cached[s] # NoKernel /\ builtFor[cached[s]] = lastUse[s]
        \/ \E t \in Threads :
              pc[t] \notin {"idle", "look", "clear"} /\ Mine(t) = s /\ lastUse[s] # context[job[t]]

\* The objects check j has enqueued a checker kernel for.
Enqueued(j) == {<<j, i>> : i \in 1 .. (next[j] - 1)}

\* Each checker launch has the arguments of its check, and none is missing.
LaunchInv ==
    /\ \A r \in launched :
          r.check \in Checks /\ r.ctx = context[r.check] /\ r.result = r.check /\ r.data \in Enqueued(r.check)
    /\ \A j \in Checks : \A d \in Enqueued(j) : \E r \in launched : r.result = j /\ r.data = d

\* A check that is not under way has been through all its objects, or none.
ProgressInv ==
    \A j \in Checks :
        \/ \E t \in Threads : pc[t] # "idle" /\ job[t] = j /\ objects[j] > 0
        \/ next[j] = objects[j] + 1

SharedInv ==
    /\ KernelTypeOK
    /\ TurnInv /\ PlaceInv /\ LastInv /\ LaunchInv /\ ProgressInv

-----------------------------------------------------------------------------
LEMMA SharedInvInit == Init => SharedInv
  <1> SUFFICES ASSUME Init PROVE SharedInv
    OBVIOUS
  <1> USE KernelAssumption DEF Init
  <1>1. KernelTypeOK
    <2>1. 0 \in 0 .. MaxObjects /\ 1 \in 1 .. (MaxObjects + 1) BY SMT
    <2> QED BY <2>1 DEF KernelTypeOK, Places
  <1>2. TurnInv /\ PlaceInv /\ LastInv
    BY DEF TurnInv, PlaceInv, LastInv
  <1>3. LaunchInv
    <2>1. \A j \in Checks : Enqueued(j) = {} BY DEF Enqueued
    <2> QED BY <2>1 DEF LaunchInv
  <1>4. ProgressInv BY DEF ProgressInv
  <1> QED BY <1>1, <1>2, <1>3, <1>4 DEF SharedInv

LEMMA BeginKeeps ==
  ASSUME Serialised, SharedInv, NEW t \in Threads, NEW j \in Checks, NEW n \in 1 .. MaxObjects, Begin(t, j, n)
  PROVE  SharedInv'
  <1> USE KernelAssumption DEF Begin, Goto, kernels, checks
  <1>0. \A u \in Threads : pc[u] = "idle" BY DEF SharedInv
  <1>1. kern[t] \in Kernels \cup {NoKernel} BY DEF SharedInv, KernelTypeOK
  <1>2. KernelTypeOK' BY <1>0, <1>1 DEF SharedInv, KernelTypeOK, Places, Data
  <1>3. TurnInv'
    <2>1. next[j] = 1 BY <1>0 DEF SharedInv, ProgressInv, KernelTypeOK
    <2> QED BY <1>0, <1>2, <2>1 DEF SharedInv, KernelTypeOK, TurnInv
  <1>4. PlaceInv' BY <1>0, <1>1, <1>2 DEF SharedInv, KernelTypeOK, PlaceInv, Mine
  <1>5. LastInv' BY <1>0, <1>1, <1>2 DEF SharedInv, KernelTypeOK, LastInv, PlaceInv, Mine
  <1>6. LaunchInv' BY <1>0, <1>1, <1>2 DEF SharedInv, KernelTypeOK, LaunchInv, Enqueued
  <1>7. ProgressInv' BY <1>0, <1>1, <1>2 DEF SharedInv, KernelTypeOK, ProgressInv, TurnInv
  <1> QED BY <1>2, <1>3, <1>4, <1>5, <1>6, <1>7 DEF SharedInv

LEMMA LookKeeps ==
  ASSUME Serialised, SharedInv, NEW t \in Threads, Look(t)
  PROVE  SharedInv'
  <1> USE KernelAssumption DEF Look, Goto, kernels, checks, Suits
  <1>0. /\ pc[t] # "idle" /\ job[t] \in Checks /\ next[job[t]] <= objects[job[t]]
        /\ slot[job[t]] \in Slots
        /\ \A u \in Threads : u # t => pc[u] = "idle"
    BY DEF SharedInv, TurnInv, KernelTypeOK
  <1>1. kern[t] \in Kernels \cup {NoKernel} BY DEF SharedInv, KernelTypeOK
  <1>2. KernelTypeOK' BY <1>0, <1>1 DEF SharedInv, KernelTypeOK, Places, Data
  <1>3. TurnInv' BY <1>0, <1>1, <1>2 DEF SharedInv, KernelTypeOK, TurnInv
  <1>4. PlaceInv' BY <1>0, <1>1, <1>2 DEF SharedInv, KernelTypeOK, PlaceInv, Mine
  <1>5. LastInv' BY <1>0, <1>1, <1>2 DEF SharedInv, KernelTypeOK, LastInv, PlaceInv, Mine
  <1>6. LaunchInv' BY <1>0, <1>1, <1>2 DEF SharedInv, KernelTypeOK, LaunchInv, Enqueued
  <1>7. ProgressInv' BY <1>0, <1>1, <1>2 DEF SharedInv, KernelTypeOK, ProgressInv, TurnInv
  <1> QED BY <1>2, <1>3, <1>4, <1>5, <1>6, <1>7 DEF SharedInv

LEMMA ClearSlotKeeps ==
  ASSUME Serialised, SharedInv, NEW t \in Threads, ClearSlot(t)
  PROVE  SharedInv'
  <1> USE KernelAssumption DEF ClearSlot, Goto, kernels, checks
  <1>0. /\ pc[t] # "idle" /\ job[t] \in Checks /\ next[job[t]] <= objects[job[t]]
        /\ slot[job[t]] \in Slots
        /\ \A u \in Threads : u # t => pc[u] = "idle"
    BY DEF SharedInv, TurnInv, KernelTypeOK
  <1>1. kern[t] \in Kernels \cup {NoKernel} BY DEF SharedInv, KernelTypeOK
  <1>2. KernelTypeOK' BY <1>0, <1>1 DEF SharedInv, KernelTypeOK, Places, Data
  <1>3. TurnInv' BY <1>0, <1>1, <1>2 DEF SharedInv, KernelTypeOK, TurnInv
  <1>4. PlaceInv' BY <1>0, <1>1, <1>2 DEF SharedInv, KernelTypeOK, PlaceInv, Mine
  <1>5. LastInv' BY <1>0, <1>1, <1>2 DEF SharedInv, KernelTypeOK, LastInv, PlaceInv, Mine
  <1>6. LaunchInv' BY <1>0, <1>1, <1>2 DEF SharedInv, KernelTypeOK, LaunchInv, Enqueued
  <1>7. ProgressInv' BY <1>0, <1>1, <1>2 DEF SharedInv, KernelTypeOK, ProgressInv, TurnInv
  <1> QED BY <1>2, <1>3, <1>4, <1>5, <1>6, <1>7 DEF SharedInv

LEMMA FetchKeeps ==
  ASSUME Serialised, SharedInv, NEW t \in Threads, Fetch(t)
  PROVE  SharedInv'
  <1> USE KernelAssumption DEF Fetch, Goto, kernels, checks
  <1>0. /\ pc[t] # "idle" /\ job[t] \in Checks /\ next[job[t]] <= objects[job[t]]
        /\ slot[job[t]] \in Slots
        /\ \A u \in Threads : u # t => pc[u] = "idle"
    BY DEF SharedInv, TurnInv, KernelTypeOK
  <1>1. kern[t] \in Kernels \cup {NoKernel} BY DEF SharedInv, KernelTypeOK
  <1>2. KernelTypeOK' BY <1>0, <1>1 DEF SharedInv, KernelTypeOK, Places, Data
  <1>3. TurnInv' BY <1>0, <1>1, <1>2 DEF SharedInv, KernelTypeOK, TurnInv
  <1>4. PlaceInv' BY <1>0, <1>1, <1>2 DEF SharedInv, KernelTypeOK, PlaceInv, Mine
  <1>5. LastInv' BY <1>0, <1>1, <1>2 DEF SharedInv, KernelTypeOK, LastInv, PlaceInv, Mine
  <1>6. LaunchInv' BY <1>0, <1>1, <1>2 DEF SharedInv, KernelTypeOK, LaunchInv, Enqueued
  <1>7. ProgressInv' BY <1>0, <1>1, <1>2 DEF SharedInv, KernelTypeOK, ProgressInv, TurnInv
  <1> QED BY <1>2, <1>3, <1>4, <1>5, <1>6, <1>7 DEF SharedInv

LEMMA BuildKeeps ==
  ASSUME Serialised, SharedInv, NEW t \in Threads, NEW k \in Kernels, Build(t, k)
  PROVE  SharedInv'
  <1> USE KernelAssumption DEF Build, Goto, kernels, checks
  <1>0. /\ pc[t] # "idle" /\ job[t] \in Checks /\ next[job[t]] <= objects[job[t]]
        /\ slot[job[t]] \in Slots
        /\ \A u \in Threads : u # t => pc[u] = "idle"
    BY DEF SharedInv, TurnInv, KernelTypeOK
  <1>1. kern[t] \in Kernels \cup {NoKernel} BY DEF SharedInv, KernelTypeOK
  <1>2. KernelTypeOK' BY <1>0, <1>1 DEF SharedInv, KernelTypeOK, Places, Data
  <1>3. TurnInv' BY <1>0, <1>1, <1>2 DEF SharedInv, KernelTypeOK, TurnInv
  <1>4. PlaceInv' BY <1>0, <1>1, <1>2 DEF SharedInv, KernelTypeOK, PlaceInv, Mine
  <1>5. LastInv' BY <1>0, <1>1, <1>2 DEF SharedInv, KernelTypeOK, LastInv, PlaceInv, Mine
  <1>6. LaunchInv' BY <1>0, <1>1, <1>2 DEF SharedInv, KernelTypeOK, LaunchInv, Enqueued
  <1>7. ProgressInv' BY <1>0, <1>1, <1>2 DEF SharedInv, KernelTypeOK, ProgressInv, TurnInv
  <1> QED BY <1>2, <1>3, <1>4, <1>5, <1>6, <1>7 DEF SharedInv

LEMMA StoreKeeps ==
  ASSUME Serialised, SharedInv, NEW t \in Threads, Store(t)
  PROVE  SharedInv'
  <1> USE KernelAssumption DEF Store, Goto, kernels, checks
  <1>0. /\ pc[t] # "idle" /\ job[t] \in Checks /\ next[job[t]] <= objects[job[t]]
        /\ slot[job[t]] \in Slots
        /\ \A u \in Threads : u # t => pc[u] = "idle"
    BY DEF SharedInv, TurnInv, KernelTypeOK
  <1>1. kern[t] \in Kernels \cup {NoKernel} BY DEF SharedInv, KernelTypeOK
  <1>2. KernelTypeOK' BY <1>0, <1>1 DEF SharedInv, KernelTypeOK, Places, Data
  <1>3. TurnInv' BY <1>0, <1>1, <1>2 DEF SharedInv, KernelTypeOK, TurnInv
  <1>4. PlaceInv' BY <1>0, <1>1, <1>2 DEF SharedInv, KernelTypeOK, PlaceInv, Mine
  <1>5. LastInv' BY <1>0, <1>1, <1>2 DEF SharedInv, KernelTypeOK, LastInv, PlaceInv, Mine
  <1>6. LaunchInv' BY <1>0, <1>1, <1>2 DEF SharedInv, KernelTypeOK, LaunchInv, Enqueued
  <1>7. ProgressInv' BY <1>0, <1>1, <1>2 DEF SharedInv, KernelTypeOK, ProgressInv, TurnInv
  <1> QED BY <1>2, <1>3, <1>4, <1>5, <1>6, <1>7 DEF SharedInv

LEMMA SetResultKeeps ==
  ASSUME Serialised, SharedInv, NEW t \in Threads, SetResult(t)
  PROVE  SharedInv'
  <1> USE KernelAssumption DEF SetResult, Goto, kernels, checks
  <1>0. /\ pc[t] # "idle" /\ job[t] \in Checks /\ next[job[t]] <= objects[job[t]]
        /\ slot[job[t]] \in Slots
        /\ \A u \in Threads : u # t => pc[u] = "idle"
    BY DEF SharedInv, TurnInv, KernelTypeOK
  <1>1. kern[t] \in Kernels BY DEF SharedInv, PlaceInv
  <1>2. KernelTypeOK' BY <1>0, <1>1 DEF SharedInv, KernelTypeOK, Places, Data
  <1>3. TurnInv' BY <1>0, <1>1, <1>2 DEF SharedInv, KernelTypeOK, TurnInv
  <1>4. PlaceInv' BY <1>0, <1>1, <1>2 DEF SharedInv, KernelTypeOK, PlaceInv, Mine
  <1>5. LastInv' BY <1>0, <1>1, <1>2 DEF SharedInv, KernelTypeOK, LastInv, PlaceInv, Mine
  <1>6. LaunchInv' BY <1>0, <1>1, <1>2 DEF SharedInv, KernelTypeOK, LaunchInv, Enqueued
  <1>7. ProgressInv' BY <1>0, <1>1, <1>2 DEF SharedInv, KernelTypeOK, ProgressInv, TurnInv
  <1> QED BY <1>2, <1>3, <1>4, <1>5, <1>6, <1>7 DEF SharedInv

LEMMA SetDataKeeps ==
  ASSUME Serialised, SharedInv, NEW t \in Threads, SetData(t)
  PROVE  SharedInv'
  <1> USE KernelAssumption DEF SetData, Goto, kernels, checks
  <1>0. /\ pc[t] # "idle" /\ job[t] \in Checks /\ next[job[t]] <= objects[job[t]]
        /\ slot[job[t]] \in Slots
        /\ \A u \in Threads : u # t => pc[u] = "idle"
    BY DEF SharedInv, TurnInv, KernelTypeOK
  <1>1. kern[t] \in Kernels BY DEF SharedInv, PlaceInv
  <1>2. KernelTypeOK' BY <1>0, <1>1 DEF SharedInv, KernelTypeOK, Places, Data
  <1>3. TurnInv' BY <1>0, <1>1, <1>2 DEF SharedInv, KernelTypeOK, TurnInv
  <1>4. PlaceInv' BY <1>0, <1>1, <1>2 DEF SharedInv, KernelTypeOK, PlaceInv, Mine
  <1>5. LastInv' BY <1>0, <1>1, <1>2 DEF SharedInv, KernelTypeOK, LastInv, PlaceInv, Mine
  <1>6. LaunchInv' BY <1>0, <1>1, <1>2 DEF SharedInv, KernelTypeOK, LaunchInv, Enqueued
  <1>7. ProgressInv' BY <1>0, <1>1, <1>2 DEF SharedInv, KernelTypeOK, ProgressInv, TurnInv
  <1> QED BY <1>2, <1>3, <1>4, <1>5, <1>6, <1>7 DEF SharedInv

LEMMA EnqueueCheckKeeps ==
  ASSUME Serialised, SharedInv, NEW t \in Threads, EnqueueCheck(t)
  PROVE  SharedInv'
  <1> USE KernelAssumption DEF EnqueueCheck, Goto, kernels, checks
  <1>0. /\ pc[t] # "idle" /\ job[t] \in Checks /\ next[job[t]] <= objects[job[t]]
        /\ slot[job[t]] \in Slots
        /\ \A u \in Threads : u # t => pc[u] = "idle"
    BY DEF SharedInv, TurnInv, KernelTypeOK
  <1>1. kern[t] \in Kernels BY DEF SharedInv, PlaceInv
  <1>2. KernelTypeOK' BY <1>0, <1>1 DEF SharedInv, KernelTypeOK, Places, Data
  <1>3. TurnInv' BY <1>0, <1>1, <1>2 DEF SharedInv, KernelTypeOK, TurnInv
  <1>4. PlaceInv' BY <1>0, <1>1, <1>2 DEF SharedInv, KernelTypeOK, PlaceInv, Mine
  <1>5. LastInv' BY <1>0, <1>1, <1>2 DEF SharedInv, KernelTypeOK, LastInv, PlaceInv, Mine
  <1>6. LaunchInv'
    <2> DEFINE new == <<job[t], next[job[t]]>>
    <2>1. /\ Taken(t).check = job[t] /\ Taken(t).ctx = context[job[t]]
          /\ Taken(t).result = job[t] /\ Taken(t).data = new
      BY DEF Taken, SharedInv, PlaceInv
    <2>2. \A j \in Checks : next[j] \in Nat /\ next[j] > 0 /\ next'[j] = IF j = job[t] THEN next[j] + 1 ELSE next[j]
      BY <1>0 DEF SharedInv, KernelTypeOK
    <2>3. \A j \in Checks : Enqueued(j)' = Enqueued(j) \cup (IF j = job[t] THEN {new} ELSE {})
      <3> SUFFICES ASSUME NEW j \in Checks
                   PROVE  Enqueued(j)' = Enqueued(j) \cup (IF j = job[t] THEN {new} ELSE {})
        OBVIOUS
      <3>1. CASE j # job[t] BY <2>2, <3>1 DEF Enqueued
      <3>2. CASE j = job[t]
        <4>1. 1 .. (next'[j] - 1) = (1 .. (next[j] - 1)) \cup {next[j]} BY <2>2, <3>2
        <4> QED BY <3>2, <4>1 DEF Enqueued
      <3> QED BY <3>1, <3>2
    <2>4. launched' = launched \cup {Taken(t)} /\ context' = context OBVIOUS
    <2>5. \A r \in launched' :
             r.check \in Checks /\ r.ctx = context'[r.check] /\ r.result = r.check /\ r.data \in Enqueued(r.check)'
      <3> SUFFICES ASSUME NEW r \in launched'
                   PROVE  r.check \in Checks /\ r.ctx = context'[r.check] /\ r.result = r.check /\ r.data \in Enqueued(r.check)'
        OBVIOUS
      <3>1. CASE r \in launched BY <2>3, <2>4, <3>1 DEF SharedInv, LaunchInv
      <3>2. CASE r = Taken(t) BY <1>0, <2>1, <2>3, <2>4, <3>2
      <3> QED BY <2>4, <3>1, <3>2
    <2>6. \A j \in Checks : \A d \in Enqueued(j)' : \E r \in launched' : r.result = j /\ r.data = d
      BY <2>1, <2>3, <2>4 DEF SharedInv, LaunchInv
    <2> QED BY <2>5, <2>6 DEF LaunchInv
  <1>7. ProgressInv' BY <1>0, <1>1, <1>2 DEF SharedInv, KernelTypeOK, ProgressInv, TurnInv
  <1> QED BY <1>2, <1>3, <1>4, <1>5, <1>6, <1>7 DEF SharedInv

LEMMA SharedInvNext ==
  ASSUME Serialised, SharedInv, [Next]_vars
  PROVE  SharedInv'
  <1>1. CASE UNCHANGED vars
    BY <1>1 DEF vars, kernels, checks, SharedInv, KernelTypeOK, TurnInv, PlaceInv, LastInv,
                LaunchInv, ProgressInv, Mine, Enqueued
  <1> QED BY <1>1, BeginKeeps, LookKeeps, ClearSlotKeeps, FetchKeeps,
             BuildKeeps, StoreKeeps, SetResultKeeps, SetDataKeeps, EnqueueCheckKeeps
          DEF Next, Step

\* The shared checker kernels are type correct when launches take turns.
THEOREM KernelTypeCorrect ==
  ASSUME Serialised
  PROVE  Spec => []KernelTypeOK
  <1>1. SharedInv /\ [Next]_vars => SharedInv' BY SharedInvNext
  <1>2. SharedInv => KernelTypeOK BY DEF SharedInv
  <1> QED BY <1>1, <1>2, SharedInvInit, PTL DEF Spec

\* When launches take turns, each check has exactly its own objects looked at
\* and gets their findings, although all checks share the kernel's arguments.
THEOREM EveryObjectAnalysedCorrect ==
  ASSUME Serialised
  PROVE  Spec => []EveryObjectAnalysed
  <1>1. SharedInv /\ [Next]_vars => SharedInv' BY SharedInvNext
  <1>2. SharedInv => EveryObjectAnalysed
    <2> SUFFICES ASSUME SharedInv, NEW j \in Checks, Finished(j)
                 PROVE  Analysed(j) = Wanted(j)
      BY DEF EveryObjectAnalysed
    <2>1. next[j] = objects[j] + 1 /\ objects[j] \in Nat
      BY KernelAssumption DEF SharedInv, ProgressInv, Finished, KernelTypeOK
    <2>2. Enqueued(j) = Wanted(j) BY <2>1 DEF Enqueued, Wanted
    <2>3. \A d \in Enqueued(j) : d \in Analysed(j) BY DEF SharedInv, LaunchInv, Analysed
    <2>4. \A d \in Analysed(j) : d \in Enqueued(j) BY DEF SharedInv, LaunchInv, Analysed
    <2> QED BY <2>2, <2>3, <2>4
  <1> QED BY <1>1, <1>2, SharedInvInit, PTL DEF Spec

\* When launches take turns, a check only enqueues kernels that were built for
\* its context, whatever contexts were used before.
THEOREM RightKernelCorrect ==
  ASSUME Serialised
  PROVE  Spec => []RightKernel
  <1>1. SharedInv /\ [Next]_vars => SharedInv' BY SharedInvNext
  <1>2. SharedInv => RightKernel BY DEF SharedInv, LaunchInv, RightKernel
  <1> QED BY <1>1, <1>2, SharedInvInit, PTL DEF Spec

\* When launches take turns, a checker kernel is rebuilt only after a change of
\* context.
THEOREM NoRebuildCorrect ==
  ASSUME Serialised
  PROVE  Spec => NoRebuild
  <1>1. SharedInv /\ [Next]_vars => SharedInv' BY SharedInvNext
  <1>2. SharedInv => \A t \in Threads : pc[t] = "build" => lastUse[slot[job[t]]] # context[job[t]]
    BY KernelAssumption DEF SharedInv, TurnInv, PlaceInv, LastInv, KernelTypeOK, Mine
  <1>3. SharedInv /\ [Next]_vars =>
          [\A t \in Threads :
             pc[t] = "build" /\ pc'[t] = "store" => lastUse[slot[job[t]]] # context[job[t]]]_vars
    BY <1>2
  <1> QED BY <1>1, <1>3, SharedInvInit, PTL DEF Spec, NoRebuild
=============================================================================
