--------------------------- MODULE KernelRecords ---------------------------
(***************************************************************************)
(* The detector's records of kernels and their arguments.                  *)
(*                                                                         *)
(* A record (kernel_info) has a reference count and a linked list of the   *)
(* arguments set so far, sorted by index; an argument points to the record *)
(* of the buffer it names.  clSetKernelArg, clRetainKernel and             *)
(* clReleaseKernel keep it, a launch reads it, and the callback of the     *)
(* launch's check, on a thread of the runtime, walks the list to name the  *)
(* argument that overflowed and then gives the launch's reference back.    *)
(* Counts change without a lock; the list has one, but the callback does   *)
(* not take it, and remove reads the head before it does.                  *)
(*                                                                         *)
(* If an argument has no canary (memory of the application's, a            *)
(* sub-buffer), a stand-in kernel with buffers of the detector's own is    *)
(* launched in its place and deleted before the call returns.  The         *)
(* stand-in of launch l is called l here.                                  *)
(*                                                                         *)
(* What nothing in the code orders is not ordered here: two actors may be  *)
(* in the same count at once, and a stand-in may be taken apart before the *)
(* callback of its check has run.  races remembers where that happened, so *)
(* that properties can say what goes wrong with and without it.            *)
(***************************************************************************)
EXTENDS Integers, FiniteSets

CONSTANTS
    Threads,      \* threads of the application
    Kernels,      \* kernels of the application
    Launches,     \* launches, each made at most once
    Buffers,      \* buffers of the application
    HostBuffers,  \* those without a canary
    NoBuffer,     \* an argument that is no buffer
    Nil,          \* the null pointer
    NArgs,        \* arguments of every kernel
    MaxHeld,      \* bound on the application's references to a kernel
    Shared,       \* kernels whose arguments several threads set at once, and
                  \* which they retain and release before one was set
    Awaited,      \* launches after which the application leaves the kernel's
                  \* arguments, and the buffers among them, alone until the
                  \* callback has run
    Waiting,      \* launches on an NVIDIA platform: the call waits for the check
                  \* and runs the callback itself
    MaxDamaged    \* bound on the buffers a launch damages

ASSUME RecordAssumption ==
    /\ IsFiniteSet(Threads) /\ IsFiniteSet(Kernels) /\ IsFiniteSet(Launches)
    /\ Threads \cap Launches = {} /\ Kernels \cap Launches = {}
    /\ (Buffers \cup {NoBuffer}) \cap (Launches \X Buffers) = {}
    /\ Nil \notin Kernels \cup Launches \cup Buffers \cup {NoBuffer} \cup (Launches \X Buffers)
    /\ Nil \notin (Kernels \cup Launches) \X (1 .. NArgs) \X Threads
    /\ HostBuffers \subseteq Buffers /\ NoBuffer \notin Buffers
    /\ Shared \subseteq Kernels /\ Awaited \subseteq Launches /\ Waiting \subseteq Launches
    /\ NArgs \in Nat \ {0} /\ MaxHeld \in Nat \ {0} /\ MaxDamaged \in Nat

VARIABLES
    live,    \* global_kernels_list: the kernels with a record
    refs,    \* kernel_info.ref_count
    head,    \* kernel_info.arg_list
    next,    \* kernel_arg.next
    buf,     \* kernel_arg.buffer
    heap,    \* the arguments that are allocated
    mem,     \* the buffers that have a record
    real,    \* the arguments the runtime has: kernel -> index -> value
    held,    \* the application's references to each kernel
    pc,      \* thread or callback -> where it is
    job,     \* thread -> the call it serves
    tmp,     \* thread or callback -> the count it has worked out
    races,   \* history: the counts two actors have been in at once, and the
             \* stand-ins taken apart before the callback was done with them
    launch,  \* launch -> the kernel, the kernel really launched, what the
             \* application passed, and the detector's list of duplicates
    report,  \* launch -> the buffers left to report, the one it is looking for,
             \* the argument it is looking at, and the indexes it has named
    wrong    \* what should not have happened

lists  == <<head, next, buf, heap>>
counts == <<live, refs, tmp, races>>
vars   == <<counts, lists, mem, real, held, pc, job, launch, report, wrong>>

-----------------------------------------------------------------------------
Ids    == Kernels \cup Launches
Actors == Threads \cup Launches
Index  == 1 .. NArgs
Nodes  == Ids \X Index \X Threads   \* kernel, index, and the thread that made it
Own(l, b) == <<l, b>>               \* the buffer that stands in for b
Fuel   == Cardinality(Nodes)

NoJob    == [kern |-> Nil, index |-> 0, value |-> NoBuffer, lp |-> Nil, node |-> Nil, launch |-> Nil]
NoLaunch == [kern |-> Nil, used |-> Nil, given |-> [i \in Index |-> NoBuffer], dupe |-> [i \in Index |-> i]]
NoReport == [todo |-> {}, cur |-> NoBuffer, at |-> Nil, named |-> {}]

Goto(a, p) == pc' = [pc EXCEPT ![a] = p]

Init ==
    /\ live = {} /\ refs = [k \in Ids |-> 0] /\ tmp = [a \in Actors |-> 0] /\ races = {}
    /\ head = [k \in Ids |-> Nil] /\ next = [n \in Nodes |-> Nil]
    /\ buf = [n \in Nodes |-> NoBuffer] /\ heap = {}
    /\ mem = Buffers
    /\ real = [k \in Kernels |-> [i \in Index |-> Nil]]
    /\ held = [k \in Kernels |-> 1]
    /\ pc = [a \in Actors |-> "idle"]
    /\ job = [t \in Threads |-> NoJob]
    /\ launch = [l \in Launches |-> NoLaunch]
    /\ report = [l \in Launches |-> NoReport]
    /\ wrong = {}

-----------------------------------------------------------------------------
(***************************************************************************)
(* The linked list (generic_lists.ipp).                                    *)
(***************************************************************************)

\* Where the pointers lead from n, one node after the other.
Trail(n) ==
    LET f[j \in 0 .. Fuel] ==
            IF j = 0 THEN n ELSE IF f[j - 1] = Nil THEN Nil ELSE next[f[j - 1]]
    IN  f

\* The first place on a trail that is one of the nodes or the end; -1: the trail has
\* no end, and the search goes on for ever with the lock taken.
Stop(trail, nodes) ==
    LET at == {j \in 0 .. Fuel : trail[j] \in nodes \cup {Nil}}
    IN  IF at = {} THEN -1 ELSE CHOOSE j \in at : \A m \in at : j <= m

\* find: the node of an index in the list that starts at n.
Find(n, i) ==
    LET tr == Trail(n)
        j  == Stop(tr, {x \in Nodes : x[2] >= i})
    IN  IF j # -1 /\ tr[j] # Nil /\ tr[j][2] = i THEN tr[j] ELSE Nil

Argument(k, i) == Find(head[k], i)

\* free: some nodes go, with what was in them; nx has the other pointers.
Free(nodes, nx) ==
    /\ heap' = heap \ nodes
    /\ next' = [n \in Nodes |-> IF n \in nodes THEN Nil ELSE nx[n]]
    /\ buf' = [n \in Nodes |-> IF n \in nodes THEN NoBuffer ELSE buf[n]]

\* The nodes of the list of k.
Listed(k) == {Trail(head[k])[j] : j \in 0 .. Fuel} \ {Nil}

-----------------------------------------------------------------------------
(***************************************************************************)
(* clSetKernelArg.                                                         *)
(***************************************************************************)

\* Another thread is setting the arguments of k, or launching it.
Busy(t, k) ==
    \E u \in Threads \ {t} :
        job[u].kern = k /\ (job[u].launch # Nil \/ pc[u] \in {"head", "remove", "insert"})

\* A check whose callback has yet to run.
Outstanding(l) == pc[l] # "idle"

\* The application does not disturb a report it waits for.
MayChange(k) == \A l \in Awaited : launch[l].kern = k => ~Outstanding(l)

\* The runtime has accepted the argument; the record is found or made.
SetKernelArg(t, k, i, b) ==
    /\ pc[t] = "idle" /\ held[k] > 0 /\ b \in {NoBuffer} \cup (mem \cap Buffers)
    /\ k \notin Shared => ~Busy(t, k)
    /\ MayChange(k)
    /\ real' = [real EXCEPT ![k][i] = b]
    /\ live' = live \cup {k}
    /\ refs' = IF k \in live THEN refs ELSE [refs EXCEPT ![k] = 1]
    /\ job' = [job EXCEPT ![t] = [NoJob EXCEPT !.kern = k, !.index = i, !.value = b]]
    /\ Goto(t, "head")
    /\ UNCHANGED <<tmp, races, lists, mem, held, launch, report, wrong>>

\* remove reads the head of the list, then takes the lock.
ReadHead(t) ==
    /\ pc[t] = "head"
    /\ job' = [job EXCEPT ![t].lp = head[job[t].kern]]
    /\ Goto(t, "remove")
    /\ UNCHANGED <<counts, lists, mem, real, held, launch, report, wrong>>

\* remove, under the lock; a node that is found is used again.
RemoveArg(t) ==
    /\ pc[t] = "remove"
    /\ LET k    == job[t].kern
           tr   == Trail(job[t].lp)
           j    == Stop(tr, {x \in Nodes : x[2] >= job[t].index})
           hit  == j # -1 /\ tr[j] # Nil /\ tr[j][2] = job[t].index
           node == IF hit THEN tr[j] ELSE <<k, job[t].index, t>>
       IN  /\ next' = IF hit /\ j > 0 THEN [next EXCEPT ![tr[j - 1]] = next[node]] ELSE next
           /\ head' = IF hit /\ j = 0 THEN [head EXCEPT ![k] = next[node]] ELSE head
           /\ heap' = heap \cup {node}
           /\ job' = [job EXCEPT ![t].node = node]
           /\ wrong' = IF j = -1 THEN wrong \cup {<<"endless", t>>} ELSE wrong
    /\ Goto(t, "insert")
    /\ UNCHANGED <<counts, buf, mem, real, held, launch, report>>

\* Mutant: the node is put behind the one it belongs before.
InsertArgLate(t) ==
    /\ pc[t] = "insert"
    /\ LET k    == job[t].kern
           node == job[t].node
           tr   == Trail(head[k])
           j    == Stop(tr, {x \in Nodes : x[2] > node[2]})
       IN  /\ j # -1
           /\ IF tr[j] # Nil
              THEN next' = [next EXCEPT ![tr[j]] = node, ![node] = next[tr[j]]] /\ UNCHANGED head
              ELSE /\ next' = IF j > 0 THEN [next EXCEPT ![node] = Nil, ![tr[j - 1]] = node]
                              ELSE [next EXCEPT ![node] = Nil]
                   /\ head' = IF j = 0 THEN [head EXCEPT ![k] = node] ELSE head
           /\ buf' = [buf EXCEPT ![node] = job[t].value]
           /\ wrong' = wrong
    /\ job' = [job EXCEPT ![t] = NoJob]
    /\ Goto(t, "idle")
    /\ UNCHANGED <<counts, heap, mem, real, held, launch, report>>

\* The argument gets its value; insert, which reads the head under the lock.
InsertArg(t) ==
    /\ pc[t] = "insert"
    /\ LET k    == job[t].kern
           node == job[t].node
           tr   == Trail(head[k])
           j    == Stop(tr, {x \in Nodes : node[2] < x[2]})
       IN  /\ IF j = -1
              THEN wrong' = wrong \cup {<<"endless", t>>} /\ UNCHANGED <<head, next>>
              ELSE /\ next' = CASE j = 0                -> [next EXCEPT ![node] = tr[j]]
                               [] j > 0 /\ tr[j] = Nil -> [next EXCEPT ![tr[j - 1]] = node, ![node] = Nil]
                               [] OTHER                 -> [next EXCEPT ![node] = tr[j], ![tr[j - 1]] = node]
                   /\ head' = IF j = 0 THEN [head EXCEPT ![k] = node] ELSE head
                   /\ UNCHANGED wrong
           /\ buf' = [buf EXCEPT ![node] = job[t].value]
    /\ job' = [job EXCEPT ![t] = NoJob]
    /\ Goto(t, "idle")
    /\ UNCHANGED <<counts, heap, mem, real, held, launch, report>>

-----------------------------------------------------------------------------
(***************************************************************************)
(* Reference counts: clRetainKernel and clReleaseKernel, by the            *)
(* application, by a launch and by a callback.                             *)
(***************************************************************************)

\* The kernel whose count an actor changes.
Counted(a) ==
    IF a \in Launches THEN launch[a].used
    ELSE IF job[a].launch # Nil THEN launch[job[a].launch].used ELSE job[a].kern

AfterInc(a) == IF job[a].launch # Nil THEN "verify" ELSE "idle"

\* A call is over when its thread is idle.
EndJob(a, p) == job' = IF a \in Threads /\ p = "idle" THEN [job EXCEPT ![a] = NoJob] ELSE job

\* The application has a new reference when clRetainKernel returns.
EndRetain(t, p) ==
    /\ Goto(t, p) /\ EndJob(t, p)
    /\ held' = IF p = "idle" THEN [held EXCEPT ![job[t].kern] = @ + 1] ELSE held

\* Several threads may retain and release a kernel that has a record.
MayCount(k) == k \in Shared \cup live \/ \A u \in Threads : job[u].kern # k

RetainKernel(t, k) ==
    /\ pc[t] = "idle" /\ held[k] \in 1 .. (MaxHeld - 1) /\ MayCount(k)
    /\ job' = [job EXCEPT ![t] = [NoJob EXCEPT !.kern = k]]
    /\ Goto(t, "inc")
    /\ UNCHANGED <<counts, lists, mem, real, held, launch, report, wrong>>

\* The application gives up a reference that no call of its needs.  The runtime
\* is never told.
ReleaseKernel(t, k) ==
    /\ pc[t] = "idle" /\ held[k] > Cardinality({u \in Threads : job[u].kern = k}) /\ MayCount(k)
    /\ held' = [held EXCEPT ![k] = @ - 1]
    /\ job' = [job EXCEPT ![t] = [NoJob EXCEPT !.kern = k]]
    /\ Goto(t, "dec")
    /\ UNCHANGED <<counts, lists, mem, real, launch, report, wrong>>

\* Where an actor has read a count and may look at it again.
Counting(a) == pc[a] \in {"incstore", "decstore", "drop"}

\* Nothing keeps two actors out of the same count.
ReadCount(a, k) ==
    races' = IF \E b \in Actors \ {a} : Counting(b) /\ Counted(b) = k
             THEN races \cup {<<k, "count">>} ELSE races

\* A record that is gone is read or written.
TouchGone(a) == wrong' = IF Counted(a) \in live THEN wrong ELSE wrong \cup {<<"gone", a>>}

\* ref_count++ reads the count; or a new record is made with two references, the
\* one from the creation and this one.
Inc(t) ==
    /\ pc[t] = "inc"
    /\ LET k == Counted(t)
       IN  IF k \in live
           THEN /\ tmp' = [tmp EXCEPT ![t] = refs[k] + 1] /\ ReadCount(t, k)
                /\ Goto(t, "incstore") /\ UNCHANGED <<live, refs, job, held>>
           ELSE /\ live' = live \cup {k} /\ refs' = [refs EXCEPT ![k] = 2]
                /\ EndRetain(t, AfterInc(t)) /\ UNCHANGED <<tmp, races>>
    /\ UNCHANGED <<lists, mem, real, launch, report, wrong>>

IncStore(t) ==
    /\ pc[t] = "incstore"
    /\ refs' = [refs EXCEPT ![Counted(t)] = tmp[t]]
    /\ tmp' = [tmp EXCEPT ![t] = 0]
    /\ TouchGone(t)
    /\ EndRetain(t, AfterInc(t))
    /\ UNCHANGED <<live, races, lists, mem, real, launch, report>>

\* ref_count--, if there is a record.
Dec(a) ==
    /\ pc[a] = "dec"
    /\ LET k == Counted(a)
       IN  IF k \in live
           THEN /\ tmp' = [tmp EXCEPT ![a] = refs[k] - 1] /\ ReadCount(a, k)
                /\ Goto(a, "decstore") /\ UNCHANGED job
           ELSE Goto(a, "idle") /\ EndJob(a, "idle") /\ UNCHANGED <<tmp, races>>
    /\ UNCHANGED <<live, refs, lists, mem, real, held, launch, report, wrong>>

DecStore(a) ==
    /\ pc[a] = "decstore"
    /\ refs' = [refs EXCEPT ![Counted(a)] = tmp[a]]
    /\ TouchGone(a)
    /\ Goto(a, "drop")
    /\ UNCHANGED <<live, tmp, races, lists, mem, real, held, job, launch, report>>

\* kinfo_remove and kinfo_delete: the record goes, with its arguments.
Remove(k) ==
    /\ live' = live \ {k} /\ head' = [head EXCEPT ![k] = Nil]
    /\ Free(Listed(k), next)

\* Mutant: a count of one is taken for the last.
DropEarly(a) ==
    /\ pc[a] = "drop"
    /\ LET k == Counted(a)
       IN  IF k \in live /\ refs[k] <= 1 THEN Remove(k) ELSE UNCHANGED <<live, lists>>
    /\ tmp' = [tmp EXCEPT ![a] = 0]
    /\ Goto(a, "idle") /\ EndJob(a, "idle")
    /\ UNCHANGED <<refs, races, mem, real, held, launch, report, wrong>>

\* At 0 the record goes, unless another actor has removed it.  The debug build
\* (-O0) reads the count again for that, the other (-O3) has it in a register.
Drop(a) ==
    /\ pc[a] = "drop"
    /\ \E again \in BOOLEAN :
          LET k == Counted(a)
              count == IF again THEN refs[k] ELSE tmp[a]
          IN  /\ IF k \in live /\ count = 0 THEN Remove(k) ELSE UNCHANGED <<live, lists>>
              /\ IF again THEN TouchGone(a) ELSE UNCHANGED wrong
    /\ tmp' = [tmp EXCEPT ![a] = 0]
    /\ Goto(a, "idle") /\ EndJob(a, "idle")
    /\ UNCHANGED <<refs, races, mem, real, held, launch, report>>

\* clReleaseMemObject by the application, which may be done with a buffer as soon
\* as the launches that use it are enqueued: the record of the buffer goes.
ReleaseMemObject(b) ==
    /\ b \in mem \cap Buffers
    /\ \A t \in Threads : job[t].value # b
    /\ \A t \in Threads : job[t].launch # Nil => \A i \in Index : launch[job[t].launch].given[i] # b
    /\ \A k \in Kernels : (\E i \in Index : real[k][i] = b) => MayChange(k)
    /\ mem' = mem \ {b}
    /\ UNCHANGED <<counts, lists, real, held, pc, job, launch, report, wrong>>

-----------------------------------------------------------------------------
(***************************************************************************)
(* A launch (kernelLaunchFunc).                                            *)
(***************************************************************************)

\* findDuplicates: the i-th node is taken for the i-th argument.
Duplicates(k) ==
    LET nth(i) == Trail(head[k])[i - 1]
    IN  [i \in Index |->
            LET same == {j \in 1 .. (i - 1) : buf[nth(j)] = buf[nth(i)]}
            IN  IF buf[nth(i)] = NoBuffer \/ same = {} THEN i ELSE CHOOSE j \in same : \A m \in same : j <= m]

\* The argument a stand-in gets.
Poisoned(l, b) == IF b \in HostBuffers THEN Own(l, b) ELSE b

\* createPoisonedKernel: the stand-in, its record and its buffers.
StandIn(t, l, k) ==
    LET node(i) == <<l, i, t>>
        value(i) == Poisoned(l, buf[Argument(k, i)])
        made == {node(i) : i \in Index}
    IN  /\ live' = live \cup {l} /\ refs' = [refs EXCEPT ![l] = 1]
        /\ head' = [head EXCEPT ![l] = node(1)]
        /\ next' = [n \in Nodes |-> IF n \notin made THEN next[n]
                                     ELSE IF n[2] < NArgs THEN node(n[2] + 1) ELSE Nil]
        /\ buf' = [n \in Nodes |-> IF n \in made THEN value(n[2]) ELSE buf[n]]
        /\ heap' = heap \cup made
        /\ mem' = mem \cup ({value(i) : i \in Index} \ {NoBuffer})

\* The record is looked up, and the kernel, or its stand-in, enqueued.
LaunchKernel(t, l, k) ==
    /\ pc[t] = "idle" /\ held[k] > 0 /\ launch[l] = NoLaunch
    /\ k \notin Shared => ~Busy(t, k)
    /\ \A i \in Index : real[k][i] \in mem \cup {NoBuffer}
    /\ LET hasHost == \E i \in Index : buf[Argument(k, i)] \in HostBuffers
           hasBuffer == \E i \in Index : buf[Argument(k, i)] # NoBuffer
       IN  CASE k \notin live ->
                  /\ wrong' = wrong \cup {<<"norecord", l>>}
                  /\ UNCHANGED <<counts, lists, mem, pc, job, launch>>
             [] k \in live /\ (\E i \in Index : Argument(k, i) = Nil) ->
                  /\ wrong' = wrong \cup {<<"short", l>>}
                  /\ UNCHANGED <<counts, lists, mem, pc, job, launch>>
             [] OTHER ->
                  /\ launch' = [launch EXCEPT ![l] = [kern |-> k, used |-> IF hasHost THEN l ELSE k,
                                                      given |-> real[k], dupe |-> Duplicates(k)]]
                  /\ IF hasHost THEN StandIn(t, l, k) ELSE UNCHANGED <<live, refs, lists, mem>>
                  /\ job' = IF hasBuffer THEN [job EXCEPT ![t] = [NoJob EXCEPT !.kern = k, !.launch = l]] ELSE job
                  /\ Goto(t, IF hasBuffer THEN "inc" ELSE "idle")
                  /\ UNCHANGED <<tmp, races, wrong>>
    /\ UNCHANGED <<real, held, report>>

\* The distinct buffers of the kernel that was launched.
CheckedBuffers(l) ==
    {buf[Argument(launch[l].used, i)] : i \in {j \in Index : launch[l].dupe[j] = j}} \ {NoBuffer}

\* A launch with a stand-in copies its buffers back and takes it apart.
AfterCheck(l) == IF launch[l].used = l THEN "clean" ELSE "idle"

\* analyze_check_results, which has retained the kernel: the check's callback is
\* set, and will find some of the buffers damaged; or it is waited for.  One
\* callback stands for the two a launch may have, for buffers and for images, each
\* with a reference of its own.
Verify(t) ==
    /\ pc[t] = "verify"
    /\ LET l == job[t].launch
           p == IF l \in Waiting THEN "wait" ELSE AfterCheck(l)
       IN  /\ \E damaged \in SUBSET CheckedBuffers(l) :
                  /\ Cardinality(damaged) <= MaxDamaged
                  /\ report' = [report EXCEPT ![l].todo = damaged]
           /\ pc' = [pc EXCEPT ![t] = p, ![l] = "due"]
           /\ EndJob(t, p)
    /\ UNCHANGED <<counts, lists, mem, real, held, launch, wrong>>

\* The callback that the thread has run itself is over.
CheckDone(t) ==
    /\ pc[t] = "wait" /\ ~Outstanding(job[t].launch)
    /\ LET p == AfterCheck(job[t].launch)
       IN  Goto(t, p) /\ EndJob(t, p)
    /\ UNCHANGED <<counts, lists, mem, real, held, launch, report, wrong>>

\* copyKernelBuffers waits for the queue; then delPoisonKernel takes the
\* arguments that are no duplicates off the stand-in, and its own buffers away.
\* clFinish need not wait for a callback, which may be walking the arguments.
DelPoisonKernel(t) ==
    /\ pc[t] = "clean"
    /\ LET l     == job[t].launch
           stays == {i \in Index : launch[l].dupe[i] # i}
           gone  == {n \in Listed(l) : n[2] \notin stays}
           after(i) == {j \in stays : j > i}
           first(S) == IF S = {} THEN Nil ELSE Argument(l, CHOOSE j \in S : \A m \in S : j <= m)
       IN  /\ head' = [head EXCEPT ![l] = first(stays)]
           /\ Free({n \in gone : buf[n] # NoBuffer},
                   [n \in Nodes |-> IF n \in Listed(l) \ gone THEN first(after(n[2])) ELSE next[n]])
           /\ mem' = mem \ {Own(l, b) : b \in HostBuffers}
           /\ races' = IF Outstanding(l) THEN races \cup {<<l, "args">>} ELSE races
    /\ Goto(t, "dec")
    /\ UNCHANGED <<live, refs, tmp, real, held, job, launch, report, wrong>>

-----------------------------------------------------------------------------
(***************************************************************************)
(* The callback (verify_callback).                                         *)
(***************************************************************************)

\* report_kernel_overflows: the next damaged buffer, or none is left.
ReportNext(l) ==
    /\ pc[l] = "due"
    /\ IF report[l].todo = {} THEN Goto(l, "dec") /\ UNCHANGED <<report, wrong>>
       ELSE /\ \E b \in report[l].todo :
                  report' = [report EXCEPT ![l].todo = @ \ {b}, ![l].cur = b, ![l].at = head[launch[l].used]]
            /\ wrong' = IF launch[l].used \in live THEN wrong ELSE wrong \cup {<<"freed", l>>}
            /\ Goto(l, "walk")
    /\ UNCHANGED <<counts, lists, mem, real, held, job, launch>>

\* The walk has ended at index i.
Named(l, i) == [report EXCEPT ![l].named = @ \cup {<<report[l].cur, i>>}, ![l].cur = NoBuffer, ![l].at = Nil]

\* Mutant: the walk stops one argument too early.
NameBufferShort(l) ==
    /\ pc[l] = "walk"
    /\ LET n == report[l].at
           b == report[l].cur
       IN  CASE n = Nil \/ next[n] = Nil ->
                  /\ report' = Named(l, 0)
                  /\ Goto(l, "due") /\ UNCHANGED wrong
             [] n # Nil /\ next[n] # Nil /\ buf[n] = b ->
                  /\ report' = Named(l, n[2])
                  /\ Goto(l, "due") /\ UNCHANGED wrong
             [] OTHER -> report' = [report EXCEPT ![l].at = next[n]] /\ UNCHANGED <<pc, wrong>>
    /\ UNCHANGED <<counts, lists, mem, real, held, job, launch>>

\* getBufferIndex, one argument; index 0 stands for -1, no argument.  What is
\* read of a record that is gone is undefined.
NameBuffer(l) ==
    /\ pc[l] = "walk"
    /\ LET n == report[l].at
           b == report[l].cur
       IN  CASE n = Nil ->
                  /\ report' = Named(l, 0)
                  /\ Goto(l, "due") /\ UNCHANGED wrong
             [] n # Nil /\ (n \notin heap \/ buf[n] \notin mem \cup {NoBuffer}) ->
                  wrong' = wrong \cup {<<"freed", l>>} /\ UNCHANGED <<report, pc>>
             [] n # Nil /\ n \in heap /\ buf[n] = b /\ b \in mem ->
                  /\ report' = Named(l, n[2])
                  /\ Goto(l, "due") /\ UNCHANGED wrong
             [] OTHER -> report' = [report EXCEPT ![l].at = next[n]] /\ UNCHANGED <<pc, wrong>>
    /\ UNCHANGED <<counts, lists, mem, real, held, job, launch>>

-----------------------------------------------------------------------------
ThreadStep(t) ==
    \/ ReadHead(t) \/ RemoveArg(t) \/ InsertArg(t) \/ Inc(t) \/ IncStore(t) \/ Verify(t)
    \/ CheckDone(t) \/ DelPoisonKernel(t)
    \/ \E k \in Kernels :
         \/ RetainKernel(t, k) \/ ReleaseKernel(t, k)
         \/ \E i \in Index, b \in Buffers \cup {NoBuffer} : SetKernelArg(t, k, i, b)
         \/ \E l \in Launches : LaunchKernel(t, l, k)

Callback(l) == ReportNext(l) \/ NameBuffer(l)

\* After something undefined nothing more is said.
Next ==
    /\ wrong = {}
    /\ \/ \E t \in Threads : ThreadStep(t)
       \/ \E l \in Launches : Callback(l)
       \/ \E a \in Actors : Dec(a) \/ DecStore(a) \/ Drop(a)
       \/ \E b \in Buffers : ReleaseMemObject(b)

Spec == Init /\ [][Next]_vars

-----------------------------------------------------------------------------
Reporting(l) == pc[l] \in {"due", "walk", "dec", "decstore"}

\* The references to k that somebody is entitled to.
Owed(k) ==
    LET by(P(_)) == Cardinality({t \in Threads : P(t)})
        plain(t) == job[t].launch = Nil /\ job[t].kern = k
        mine(t)  == job[t].launch = k   \* launching the stand-in k
    IN  (IF k \in Kernels
         THEN held[k] + by(LAMBDA t : plain(t) /\ pc[t] \in {"dec", "decstore"})
         ELSE by(LAMBDA t : mine(t) /\ pc[t] \in {"inc", "incstore", "verify", "wait", "clean", "dec", "decstore"}))
        + by(LAMBDA t : pc[t] = "verify" /\ Counted(t) = k)
        + Cardinality({l \in Launches : Reporting(l) /\ launch[l].used = k})

\* No two actors have been in one count at the same time.
CountsApart == \A k \in Ids : <<k, "count">> \notin races

\* As long as no two actors are in one count at once, a kernel that the application
\* holds and has set up, or that a check has yet to report on, has a record, whose
\* count is the number of those who need it, so that no launch fails for want of it
\* and no record is touched that is gone; and nothing of a stand-in outlives its
\* launch and its report: "Make sure that the user does not clRelease this kernel
\* and blow us up" (analyze_check_results).
Kept ==
    /\ \A l \in Launches : <<"norecord", l>> \notin wrong
    /\ \A a \in Actors : <<"gone", a>> \notin wrong
    /\ \A k \in Kernels : held[k] > 0 /\ (\E i \in Index : real[k][i] # Nil) => k \in live
    /\ \A l \in Launches : Reporting(l) => launch[l].used \in live
    /\ \A k \in live : refs[k] = Owed(k)
    /\ \A l \in live \cap Launches : Owed(l) > 0 \/ \E a \in Actors : pc[a] = "drop" /\ Counted(a) = l
    /\ \A l \in Launches : (\A t \in Threads : job[t].launch # l) => mem \cap {Own(l, b) : b \in Buffers} = {}

RecordKept == CountsApart => Kept

\* No two threads are in calls on one kernel at once: what an application with one
\* thread, or with a lock for each kernel, sees to.
ThreadsApart ==
    \A t, u \in Threads : t # u => job[t].kern # job[u].kern \/ job[t].kern = Nil

\* As long as no two actors are in one count at once, the list of a kernel holds,
\* between calls, each argument the application has set, once, in order, with its
\* latest value.
ArgsExact ==
    CountsApart =>
    /\ \A w \in wrong : w[1] \notin {"short", "endless"}
    /\ \A k \in live \cap Kernels : (\A t \in Threads : job[t].kern # k) =>
          /\ \A i \in Index : real[k][i] # Nil => Argument(k, i) # Nil /\ buf[Argument(k, i)] = real[k][i]
          /\ Cardinality(Listed(k)) = Cardinality({i \in Index : real[k][i] # Nil})
          /\ Listed(k) \subseteq heap

\* What is reported of launch l names the first argument as which the damaged
\* buffer was passed to that launch, and no record is read that is gone.
RightNames(l) ==
    /\ <<"freed", l>> \notin wrong
    /\ \A n \in report[l].named :
          /\ n[2] \in Index
          /\ LET b == launch[l].given[n[2]]
             IN  /\ n[1] = (IF launch[l].used = l THEN Poisoned(l, b) ELSE b)
                 /\ \A j \in 1 .. (n[2] - 1) : launch[l].given[j] # b

\* The stand-in of launch l was taken apart before its callback had run, which
\* cannot be if the call waits for the check.
Torn(l) == l \notin Waiting /\ <<l, "args">> \in races

\* A report names the right argument, whatever the other launches and callbacks
\* do, if the application leaves the kernel alone until then, as long as no two
\* actors are in one count at once; except after the stand-in was taken apart.
NamesArgument == CountsApart => \A l \in Awaited : Torn(l) \/ RightNames(l)

\* The same whatever is taken apart, which does not hold.
NamesRegardless == \A l \in Awaited : RightNames(l)

\* The same for an application that does not wait for callbacks, of which OpenCL
\* tells it nothing.
NamesEveryArgument == CountsApart => \A l \in Launches : Torn(l) \/ RightNames(l)
=============================================================================
