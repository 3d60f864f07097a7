------------------------------ MODULE SvmMemory ------------------------------
(***************************************************************************)
(* Shared virtual memory.                                                  *)
(*                                                                         *)
(* clSVMAlloc allocates room for a canary on either side of the memory the *)
(* application asked for, has the canaries filled, and records the memory  *)
(* under the pointer the application gets.  Fine-grained allocations never *)
(* go back to the runtime: cl_workaround_lists.cpp keeps them for the next *)
(* request.  The record table has a lock, these lists have none.           *)
(*                                                                         *)
(* A launch with an SVM argument checks all the SVM there is.  It walks    *)
(* the records twice, to count and to list them, and looks each one up     *)
(* again when it gets to it; the lock is held for one lookup at a time.    *)
(*                                                                         *)
(* Pointers are addresses of a small address space.  The application       *)
(* writes all the memory it gets.  Stray writes, and what a check makes of *)
(* a canary, are not part of this module; KernelLaunch has them.  Nor is   *)
(* the SVM into which create_svm_copies has canaries copied on the device, *)
(* which verify_callback frees: of the device's ways to check, only        *)
(* create_svm_ptr_copies is here.                                          *)
(***************************************************************************)
EXTENDS Integers, FiniteSets, Sequences

CONSTANTS
    Threads,
    Contexts,
    MaxAddress,  \* the last address of the address space (a bound)
    Sizes,       \* sizes the application asks for
    Alignments,  \* alignments it asks for
    Grains,      \* subset of {"fine", "coarse"}
    PoisonLen,   \* POISON_FILL_LENGTH
    OffsetModulus,  \* 2^32: clSVMAlloc keeps an offset in a uint32_t
    Frees,       \* subset of {"now", "enqueued"}: clSVMFree, clEnqueueSVMFree
    MapModes,    \* subset of {"blocking", "nonblocking"}
    Interior,    \* the application also maps parts of an allocation
    CheckWays,   \* subset of {"pointers", "copies"}: how the canaries are read
    CheckAlone,  \* while a launch looks for SVM to check, no other thread
                 \* allocates or frees any, or looks for any
    FineAlone    \* no two threads are in the unlocked lists at once

ASSUME SvmAssumption ==
    /\ MaxAddress \in Nat /\ Sizes \subseteq Nat \ {0} /\ Alignments \subseteq Nat
    /\ Grains \subseteq {"fine", "coarse"} /\ Frees \subseteq {"now", "enqueued"}
    /\ MapModes \subseteq {"blocking", "nonblocking"}
    /\ PoisonLen \in Nat \ {0} /\ OffsetModulus \in Nat \ {0}
    /\ CheckWays \subseteq {"pointers", "copies"}
    /\ Interior \in BOOLEAN /\ CheckAlone \in BOOLEAN /\ FineAlone \in BOOLEAN

VARIABLES
    blocks,     \* the runtime's allocations: base and size
    poisoned,   \* addresses that hold the poison value
    records,    \* global_cl_svm_mem_alloc
    allocated,  \* allocated_fg_svms: regions in use
    free,       \* free_fg_svms: regions to use again
    user,       \* what the application has been given and has not freed
    pc,         \* thread -> where it is in a wrapper
    job,        \* thread -> the request it serves
    fills,      \* thread -> addresses its enqueued fills have yet to write
    map,        \* the range asked to be mapped, the one the runtime got, whether
                \* that is still to be carried out, whether the call waits for
                \* it, and what the call fills when it returns
    badFree,    \* the runtime was asked to free what it never allocated
    check,      \* thread -> the check it is making
    exited      \* a check has ended the program: "no", "lost" or "nomemory"

lists == <<allocated, free>>
checks == <<check, exited>>
vars  == <<blocks, poisoned, records, lists, user, pc, job, fills, map, badFree, checks>>

-----------------------------------------------------------------------------
Bytes(from, n) == from .. (from + n - 1)

\* The canaries of n bytes at p.
Canary(p, n) == Bytes(p - PoisonLen, PoisonLen) \cup Bytes(p + n, PoisonLen)

\* The bytes of a request, canaries included.
Padded(n) == n + 2 * PoisonLen

NoJob == [ctx |-> 0, grain |-> "coarse", size |-> 0, align |-> 0, base |-> 0, enqueued |-> FALSE]

NoCheck == [phase |-> "none", at |-> 0, n |-> 0, list |-> <<>>, found |-> {}, copies |-> {}, due |-> {}, ctx |-> 0, way |-> ""]

NoMap == [asked |-> {}, got |-> {}, pending |-> FALSE, waits |-> FALSE, fill |-> {}]

Goto(t, p) == pc' = [pc EXCEPT ![t] = p]

\* Where a thread is in or about to enter the unlocked lists.
InLists(t) == pc[t] \in {"find", "take", "real", "fgfree"}

\* A thread that is not in a wrapper.
Ready(t) == pc[t] = "idle" /\ check[t] = NoCheck

\* Whether a thread may start a call that allocates or frees.
NoOtherCheck == CheckAlone => \A u \in Threads : check[u] = NoCheck

MayEnterLists == FineAlone => \A u \in Threads : ~InLists(u)

Init ==
    /\ blocks = {} /\ poisoned = {} /\ records = {} /\ allocated = {} /\ free = {} /\ user = {}
    /\ pc = [t \in Threads |-> "idle"]
    /\ job = [t \in Threads |-> NoJob]
    /\ fills = [t \in Threads |-> {}]
    /\ map = NoMap
    /\ badFree = FALSE
    /\ check = [t \in Threads |-> NoCheck] /\ exited = "no"

-----------------------------------------------------------------------------
(***************************************************************************)
(* clSVMAlloc.                                                             *)
(***************************************************************************)

SVMAlloc(t, c, g, n, al) ==
    /\ Ready(t) /\ NoOtherCheck
    /\ MayEnterLists
    /\ job' = [job EXCEPT ![t] = [NoJob EXCEPT !.ctx = c, !.grain = g, !.size = n, !.align = al]]
    /\ Goto(t, IF g = "fine" THEN "find" ELSE "real")
    /\ UNCHANGED <<blocks, poisoned, records, lists, user, fills, map, badFree, checks>>

\* The regions find_free_svm may return: the smallest that are large enough and
\* were allocated with the same alignment.
Fitting(j) ==
    LET fit == {r \in free : r.ctx = j.ctx /\ r.size >= Padded(j.size) /\ r.align = j.align}
    IN  {r \in fit : \A q \in fit : r.size <= q.size}

\* find_free_svm: the search,
FindFree(t) ==
    /\ pc[t] = "find"
    /\ IF Fitting(job[t]) = {}
       THEN Goto(t, "real") /\ UNCHANGED job
       ELSE /\ \E r \in Fitting(job[t]) : job' = [job EXCEPT ![t].base = r.base]
            /\ Goto(t, "take")
    /\ UNCHANGED <<blocks, poisoned, records, lists, user, fills, map, badFree, checks>>

\* Mutant: the region stays free.
TakeFreeNot(t) ==
    /\ pc[t] = "take"
    /\ allocated' = allocated \cup {r \in free : r.base = job[t].base}
    /\ Goto(t, "fill")
    /\ UNCHANGED <<blocks, poisoned, records, free, user, job, fills, map, badFree, checks>>

\* and the move of the region it found from one list to the other.
TakeFree(t) ==
    /\ pc[t] = "take"
    /\ LET found == {r \in free : r.base = job[t].base}
       IN  allocated' = allocated \cup found /\ free' = free \ found
    /\ Goto(t, "fill")
    /\ UNCHANGED <<blocks, poisoned, records, user, job, fills, map, badFree, checks>>

\* The places the runtime can put n bytes.
Room(n) ==
    {b \in 0 .. (MaxAddress + 1 - n) :
        \A k \in blocks : Bytes(b, n) \cap Bytes(k.base, k.size) = {}}

\* SVMAlloc and cl_svm_fg_alloc.  Memory comes with no poison in it.
RealAlloc(t) ==
    /\ pc[t] = "real"
    /\ LET j == job[t]
           n == Padded(j.size)
       IN  \E b \in Room(n) :
             /\ blocks' = blocks \cup {[base |-> b, size |-> n]}
             /\ poisoned' = poisoned \ Bytes(b, n)
             /\ allocated' = IF j.grain = "fine"
                             THEN allocated \cup {[ctx |-> j.ctx, base |-> b, size |-> n, align |-> j.align]}
                             ELSE allocated
             /\ job' = [job EXCEPT ![t].base = b]
    /\ Goto(t, "fill")
    /\ UNCHANGED <<records, free, user, fills, map, badFree, checks>>

\* The runtime has no memory: clSVMAlloc returns NULL.  A check copies to it all
\* the same, and exits on the error.
RealAllocFails(t) ==
    /\ pc[t] = "real"
    /\ Goto(t, "idle")
    /\ job' = [job EXCEPT ![t] = NoJob]
    /\ exited' = IF check[t] = NoCheck THEN exited ELSE "nomemory"
    /\ UNCHANGED <<blocks, poisoned, records, lists, user, fills, map, badFree, check>>

UserPtr(t) == job[t].base + PoisonLen

\* The fills of both canaries are enqueued.
EnqueueFills(t) ==
    /\ pc[t] = "fill"
    /\ LET offset == (job[t].size + PoisonLen) % OffsetModulus
       IN  fills' = [fills EXCEPT ![t] = Bytes(job[t].base, PoisonLen)
                                         \cup Bytes(job[t].base + offset, PoisonLen)]
    /\ Goto(t, "record")
    /\ UNCHANGED <<blocks, poisoned, records, lists, user, job, map, badFree, checks>>

\* The runtime carries the fills out.
RunFills(t) ==
    /\ fills[t] # {}
    /\ poisoned' = poisoned \cup fills[t]
    /\ fills' = [fills EXCEPT ![t] = {}]
    /\ UNCHANGED <<blocks, records, lists, user, pc, job, map, badFree, checks>>

\* cl_svm_mem_insert, which never overwrites.
Record(t) ==
    /\ pc[t] = "record"
    /\ records' = IF \E r \in records : r.handle = UserPtr(t) THEN records
                  ELSE records \cup {[handle |-> UserPtr(t), main |-> job[t].base,
                                      size |-> job[t].size, ctx |-> job[t].ctx]}
    /\ Goto(t, "wait")
    /\ UNCHANGED <<blocks, poisoned, lists, user, job, fills, map, badFree, checks>>

\* Who gets the memory: the application, or the check that wants room for a copy.
Give(t) ==
    LET j == job[t]
    IN  IF check[t] = NoCheck
        THEN /\ user' = user \cup {[by |-> t, ptr |-> UserPtr(t), size |-> j.size,
                                    ctx |-> j.ctx, grain |-> j.grain]}
             /\ UNCHANGED check
        ELSE /\ check' = [check EXCEPT ![t].copies = @ \cup {UserPtr(t)}]
             /\ UNCHANGED user

\* Mutant: the fills are not waited for.
NoWaitForFills(t) ==
    /\ pc[t] = "wait"
    /\ Give(t)
    /\ poisoned' = poisoned \ Bytes(UserPtr(t), job[t].size)
    /\ job' = [job EXCEPT ![t] = NoJob]
    /\ Goto(t, "idle")
    /\ UNCHANGED <<blocks, records, lists, fills, map, badFree, exited>>

\* clWaitForEvents; whoever gets the memory writes it.
WaitForFills(t) ==
    /\ pc[t] = "wait" /\ fills[t] = {}
    /\ Give(t)
    /\ poisoned' = poisoned \ Bytes(UserPtr(t), job[t].size)
    /\ job' = [job EXCEPT ![t] = NoJob]
    /\ Goto(t, "idle")
    /\ UNCHANGED <<blocks, records, lists, fills, map, badFree, exited>>

-----------------------------------------------------------------------------
(***************************************************************************)
(* clSVMFree and clEnqueueSVMFree.                                         *)
(***************************************************************************)

\* The record of p goes.  clSVMFree goes on with the pointer the runtime
\* returned, clEnqueueSVMFree with the application's.
ForgetSVM(t, c, p, how) ==
    LET found == {r \in records : r.handle = p}
    IN  /\ records' = records \ found
        /\ IF how = "now" /\ found = {}
           THEN Goto(t, "idle") /\ UNCHANGED job
           ELSE /\ job' = [job EXCEPT ![t] = [NoJob EXCEPT
                              !.ctx = c, !.enqueued = (how = "enqueued"),
                              !.base = IF how = "now" THEN (CHOOSE r \in found : TRUE).main ELSE p]]
                /\ Goto(t, "fgfree")

SVMFree(t, a, how) ==
    /\ Ready(t) /\ NoOtherCheck
    /\ MayEnterLists
    /\ map.asked \cap Bytes(a.ptr, a.size) = {}
    /\ user' = user \ {a}
    /\ ForgetSVM(t, a.ctx, a.ptr, how)
    /\ UNCHANGED <<blocks, poisoned, lists, fills, map, badFree, checks>>

\* Mutant: the runtime frees fine-grained memory, too.
FineFreeAlways(t) ==
    /\ pc[t] = "fgfree"
    /\ LET found == {r \in allocated : r.ctx = job[t].ctx /\ r.base = job[t].base}
       IN  allocated' = allocated \ found /\ free' = free \cup found
    /\ Goto(t, "realfree")
    /\ UNCHANGED <<blocks, poisoned, records, user, job, fills, map, badFree, checks>>

\* cl_svm_fg_free: clSVMFree keeps a region of the lists from the runtime,
\* clEnqueueSVMFree does not look at the answer.
FineFree(t) ==
    /\ pc[t] = "fgfree"
    /\ LET found == {r \in allocated : r.ctx = job[t].ctx /\ r.base = job[t].base}
       IN  /\ allocated' = allocated \ found /\ free' = free \cup found
           /\ Goto(t, IF found # {} /\ ~job[t].enqueued THEN "idle" ELSE "realfree")
    /\ UNCHANGED <<blocks, poisoned, records, user, job, fills, map, badFree, checks>>

\* The runtime's SVMFree or EnqueueSVMFree.
RealFree(t) ==
    /\ pc[t] = "realfree"
    /\ LET mine == {k \in blocks : k.base = job[t].base}
       IN  blocks' = blocks \ mine /\ badFree' = (badFree \/ mine = {})
    /\ job' = [job EXCEPT ![t] = NoJob]
    /\ Goto(t, "idle")
    /\ UNCHANGED <<poisoned, records, lists, user, fills, map, checks>>

-----------------------------------------------------------------------------
(***************************************************************************)
(* Lookup, clEnqueueSVMMap and clEnqueueSVMUnmap.                          *)
(***************************************************************************)

\* Mutant: only the pointer itself is found.
SvmFindExact(p) == {r \in records : r.handle = p}

\* cl_svm_mem_find: the last record that starts at p or before, if p is in it or
\* just behind it.
SvmFind(p) ==
    {r \in records :
        /\ r.handle <= p
        /\ \A q \in records : q.handle <= p => q.handle <= r.handle
        /\ p - r.handle <= r.size}

\* n bytes at offset k of an allocation are mapped: the runtime gets the range
\* with the canary in front of it.
SVMMap(t, a, k, n, mode, invalidate) ==
    /\ Ready(t) /\ map = NoMap /\ SvmFind(a.ptr + k) # {}
    /\ LET r == CHOOSE x \in SvmFind(a.ptr + k) : TRUE
       IN  map' = [asked |-> Bytes(a.ptr + k, n), got |-> Bytes(r.main, n + PoisonLen),
                   pending |-> invalidate, waits |-> (mode = "blocking"),
                   fill |-> IF invalidate THEN Bytes(r.main, PoisonLen) ELSE {}]
    /\ Goto(t, "mapping")
    /\ UNCHANGED <<blocks, poisoned, records, lists, user, job, fills, badFree, checks>>

\* The runtime carries out a map that invalidates: what that leaves in the
\* range is undefined.
RunMap ==
    /\ map.pending
    /\ map' = [map EXCEPT !.pending = FALSE]
    /\ poisoned' = poisoned \ map.got
    /\ UNCHANGED <<blocks, records, lists, user, pc, job, fills, badFree, checks>>

\* The runtime's call returns, for a blocking map after the map, and the wrapper
\* fills the canary of an invalidated range again.
MapReturns(t) ==
    /\ pc[t] = "mapping" /\ (map.waits => ~map.pending)
    /\ poisoned' = poisoned \cup map.fill
    /\ Goto(t, "idle")
    /\ UNCHANGED <<blocks, records, lists, user, job, fills, map, badFree, checks>>

\* The runtime gets the pointer it was given for the map.
SVMUnmap(t) ==
    /\ Ready(t) /\ map # NoMap /\ ~map.pending
    /\ \A u \in Threads : pc[u] # "mapping"
    /\ map' = NoMap
    /\ UNCHANGED <<blocks, poisoned, records, lists, user, pc, job, fills, badFree, checks>>

-----------------------------------------------------------------------------
(***************************************************************************)
(* A check looks for the SVM to check.                                     *)
(***************************************************************************)

\* cl_svm_mem_next: the handle of the first record behind p, or 0.
SvmNext(p) ==
    LET behind == {r.handle : r \in {q \in records : q.handle > p}}
    IN  IF behind = {} THEN 0 ELSE CHOOSE h \in behind : \A k \in behind : h <= k

\* The walk reads the record it got after the lock is released.
Gone(t) == check[t].at \notin {r.handle : r \in records}

Lose == exited' = "lost" /\ UNCHANGED check

\* A launch with an SVM argument starts to count (verifyBufferInBounds).
CheckSVM(t, c, way) ==
    /\ Ready(t) /\ user # {}
    /\ CheckAlone => \A u \in Threads \ {t} : Ready(u) \/ pc[u] = "mapping"
    /\ check' = [check EXCEPT ![t] = [NoCheck EXCEPT
                     !.phase = "count", !.at = SvmNext(0), !.due = user, !.ctx = c, !.way = way]]
    /\ UNCHANGED <<blocks, poisoned, records, lists, user, pc, job, fills, map, badFree, exited>>

\* Mutant: the last record is not counted.
CountSVMShort(t) ==
    /\ check[t].phase = "count"
    /\ IF check[t].at = 0 \/ SvmNext(check[t].at) = 0
       THEN check' = [check EXCEPT ![t].phase = "list", ![t].at = SvmNext(0)] /\ UNCHANGED exited
       ELSE check' = [check EXCEPT ![t].n = @ + 1, ![t].at = SvmNext(@)] /\ UNCHANGED exited
    /\ UNCHANGED <<blocks, poisoned, records, lists, user, pc, job, fills, map, badFree>>

\* One record is counted; then room is made for as many.
CountSVM(t) ==
    /\ check[t].phase = "count"
    /\ IF check[t].at = 0
       THEN check' = [check EXCEPT ![t].phase = "list", ![t].at = SvmNext(0)] /\ UNCHANGED exited
       ELSE IF Gone(t) THEN Lose
       ELSE check' = [check EXCEPT ![t].n = @ + 1, ![t].at = SvmNext(@)] /\ UNCHANGED exited
    /\ UNCHANGED <<blocks, poisoned, records, lists, user, pc, job, fills, map, badFree>>

\* One record is listed, as long as there is room.  What is left of the room
\* holds NULL.
ListSVM(t) ==
    /\ check[t].phase = "list"
    /\ LET l == check[t].list
       IN  IF check[t].at = 0 \/ Len(l) = check[t].n
           THEN /\ check' = [check EXCEPT ![t].phase = "find",
                                ![t].list = l \o [i \in 1 .. (check[t].n - Len(l)) |-> 0]]
                /\ UNCHANGED exited
           ELSE IF Gone(t) THEN Lose
           ELSE check' = [check EXCEPT ![t].list = Append(l, check[t].at), ![t].at = SvmNext(@)] /\ UNCHANGED exited
    /\ UNCHANGED <<blocks, poisoned, records, lists, user, pc, job, fills, map, badFree>>

\* One listed pointer is looked up (create_svm_ptr_copies, or, on the host,
\* set_up_svm_canary_copy, which leaves other contexts out and allocates SVM for
\* a copy of the canaries).
FindSVM(t) ==
    /\ check[t].phase = "find" /\ pc[t] = "idle" /\ check[t].list # <<>>
    /\ LET p == Head(check[t].list)
           r == CHOOSE x \in SvmFind(p) : TRUE
           copy == check[t].way = "copies" /\ r.ctx = check[t].ctx
       IN  IF SvmFind(p) = {} THEN Lose /\ UNCHANGED <<pc, job>>
           ELSE /\ check' = [check EXCEPT ![t].list = Tail(@), ![t].found = @ \cup {r.handle}]
                /\ IF copy
                   THEN /\ Goto(t, "real")
                        /\ job' = [job EXCEPT ![t] = [NoJob EXCEPT !.ctx = r.ctx, !.size = 2 * PoisonLen]]
                   ELSE UNCHANGED <<pc, job>>
                /\ UNCHANGED exited
    /\ UNCHANGED <<blocks, poisoned, records, lists, user, fills, map, badFree>>

\* Everything was found; the copies are compared.
Examine(t) ==
    /\ check[t].phase = "find" /\ pc[t] = "idle" /\ check[t].list = <<>>
    /\ check' = [check EXCEPT ![t].phase = "release"]
    /\ UNCHANGED <<blocks, poisoned, records, lists, user, pc, job, fills, map, badFree, exited>>

\* release_and_free: the copies are freed, one after the other.
FreeCopy(t) ==
    /\ check[t].phase = "release" /\ pc[t] = "idle"
    /\ \E p \in check[t].copies :
         /\ ForgetSVM(t, check[t].ctx, p, "now")
         /\ check' = [check EXCEPT ![t].copies = @ \ {p}]
    /\ UNCHANGED <<blocks, poisoned, lists, user, fills, map, badFree, exited>>

CheckDone(t) ==
    /\ check[t].phase = "release" /\ pc[t] = "idle" /\ check[t].copies = {}
    /\ check' = [check EXCEPT ![t] = NoCheck]
    /\ UNCHANGED <<blocks, poisoned, records, lists, user, pc, job, fills, map, badFree, exited>>

CheckStep(t) ==
    CountSVM(t) \/ ListSVM(t) \/ FindSVM(t) \/ Examine(t) \/ FreeCopy(t) \/ CheckDone(t)

-----------------------------------------------------------------------------
AllocStep(t) ==
    \/ FindFree(t) \/ TakeFree(t) \/ RealAlloc(t) \/ RealAllocFails(t)
    \/ EnqueueFills(t) \/ RunFills(t) \/ Record(t) \/ WaitForFills(t)

MapArguments(a) ==
    {m \in (0 .. (a.size - 1)) \X (1 .. a.size) : m[1] + m[2] <= a.size /\ (Interior \/ m[1] = 0)}

Steps ==
    \/ RunMap
    \/ \E t \in Threads :
         \/ AllocStep(t) \/ CheckStep(t) \/ FineFree(t) \/ RealFree(t) \/ MapReturns(t) \/ SVMUnmap(t)
         \/ \E c \in Contexts, g \in Grains, n \in Sizes, al \in Alignments : SVMAlloc(t, c, g, n, al)
         \/ \E c \in Contexts, way \in CheckWays : CheckSVM(t, c, way)
         \/ \E a \in user :
              \/ \E how \in Frees : SVMFree(t, a, how)
              \/ \E m \in MapArguments(a), mode \in MapModes, inv \in BOOLEAN :
                    SVMMap(t, a, m[1], m[2], mode, inv)

Next == exited = "no" /\ Steps

Spec == Init /\ [][Next]_vars

-----------------------------------------------------------------------------
Quiet == \A t \in Threads : Ready(t)

\* The bytes an allocation takes, canaries included.
Footprint(a) == Bytes(a.ptr - PoisonLen, Padded(a.size))

\* While the application has an allocation, the bytes on either side of it hold
\* the poison value, also in memory that was used before and is larger, except
\* where a call is mapping them: "These regions are filled with known values"
\* (README.txt).
CanariesReady ==
    LET mapped == IF \E t \in Threads : pc[t] = "mapping" THEN map.got ELSE {}
    IN  \A a \in user : Canary(a.ptr, a.size) \subseteq poisoned \cup mapped

\* The same of whatever is recorded, which is what a check of another thread
\* looks at.
RecordedCanariesReady ==
    \A r \in records : Canary(r.handle, r.size) \subseteq poisoned

\* No two allocations share a byte, canaries included, and all their memory is
\* the runtime's to give.
Apart ==
    \A a \in user :
        /\ \E k \in blocks : Footprint(a) \subseteq Bytes(k.base, k.size)
        /\ \A b \in user \ {a} : Footprint(a) \cap Footprint(b) = {}

\* Every address of an allocation leads to its record, and none to another's.
FoundRight ==
    \A a \in user : \A p \in Bytes(a.ptr, a.size) :
        \E r \in SvmFind(p) : r.handle = a.ptr /\ r.size = a.size

\* Between calls the lists hold the fine-grained memory of the application, and
\* what is free in them is memory the runtime has not taken back.
CacheExact ==
    /\ Quiet => {r.base : r \in allocated} = {a.ptr - PoisonLen : a \in {x \in user : x.grain = "fine"}}
    /\ \A r \in allocated \cup free : [base |-> r.base, size |-> r.size] \in blocks

\* A check examines every allocation that the application had when it began and
\* has still, and never misses one it has listed, for which it would end the
\* program: "the canary values of all buffers the kernel could possibly touch are
\* analyzed" (README.txt).
AllExamined ==
    /\ exited # "lost"
    /\ \A t \in Threads : check[t].phase = "release" =>
          \A a \in check[t].due \cap user : a.ptr \in check[t].found

\* The runtime is only asked to free what it has allocated: "prevent any weird
\* use-after-free stuff" (clEnqueueSVMFree).
FreesOwnMemory == ~badFree

\* What the application has mapped is in the range the runtime has mapped: a
\* pointer "somewhere inside this buffer" is as good as its start.
MapCovers == map.asked \subseteq map.got
=============================================================================
