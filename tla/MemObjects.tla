----------------------------- MODULE MemObjects -----------------------------
(***************************************************************************)
(* The memory objects of the application as the detector knows them.       *)
(*                                                                         *)
(* Every cl_mem the wrappers create gets a record, kept in a table by      *)
(* handle; the record counts the references the application holds, so that *)
(* the detector forgets an object just before the runtime destroys it.     *)
(* A buffer with canaries is a sub-buffer, whose handle the application    *)
(* has, of a larger main buffer that is retained and released with it.     *)
(* The table has a lock; the records and the calls as a whole have none.   *)
(* With CLARMOR_PERFSTAT_MODE the wrappers also keep memory statistics.    *)
(*                                                                         *)
(* The runtime may give the handle of a destroyed object to a new one at   *)
(* once.  Each object of the model is created at most once, and its record *)
(* goes by the object's name: the table says which object's record is      *)
(* found under a handle.                                                   *)
(***************************************************************************)
EXTENDS Integers, FiniteSets

CONSTANTS
    Threads,    \* threads inside the wrappers
    Objects,    \* the objects that may be created (a bound)
    NoObject,
    Handles,    \* cl_mem values the runtime may return
    NoHandle,
    Kinds,      \* the kinds of object that are created: see AllKinds
    Makers,     \* who creates them: "user" or "internal" (internal_create)
    MaxRefs,    \* bound on the references the application holds to an object
    MayFail,    \* creation may fail
    Exclusive,  \* no two threads retain or release the same object at once
    Size,       \* size of an object as the application asked for it
    BufferPoison,  \* POISON_REGIONS * POISON_FILL_LENGTH
    ImagePoison,   \* what expandLastDimForFill adds to an image
    Modulus     \* 2^64: the statistics are uint64_t

\* A buffer with canaries, a buffer or an image over the application's memory
\* (CL_MEM_USE_HOST_PTR), a sub-buffer, an image with canaries.
AllKinds == {"buffer", "hostbuffer", "sub", "image", "hostimage"}

ASSUME MemAssumption ==
    /\ NoObject \notin Objects /\ NoHandle \notin Handles
    /\ Kinds \subseteq AllKinds /\ Makers \subseteq {"user", "internal"}
    /\ MaxRefs \in Nat \ {0}
    /\ MayFail \in BOOLEAN /\ Exclusive \in BOOLEAN
    /\ Size \in Nat \ {0} /\ BufferPoison \in Nat \ {0} /\ ImagePoison \in Nat \ {0}
    /\ Modulus \in Nat \ {0}

VARIABLES
    handle,    \* object -> its cl_mem (NoHandle: not created)
    kind,      \* object -> kind
    maker,     \* object -> maker
    refs,      \* object -> the runtime's reference count of the handle
    mainRefs,  \* object -> the wrapper's references to its main buffer
    held,      \* object -> references its owner holds
    table,     \* handle -> object whose record is found under it
    count,     \* object -> ref_count of its record
    freed,     \* objects whose record has been freed
    pc,        \* thread -> where it is in a wrapper
    job,       \* thread -> the object its call is about
    ptr,       \* thread -> findme: the object whose record it found
    val,       \* thread -> the ref_count it read
    dangling,  \* some thread used a record after it was freed
    stats,     \* total_user_mem, high_user_mem, current_user_mem, current_overhead_mem
    failed     \* a creation has failed (at most one: a bound)

objects == <<handle, kind, maker, refs, mainRefs, held>>
records == <<table, count, freed>>
locals  == <<job, ptr, val>>
vars    == <<objects, records, pc, locals, dangling, stats, failed>>

-----------------------------------------------------------------------------
HasCanary(k) == k \in {"buffer", "image"}

\* Only the handle of a buffer with canaries hides a larger buffer.
HasMain(o) == kind[o] = "buffer"

\* The record of an image over the application's memory never gets its handle.
Registered(k) == k # "hostimage"

\* What the detector adds to an object.
Poisoned(k) == IF k = "buffer" THEN BufferPoison ELSE IF k = "image" THEN ImagePoison ELSE 0

Wrap(n) == n % Modulus

Max2(a, b) == IF a > b THEN a ELSE b

\* The statistics of a creation; sub-buffers are not counted.
Counted(k, m) ==
    LET user == IF m = "user" /\ k # "sub" THEN Size ELSE 0
        over == (IF m = "internal" THEN Size ELSE 0) + Poisoned(k)
        now  == Wrap(stats.user + user)
    IN  [total |-> Wrap(stats.total + user),
         high  |-> IF k = "sub" THEN stats.high ELSE Max2(stats.high, now),
         user  |-> now,
         over  |-> IF k = "sub" THEN stats.over ELSE Wrap(stats.over + over)]

\* Mutant: what the canaries took is not given back.
UncountedUserOnly(k, m) == [stats EXCEPT !.user = Wrap(@ - (IF m = "user" THEN Size ELSE 0))]

\* The statistics when the last reference to an object goes.  The size of an
\* internal image is its expanded size; an internal object that is no image
\* is taken to have canaries.
Uncounted(k, m) ==
    IF m = "internal"
    THEN [stats EXCEPT !.over = Wrap(@ - (Size + (IF k = "image" THEN ImagePoison ELSE BufferPoison)))]
    ELSE [stats EXCEPT !.user = Wrap(@ - Size), !.over = Wrap(@ - Poisoned(k))]

Goto(t, p) == pc' = [pc EXCEPT ![t] = p]

\* The handles of objects that exist.
InUse == {handle[o] : o \in {x \in Objects : refs[x] > 0}}

Busy(t, o) == pc[t] # "idle" /\ job[t] = o

Quiet(o) == \A t \in Threads : ~Busy(t, o)

Init ==
    /\ handle = [o \in Objects |-> NoHandle]
    /\ kind = [o \in Objects |-> "buffer"]
    /\ maker = [o \in Objects |-> "user"]
    /\ refs = [o \in Objects |-> 0]
    /\ mainRefs = [o \in Objects |-> 0]
    /\ held = [o \in Objects |-> 0]
    /\ table = [h \in Handles |-> NoObject]
    /\ count = [o \in Objects |-> 0]
    /\ freed = {}
    /\ pc = [t \in Threads |-> "idle"]
    /\ job = [t \in Threads |-> NoObject]
    /\ ptr = [t \in Threads |-> NoObject]
    /\ val = [t \in Threads |-> 0]
    /\ dangling = FALSE
    /\ stats = [total |-> 0, high |-> 0, user |-> 0, over |-> 0]
    /\ failed = FALSE

-----------------------------------------------------------------------------
(***************************************************************************)
(* Creation: the runtime makes the object, then its record is inserted.    *)
(***************************************************************************)

\* A sub-buffer can be made of p: clCreateSubBuffer reads its record.
Parent(p) ==
    held[p] > 0 /\ kind[p] \in {"buffer", "hostbuffer"} /\ table[handle[p]] # NoObject

\* clCreateBuffer, clCreateSubBuffer, clCreateImage*: up to the runtime's answer.
Create(t, o, h, k, m) ==
    /\ pc[t] = "idle" /\ handle[o] = NoHandle
    /\ h \notin InUse
    /\ k = "sub" => \E p \in Objects : Parent(p)
    /\ m = "internal" => k \in {"buffer", "hostbuffer", "hostimage"}
    /\ handle' = [handle EXCEPT ![o] = h]
    /\ kind' = [kind EXCEPT ![o] = k]
    /\ maker' = [maker EXCEPT ![o] = m]
    /\ refs' = [refs EXCEPT ![o] = 1]
    /\ mainRefs' = [mainRefs EXCEPT ![o] = IF k = "buffer" THEN 1 ELSE 0]
    /\ count' = [count EXCEPT ![o] = 1]
    /\ job' = [job EXCEPT ![t] = o]
    /\ stats' = Counted(k, m)
    /\ Goto(t, "insert")
    /\ UNCHANGED <<held, table, freed, ptr, val, dangling, failed>>

\* The runtime makes no object: the statistics have been kept already.
CreateFails(t, k, m) ==
    /\ MayFail /\ ~failed
    /\ pc[t] = "idle" /\ k # "sub"
    /\ stats' = Counted(k, m)
    /\ failed' = TRUE
    /\ UNCHANGED <<objects, records, pc, locals, dangling>>

\* cl_mem_insert (which never overwrites); the application gets the handle.
Insert(t) ==
    /\ pc[t] = "insert"
    /\ LET o == job[t]
           h == handle[o]
       IN  /\ table' = IF Registered(kind[o]) /\ table[h] = NoObject
                       THEN [table EXCEPT ![h] = o] ELSE table
           /\ held' = [held EXCEPT ![o] = 1]
    /\ Goto(t, "idle")
    /\ UNCHANGED <<handle, kind, maker, refs, mainRefs, count, freed, locals, dangling, stats, failed>>

-----------------------------------------------------------------------------
(***************************************************************************)
(* References.                                                             *)
(***************************************************************************)

\* The threads that use a reference to o for the length of a call.
Pins(o) == Cardinality({t \in Threads : Busy(t, o) /\ pc[t] \in {"retain", "retained"}})

\* The call looks the record up and reads its count.
Find(t, o) ==
    /\ job' = [job EXCEPT ![t] = o]
    /\ ptr' = [ptr EXCEPT ![t] = table[handle[o]]]
    /\ val' = [val EXCEPT ![t] = IF ptr'[t] = NoObject THEN 0 ELSE count[ptr'[t]]]
    /\ dangling' = (dangling \/ ptr'[t] \in freed)

\* Writes n to the count of the record t has found.
StoreCount(t, n) ==
    /\ count' = IF ptr[t] = NoObject THEN count ELSE [count EXCEPT ![ptr[t]] = n]
    /\ dangling' = (dangling \/ ptr[t] \in freed)

\* clRetainMemObject,
RetainMemObject(t, o) ==
    /\ pc[t] = "idle"
    /\ maker[o] = "user" /\ held[o] > 0
    /\ held[o] + Pins(o) < MaxRefs
    /\ Exclusive => Quiet(o)
    /\ Find(t, o)
    /\ Goto(t, "retain")
    /\ UNCHANGED <<objects, records, stats, failed>>

\* ref_count++ (the store),
CountRetain(t) ==
    /\ pc[t] = "retain"
    /\ StoreCount(t, val[t] + 1)
    /\ Goto(t, "retained")
    /\ UNCHANGED <<objects, table, freed, locals, stats, failed>>

\* Mutant: the main buffer is forgotten.
RetainHandleOnly(t) ==
    /\ pc[t] = "retained"
    /\ refs' = [refs EXCEPT ![job[t]] = @ + 1]
    /\ held' = [held EXCEPT ![job[t]] = @ + 1]
    /\ Goto(t, "idle")
    /\ UNCHANGED <<handle, kind, maker, mainRefs, records, locals, dangling, stats, failed>>

\* and the runtime retains the handle and the main buffer.
RetainInRuntime(t) ==
    /\ pc[t] = "retained"
    /\ LET o == job[t] IN
          /\ refs' = [refs EXCEPT ![o] = @ + 1]
          /\ mainRefs' = [mainRefs EXCEPT ![o] = IF ptr[t] # NoObject /\ HasMain(o) THEN @ + 1 ELSE @]
          /\ held' = [held EXCEPT ![o] = @ + 1]
    /\ Goto(t, "idle")
    /\ UNCHANGED <<handle, kind, maker, records, locals, dangling, stats, failed>>

\* clReleaseMemObject, releaseInternalMemObject,
ReleaseMemObject(t, o) ==
    /\ pc[t] = "idle"
    /\ held[o] > Pins(o)
    /\ Exclusive => Quiet(o)
    /\ held' = [held EXCEPT ![o] = @ - 1]
    /\ Find(t, o)
    /\ Goto(t, "release")
    /\ UNCHANGED <<handle, kind, maker, refs, mainRefs, records, stats, failed>>

\* Mutant: the runtime's release comes first.
CountReleaseLate(t) ==
    /\ pc[t] = "release"
    /\ StoreCount(t, val[t] - 1)
    /\ refs' = [refs EXCEPT ![job[t]] = @ - 1]
    /\ Goto(t, IF ptr[t] # NoObject /\ val[t] = 1 THEN "remove" ELSE "main")
    /\ UNCHANGED <<handle, kind, maker, mainRefs, held, table, freed, locals, stats, failed>>

\* ref_count-- (the store),
CountRelease(t) ==
    /\ pc[t] = "release"
    /\ StoreCount(t, val[t] - 1)
    /\ Goto(t, IF ptr[t] # NoObject /\ val[t] = 1 THEN "remove" ELSE "runtime")
    /\ UNCHANGED <<objects, table, freed, locals, stats, failed>>

\* Mutant: the record is freed but stays in the table.
RemoveRecordNot(t) ==
    /\ pc[t] = "remove"
    /\ freed' = freed \cup ({table[handle[job[t]]]} \ {NoObject})
    /\ stats' = Uncounted(kind[ptr[t]], maker[job[t]])
    /\ Goto(t, "runtime")
    /\ UNCHANGED <<objects, table, count, locals, dangling, failed>>

\* the record of an unreferenced object goes,
RemoveRecord(t) ==
    /\ pc[t] = "remove"
    /\ LET h == handle[job[t]] IN
          /\ freed' = freed \cup ({table[h]} \ {NoObject})
          /\ table' = [table EXCEPT ![h] = NoObject]
    /\ dangling' = (dangling \/ ptr[t] \in freed)
    /\ stats' = Uncounted(kind[ptr[t]], maker[job[t]])
    /\ Goto(t, "runtime")
    /\ UNCHANGED <<objects, count, locals, failed>>

\* the runtime releases the handle,
ReleaseInRuntime(t) ==
    /\ pc[t] = "runtime"
    /\ refs' = [refs EXCEPT ![job[t]] = @ - 1]
    /\ Goto(t, IF ptr[t] # NoObject /\ HasMain(job[t]) THEN "main" ELSE "idle")
    /\ UNCHANGED <<handle, kind, maker, mainRefs, held, records, locals, dangling, stats, failed>>

\* and the main buffer, which the call has remembered.
ReleaseMain(t) ==
    /\ pc[t] = "main"
    /\ mainRefs' = [mainRefs EXCEPT ![job[t]] = @ - 1]
    /\ Goto(t, "idle")
    /\ UNCHANGED <<handle, kind, maker, refs, held, records, locals, dangling, stats, failed>>

-----------------------------------------------------------------------------
Step(t) ==
    \/ Insert(t)
    \/ CountRetain(t) \/ RetainInRuntime(t)
    \/ CountRelease(t) \/ RemoveRecord(t) \/ ReleaseInRuntime(t) \/ ReleaseMain(t)

Next ==
    \E t \in Threads :
        \/ Step(t)
        \/ \E k \in Kinds, m \in Makers :
              CreateFails(t, k, m) \/ \E o \in Objects, h \in Handles : Create(t, o, h, k, m)
        \/ \E o \in Objects : RetainMemObject(t, o) \/ ReleaseMemObject(t, o)

Spec == Init /\ [][Next]_vars

-----------------------------------------------------------------------------
\* A record found under a handle describes the object that has the handle now,
\* although handles are used again and the table has no part in that.
NoStaleRecord ==
    \A h \in Handles : table[h] # NoObject =>
        LET o == table[h] IN handle[o] = h /\ refs[o] > 0 /\ o \notin freed

\* Between calls the detector knows each existing object, counts the references
\* the runtime counts, and holds the main buffer exactly as often; it keeps
\* nothing of objects that are gone.
RecordTracks ==
    \A o \in Objects : handle[o] # NoHandle /\ Quiet(o) =>
        /\ held[o] = refs[o]
        /\ refs[o] > 0 /\ Registered(kind[o]) => table[handle[o]] = o /\ count[o] = refs[o]
        /\ mainRefs[o] = (IF HasMain(o) THEN refs[o] ELSE 0)

\* The detector knows every existing object between calls: it keeps "all of the
\* cl_memobj descriptors in the system" (cl_memory_lists.h).
EveryObjectKnown ==
    \A o \in Objects : refs[o] > 0 /\ Quiet(o) => table[handle[o]] = o

\* No call touches a record that another call has freed.
NoDangling == ~dangling
=============================================================================
