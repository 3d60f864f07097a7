---------------------------- MODULE ContextQueues ----------------------------
(***************************************************************************)
(* The command queues the detector works with.                             *)
(*                                                                         *)
(* Canaries are filled, read and copied through a queue of the buffer's    *)
(* context.  The wrappers that create queues remember one queue for each   *)
(* context; getCommandQueueForContext returns it, or makes one.  Wrapper   *)
(* calls of several threads overlap; command_queue_cache_lock covers some  *)
(* of their steps.                                                         *)
(*                                                                         *)
(* The cache entry's ref_count is left out: the code that would read it is *)
(* compiled out of clReleaseCommandQueue.                                  *)
(***************************************************************************)
EXTENDS Naturals

CONSTANTS
    Threads,    \* application threads inside some wrapper
    Contexts,
    Handles,    \* queue handles the runtime may return (a bound)
    NoContext,  \* the context of a handle not in use
    NoEntry,    \* the cache has nothing for a context
    NullQueue,  \* what the runtime returns when a creation fails
    App,        \* the application, as the maker of a queue
    Rough,      \* contexts where creations may fail and the application makes
                \* on-device queues, too
    MaxRefs     \* bound on the references to one queue

ASSUME QueueAssumption ==
    /\ NoContext \notin Contexts
    /\ NullQueue \notin Handles /\ NoEntry \notin Handles \cup {NullQueue}
    /\ App \notin Threads
    /\ Rough \subseteq Contexts
    /\ MaxRefs \in Nat \ {0}

VARIABLES
    ctx,     \* queue -> its context
    kind,    \* queue -> "host" or "device" (CL_QUEUE_ON_DEVICE)
    maker,   \* queue -> App, or the thread whose detector code made it
    refs,    \* queue -> the runtime's reference count
    held,    \* queue -> references the application believes it holds
    cache,   \* context -> the remembered queue
    pc,      \* thread -> where it is in a wrapper
    want,    \* thread -> the context it works for
    fresh,   \* thread -> the queue it has created and not yet remembered
    given,   \* <<c, q>>: detector code was given q to work in context c
    exited   \* check_cl_error ended the process

objects == <<ctx, kind, maker, refs, held>>
vars == <<objects, cache, pc, want, fresh, given, exited>>

Entries == Handles \cup {NullQueue, NoEntry}

Init ==
    /\ ctx = [q \in Handles |-> NoContext]
    /\ kind = [q \in Handles |-> "host"]
    /\ maker = [q \in Handles |-> App]
    /\ refs = [q \in Handles |-> 0]
    /\ held = [q \in Handles |-> 0]
    /\ cache = [c \in Contexts |-> NoEntry]
    /\ pc = [t \in Threads |-> "idle"]
    /\ want = [t \in Threads |-> NoContext]
    /\ fresh = [t \in Threads |-> NullQueue]
    /\ given = {}
    /\ exited = FALSE

\* The runtime creates queue q of kind k in context c for m.
Create(q, c, k, m) ==
    /\ refs[q] = 0
    /\ ctx' = [ctx EXCEPT ![q] = c]
    /\ kind' = [kind EXCEPT ![q] = k]
    /\ maker' = [maker EXCEPT ![q] = m]
    /\ refs' = [refs EXCEPT ![q] = 1]
    /\ held' = [held EXCEPT ![q] = IF m = App THEN 1 ELSE 0]

\* The runtime returns queue e, or NullQueue without creating anything.
Obtain(e, c, k, m) ==
    \/ e = NullQueue /\ c \in Rough /\ UNCHANGED objects
    \/ e \in Handles /\ Create(e, c, k, m)

\* Mutant: the newest queue replaces the remembered one.
RememberLast(c, e) == cache' = [cache EXCEPT ![c] = e]

\* commandQueueCache_insert: an existing entry stays as it is.
Remember(c, e) == cache' = IF cache[c] = NoEntry THEN [cache EXCEPT ![c] = e] ELSE cache

\* The wrapper returns and its locals are gone.
Return(t) ==
    /\ pc' = [pc EXCEPT ![t] = "idle"]
    /\ want' = [want EXCEPT ![t] = NoContext]
    /\ fresh' = [fresh EXCEPT ![t] = NullQueue]

-----------------------------------------------------------------------------
\* The application calls clCreateCommandQueue: one critical section.
CreateCommandQueue(t, c, e) ==
    /\ ~exited /\ pc[t] = "idle"
    /\ Obtain(e, c, "host", App)
    /\ Remember(c, e)
    /\ UNCHANGED <<pc, want, fresh, given, exited>>

\* It calls clCreateCommandQueueWithProperties: the queue is created first,
CreateWithProperties(t, c, e, k) ==
    /\ ~exited /\ pc[t] = "idle"
    /\ k = "host" \/ c \in Rough
    /\ Obtain(e, c, k, App)
    /\ pc' = [pc EXCEPT ![t] = "created"]
    /\ want' = [want EXCEPT ![t] = c]
    /\ fresh' = [fresh EXCEPT ![t] = e]
    /\ UNCHANGED <<cache, given, exited>>

\* and remembered under the lock.
InsertCreated(t) ==
    /\ ~exited /\ pc[t] = "created"
    /\ Remember(want[t], fresh[t])
    /\ Return(t)
    /\ UNCHANGED <<objects, given, exited>>

\* clRetainCommandQueue reaches the runtime.
RetainCommandQueue(q) ==
    /\ ~exited
    /\ held[q] > 0 /\ refs[q] < MaxRefs
    /\ held' = [held EXCEPT ![q] = @ + 1]
    /\ refs' = [refs EXCEPT ![q] = @ + 1]
    /\ UNCHANGED <<ctx, kind, maker, cache, pc, want, fresh, given, exited>>

\* Mutant: the release reaches the runtime, which destroys unreferenced queues.
ReleaseForReal(q) ==
    /\ ~exited
    /\ held[q] > 0
    /\ held' = [held EXCEPT ![q] = @ - 1]
    /\ refs' = [refs EXCEPT ![q] = @ - 1]
    /\ ctx' = [ctx EXCEPT ![q] = IF refs[q] = 1 THEN NoContext ELSE @]
    /\ UNCHANGED <<kind, maker, cache, pc, want, fresh, given, exited>>

\* clReleaseCommandQueue says CL_SUCCESS and leaks the queue.
ReleaseCommandQueue(q) ==
    /\ ~exited
    /\ held[q] > 0
    /\ held' = [held EXCEPT ![q] = @ - 1]
    /\ UNCHANGED <<ctx, kind, maker, refs, cache, pc, want, fresh, given, exited>>

-----------------------------------------------------------------------------
\* Mutant: the entry is used without looking whether there is one.
FindUnchecked(t, c) ==
    /\ ~exited /\ pc[t] = "idle"
    /\ pc' = [pc EXCEPT ![t] = "found"]
    /\ want' = [want EXCEPT ![t] = c]
    /\ UNCHANGED <<objects, cache, fresh, given, exited>>

\* getCommandQueueForContext looks the context up under the lock,
FindQueue(t, c) ==
    /\ ~exited /\ pc[t] = "idle"
    /\ pc' = [pc EXCEPT ![t] = IF cache[c] = NoEntry THEN "missed" ELSE "found"]
    /\ want' = [want EXCEPT ![t] = c]
    /\ UNCHANGED <<objects, cache, fresh, given, exited>>

\* and reads the entry it found after giving the lock back.
ReadEntry(t) ==
    /\ ~exited /\ pc[t] = "found"
    /\ given' = given \cup {<<want[t], cache[want[t]]>>}
    /\ Return(t)
    /\ UNCHANGED <<objects, cache, exited>>

\* Mutant: the queue is created behind the wrapper's back, so not remembered.
MakeUncached(t, e) ==
    /\ ~exited /\ pc[t] = "missed"
    /\ Obtain(e, want[t], "host", t)
    /\ exited' = (e = NullQueue)
    /\ given' = IF e = NullQueue THEN given ELSE given \cup {<<want[t], e>>}
    /\ Return(t)
    /\ UNCHANGED cache

\* After a miss it calls the wrapper clCreateCommandQueue, whose failure is fatal.
MakeQueue(t, e) ==
    /\ ~exited /\ pc[t] = "missed"
    /\ Obtain(e, want[t], "host", t)
    /\ Remember(want[t], e)
    /\ exited' = (e = NullQueue)
    /\ given' = IF e = NullQueue THEN given ELSE given \cup {<<want[t], e>>}
    /\ Return(t)

Next ==
    \/ \E t \in Threads :
          \/ \E c \in Contexts, e \in Handles \cup {NullQueue} :
                \/ CreateCommandQueue(t, c, e)
                \/ \E k \in {"host", "device"} : CreateWithProperties(t, c, e, k)
          \/ \E c \in Contexts : FindQueue(t, c)
          \/ \E e \in Handles \cup {NullQueue} : MakeQueue(t, e)
          \/ InsertCreated(t) \/ ReadEntry(t)
    \/ \E q \in Handles : RetainCommandQueue(q) \/ ReleaseCommandQueue(q)

Spec == Init /\ [][Next]_vars

-----------------------------------------------------------------------------
\* Every variable stays within what the code can store in it.
QueueTypeOK ==
    /\ ctx \in [Handles -> Contexts \cup {NoContext}]
    /\ kind \in [Handles -> {"host", "device"}]
    /\ maker \in [Handles -> Threads \cup {App}]
    /\ refs \in [Handles -> 0 .. MaxRefs] /\ held \in [Handles -> 0 .. MaxRefs]
    /\ cache \in [Contexts -> Entries]
    /\ pc \in [Threads -> {"idle", "created", "found", "missed"}]
    /\ want \in [Threads -> Contexts \cup {NoContext}]
    /\ fresh \in [Threads -> Handles \cup {NullQueue}]
    /\ given \in SUBSET (Contexts \X (Handles \cup {NullQueue}))
    /\ exited \in BOOLEAN

\* "You should always be able to get a legal command queue out of this call"
\* (wrapper_utils.h): every queue the detector was ever given for a context is
\* a queue of that context that the host can enqueue on, and it is still alive,
\* whatever the application retained and released since.  In a rough context
\* the call does not deliver that: the first queue is remembered, be it null or
\* on the device.
LegalQueue ==
    \A p \in given : p[1] \notin Rough =>
        /\ p[2] \in Handles
        /\ ctx[p[2]] = p[1] /\ kind[p[2]] = "host" /\ refs[p[2]] > 0

\* An entry is read after the lock is given back, so it must never change.
EntryStable ==
    [][\A c \in Contexts : cache[c] # NoEntry => cache'[c] = cache[c]]_vars

\* The queues the detector itself made in context c.
Own(c) == {q \in Handles : refs[q] > 0 /\ ctx[q] = c /\ maker[q] # App}

\* The leak is bounded: a thread never makes a second queue for a context.
OneOwnQueuePerThread ==
    \A c \in Contexts : \A p, q \in Own(c) : maker[p] = maker[q] => p = q

\* "We cache these command queues so that we only create one per context"
\* (the comment in clCreateCommandQueue), of the queues the detector makes.
OneOwnQueue == \A c \in Contexts : \A p, q \in Own(c) : p = q
=============================================================================
