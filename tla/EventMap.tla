------------------------------ MODULE EventMap ------------------------------
(***************************************************************************)
(* The detector's map from the events the application sees to the events   *)
(* of its kernels.                                                         *)
(*                                                                         *)
(* The event a launch returns completes with the detector's checks, so the *)
(* wrapper keeps the kernel's own event for clGetEventProfilingInfo.  It   *)
(* counts the application's references next to the runtime to learn when   *)
(* the kernel's event is no longer needed.  The map has a lock; the counts *)
(* in its entries do not.                                                  *)
(***************************************************************************)
EXTENDS Integers, FiniteSets

CONSTANTS
    Threads,    \* threads of the application
    Launches,   \* kernel launches
    Events,     \* event handles the runtime may return (a bound)
    Nil,        \* no event, no entry, an event variable never written
    Asking,     \* commands whose caller asks for an event
    Unchecked,  \* launches of kernels with nothing to check
    Alone,      \* threads retain and release an event one at a time
    MaxRefs     \* bound on the references to one event

ASSUME EventAssumption ==
    /\ Nil \notin Events /\ Nil \notin Launches
    /\ Nil \notin [ref : Int, internal : Launches \cup {Nil}]
    /\ Unchecked \subseteq Launches
    /\ Alone \in BOOLEAN /\ MaxRefs \in Nat \ {0}

VARIABLES
    of,      \* event -> the command it is the event of
    refs,    \* event -> the runtime's reference count
    held,    \* event -> references the application has not begun to release
    entry,   \* cl_evt_list: event -> Nil, or ref_count and internal_event
    inner,   \* launch -> references to its kernel's own event
    pc,      \* thread -> where it is in clRetainEvent or clReleaseEvent
    job      \* thread -> the event it retains or releases

events == <<of, refs, held, entry, inner, pc, job>>

EventInit ==
    /\ of = [e \in Events |-> Nil]
    /\ refs = [e \in Events |-> 0]
    /\ held = [e \in Events |-> 0]
    /\ entry = [e \in Events |-> Nil]
    /\ inner = [l \in Launches |-> 0]
    /\ pc = [t \in Threads |-> "idle"]
    /\ job = [t \in Threads |-> Nil]

-----------------------------------------------------------------------------
\* The runtime returns event e for command c.
NewEvent(e, c) ==
    /\ refs[e] = 0 /\ of[e] = Nil
    /\ of' = [of EXCEPT ![e] = c]
    /\ refs' = [refs EXCEPT ![e] = 1]
    /\ held' = [held EXCEPT ![e] = 1]

\* An entry found is kept, count and all, and gets the new kernel's event.
Insert(e, l) ==
    entry' = [entry EXCEPT ![e] = [ref |-> IF @ = Nil THEN 1 ELSE @.ref, internal |-> l]]

\* Launch l has been enqueued with an event of the detector's own.  If its
\* caller asks for an event, verifyBufferInBounds returns one, unless there is
\* nothing to check: then what the caller's variable held before is mapped.
ReturnEvent(l, e) ==
    /\ inner' = [inner EXCEPT ![l] = 1]
    /\ IF l \notin Asking THEN e = Nil /\ UNCHANGED <<of, refs, held, entry>>
       ELSE IF l \notin Unchecked THEN e \in Events /\ NewEvent(e, l) /\ Insert(e, l)
       ELSE /\ IF e = Nil THEN UNCHANGED entry ELSE Insert(e, l)
            /\ UNCHANGED <<of, refs, held>>
    /\ UNCHANGED <<pc, job>>

-----------------------------------------------------------------------------
\* Threads inside clRetainEvent or clReleaseEvent for e.
Users(e) == {t \in Threads : job[t] = e}

\* A caller owns a reference: one more than calls in progress rely on.
MayUse(t, e) ==
    /\ pc[t] = "idle"
    /\ held[e] > Cardinality({u \in Users(e) : pc[u] \in {"found", "missed"}})
    /\ Alone => Users(e) = {}

At(t, e, where) ==
    /\ pc' = [pc EXCEPT ![t] = where]
    /\ job' = [job EXCEPT ![t] = e]

\* clRetainEvent finds the event's entry or not,
RetainEvent(t, e) ==
    /\ MayUse(t, e) /\ refs[e] < MaxRefs
    /\ At(t, e, IF entry[e] = Nil THEN "missed" ELSE "found")
    /\ UNCHANGED <<of, refs, held, entry, inner>>

\* Mutant: the first retain counts the caller's new reference only.
CountRetainOne(t) ==
    /\ \/ pc[t] = "found" /\ entry[job[t]] # Nil
          /\ entry' = [entry EXCEPT ![job[t]].ref = @ + 1]
       \/ pc[t] = "missed"
          /\ entry' = [entry EXCEPT ![job[t]] = IF @ = Nil THEN [ref |-> 1, internal |-> Nil] ELSE @]
    /\ refs' = [refs EXCEPT ![job[t]] = @ + 1]
    /\ held' = [held EXCEPT ![job[t]] = @ + 1]
    /\ At(t, Nil, "idle")
    /\ UNCHANGED <<of, inner>>

\* inserts one if not, counts, and calls the runtime.  An entry another thread
\* inserted meanwhile stays, and the count goes to a record nobody finds.
CountRetain(t) ==
    /\ \/ pc[t] = "found" /\ entry[job[t]] # Nil
          /\ entry' = [entry EXCEPT ![job[t]].ref = @ + 1]
       \/ pc[t] = "missed"
          /\ entry' = [entry EXCEPT ![job[t]] = IF @ = Nil THEN [ref |-> 2, internal |-> Nil] ELSE @]
    /\ refs' = [refs EXCEPT ![job[t]] = @ + 1]
    /\ held' = [held EXCEPT ![job[t]] = @ + 1]
    /\ At(t, Nil, "idle")
    /\ UNCHANGED <<of, inner>>

\* clReleaseEvent counts down if there is an entry,
ReleaseEvent(t, e) ==
    /\ MayUse(t, e)
    /\ held' = [held EXCEPT ![e] = @ - 1]
    /\ entry' = IF entry[e] = Nil THEN entry ELSE [entry EXCEPT ![e].ref = @ - 1]
    /\ At(t, e, IF entry[e] = Nil THEN "releasing" ELSE "checking")
    /\ UNCHANGED <<of, refs, inner>>

\* Mutant: the kernel's event is given back with the first release.
CheckCountNot(t) ==
    LET e == job[t] IN
    /\ pc[t] = "checking" /\ entry[e] # Nil
    /\ entry' = [entry EXCEPT ![e] = IF @.ref = 0 THEN Nil ELSE [@ EXCEPT !.internal = Nil]]
    /\ inner' = IF entry[e].internal = Nil THEN inner
                ELSE [inner EXCEPT ![entry[e].internal] = @ - 1]
    /\ At(t, e, "releasing")
    /\ UNCHANGED <<of, refs, held>>

\* at zero gives the kernel's event back and removes the entry,
CheckCount(t) ==
    LET e == job[t] IN
    /\ pc[t] = "checking" /\ entry[e] # Nil
    /\ IF entry[e].ref = 0
         THEN /\ entry' = [entry EXCEPT ![e] = Nil]
              /\ inner' = IF entry[e].internal = Nil THEN inner
                          ELSE [inner EXCEPT ![entry[e].internal] = @ - 1]
         ELSE UNCHANGED <<entry, inner>>
    /\ At(t, e, "releasing")
    /\ UNCHANGED <<of, refs, held>>

\* and calls the runtime, which may use the handle again after the last release.
RuntimeRelease(t) ==
    LET e == job[t] IN
    /\ pc[t] = "releasing"
    /\ refs' = [refs EXCEPT ![e] = @ - 1]
    /\ of' = [of EXCEPT ![e] = IF refs[e] = 1 THEN Nil ELSE @]
    /\ At(t, Nil, "idle")
    /\ UNCHANGED <<held, entry, inner>>

EventStep(t) ==
    \/ \E e \in Events : RetainEvent(t, e) \/ ReleaseEvent(t, e)
    \/ CountRetain(t) \/ CheckCount(t) \/ RuntimeRelease(t)

-----------------------------------------------------------------------------
\* The command whose times clGetEventProfilingInfo reports for e: with no
\* kernel in the map, those of the command the event belongs to.
GetEventProfilingInfo(e) ==
    IF entry[e] # Nil /\ entry[e].internal # Nil THEN <<"kernel", entry[e].internal>>
    ELSE <<"event", of[e]>>

\* "We have a map of user-visible events to the 'internal' event that they
\* actually want the profiling info from" (clGetEventProfilingInfo): as long as
\* the application holds an event, its profile is that of its own kernel, whose
\* event still exists, or of its own command.
ProfilesOwn ==
    \A e \in Events : held[e] > 0 =>
        /\ GetEventProfilingInfo(e) = <<IF of[e] \in Launches THEN "kernel" ELSE "event", of[e]>>
        /\ of[e] \in Launches => inner[of[e]] = 1

\* Between calls an entry counts what the runtime counts and belongs to a live
\* event; inside one it is not freed under the caller.  A kernel's event the
\* application asked for lives exactly as long as the entry.
EventsExact ==
    /\ \A e \in Events : Users(e) = {} /\ entry[e] # Nil => entry[e].ref = refs[e] /\ of[e] # Nil
    /\ \A t \in Threads : pc[t] \in {"checking", "found"} => entry[job[t]] # Nil
    /\ \A l \in Launches \cap Asking :
           inner[l] = Cardinality({e \in Events : entry[e] # Nil /\ entry[e].internal = l})
=============================================================================
