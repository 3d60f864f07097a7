------------------------------ MODULE StandIns ------------------------------
(***************************************************************************)
(* Launches whose kernel works on stand-ins of the application's buffers,  *)
(* and the event they return.                                              *)
(*                                                                         *)
(* A buffer without a canary (over the application's memory, a sub-buffer) *)
(* is replaced for a launch by a stand-in with one.  The call copies the   *)
(* buffer in, waits, enqueues the kernel, waits, copies the stand-in back  *)
(* and waits.  The copies are cl_buffer_copy's, on the launch's queue, or  *)
(* on the queue cached for a buffer's context if that is another.  The     *)
(* launch's wait list reaches the kernel and not the copies.               *)
(*                                                                         *)
(* A content is the sequence of commands a buffer has seen.  Checks are    *)
(* left out: they come between the kernel and the second wait.             *)
(***************************************************************************)
EXTENDS EventMap, Sequences, SequencesExt

CONSTANTS
    Writes,     \* other commands that change a buffer
    Buffers,
    HostBuffers,\* those without a canary
    Away,       \* those of another context than the queues
    Queues,
    InOrder,    \* the queues that run commands in order
    CacheQueue, \* the queue cached for the other context
    Gated,      \* launches that wait for a user event of the application
    SetLate,    \* the application sets that event between its calls
    Settled,    \* it calls a launch with a stand-in when the events in the
                \* launch's wait list are complete
    Overlapping \* its threads share an in-order queue without further order

Commands == Launches \cup Writes

ASSUME StandInAssumption ==
    /\ HostBuffers \cup Away \subseteq Buffers
    /\ InOrder \subseteq Queues /\ CacheQueue \notin Queues
    /\ Gated \subseteq Launches /\ Writes \cap Launches = {} /\ Nil \notin Writes
    /\ "gate" \notin Commands
    /\ IsFiniteSet(HostBuffers) /\ Buffers \cap (Launches \X HostBuffers) = {}
    /\ SetLate \in BOOLEAN /\ Settled \in BOOLEAN /\ Overlapping \in BOOLEAN

VARIABLES
    args,     \* command -> the buffers it works on
    after,    \* command -> the commands ordered before it
    content,  \* buffer or stand-in -> the commands it has seen
    fifo,     \* queue -> what is enqueued and not finished
    done,     \* the commands that are complete for the application
    call,     \* thread -> its launch and where the call is
    gate      \* the user event is set

standins == <<args, after, content, fifo, done, call, gate>>
vars == <<events, standins>>

NoCall == [cmd |-> Nil, at |-> "idle", queue |-> Nil, awaits |-> {}]

\* The stand-in of buffer b for launch l, and what the kernel of l works on.
StandIn(l, b) == <<l, b>>
Target(l, b) == IF b \in HostBuffers THEN StandIn(l, b) ELSE b

Init ==
    /\ EventInit
    /\ args = [c \in Commands |-> {}]
    /\ after = [c \in Commands |-> {}]
    /\ content = [o \in Buffers \cup (Launches \X HostBuffers) |-> <<>>]
    /\ fifo = [q \in Queues \cup {CacheQueue} |-> <<>>]
    /\ done = {}
    /\ call = [t \in Threads |-> NoCall]
    /\ gate = FALSE

-----------------------------------------------------------------------------
\* The runtime.  A step is a copy or a command's own work, on some objects.
Step(op, c, from, to, waits) == [op |-> op, cmd |-> c, from |-> from, to |-> to, waits |-> waits]

Pending == UNION {ToSet(fifo[q]) : q \in DOMAIN fifo}

MayRun(q, i) ==
    /\ q \in InOrder \cup {CacheQueue} => i = 1
    /\ fifo[q][i].waits \subseteq done \cup (IF gate THEN {"gate"} ELSE {})

\* A command is complete with its own work, unless a call has to copy it back.
RunStep(q, i) ==
    LET s == fifo[q][i] IN
    /\ MayRun(q, i)
    /\ fifo' = [fifo EXCEPT ![q] = RemoveAt(@, i)]
    /\ content' = [o \in DOMAIN content |->
           IF o \notin s.to THEN content[o]
           ELSE IF s.op = "copy" THEN content[s.from] ELSE Append(content[o], s.cmd)]
    /\ done' = IF s.op = "work" /\ s.to \subseteq Buffers THEN done \cup {s.cmd} ELSE done
    /\ UNCHANGED <<events, args, after, call, gate>>

\* The application sets the user event.
SetUserEvent ==
    /\ Gated # {} /\ ~gate
    /\ SetLate => \A t \in Threads : call[t] = NoCall
    /\ gate' = TRUE
    /\ UNCHANGED <<events, args, after, content, fifo, done, call>>

-----------------------------------------------------------------------------
\* The application orders what works on a common buffer: with an in-order
\* queue or a wait list.  Conflicts: commands not complete that share a buffer.
Conflicts(B) == {c \in Commands : args[c] \cap B # {} /\ c \notin done}

InCall(c) == \E t \in Threads : call[t].cmd = c

\* Those an in-order queue has already ordered before the next command.
Ahead(q, c) == q \in InOrder /\ \E s \in ToSet(fifo[q]) : s.op = "work" /\ s.cmd = c

Idle(t) == call[t] = NoCall /\ pc[t] = "idle"

\* A handle is left for its event (a bound of the model).
HandleLeft ==
    Cardinality({e \in Events : of[e] = Nil})
        > Cardinality({t \in Threads : call[t].at = "created" /\ call[t].cmd \in Asking})

MayIssue(t, c, q, B) ==
    /\ Idle(t) /\ args[c] = {}
    /\ c \in Asking \ Unchecked => HandleLeft
    /\ \A d \in Conflicts(B) : InCall(d) => Overlapping /\ q \in InOrder /\
           \E u \in Threads : call[u].cmd = d /\ call[u].queue = q

\* All that is ordered before a command, and what of it is left to wait lists.
Ordered(B) == {c \in Conflicts(B) : ~InCall(c)}
WaitList(q, B) == {c \in Ordered(B) : ~Ahead(q, c)}

\* A non-blocking call that changes a buffer reaches the runtime as it is.
EnqueueWrite(t, w, q, b, e) ==
    /\ MayIssue(t, w, q, {b})
    /\ args' = [args EXCEPT ![w] = {b}]
    /\ after' = [after EXCEPT ![w] = Ordered({b})]
    /\ fifo' = [fifo EXCEPT ![q] = Append(@, Step("work", w, b, {b}, Ordered({b})))]
    /\ IF w \in Asking THEN e \in Events /\ NewEvent(e, w) ELSE e = Nil /\ UNCHANGED <<of, refs, held>>
    /\ UNCHANGED <<entry, inner, pc, job, content, done, call, gate>>

-----------------------------------------------------------------------------
HostArgs(l) == args[l] \cap HostBuffers

\* inner_buffer_copy: within a context a straight copy on the given queue, or
\* on the context's own if the given queue is of another context.
CopyQueue(q, b) == IF b \in Away THEN CacheQueue ELSE q

CopySteps(l, q, cq, B, in) ==
    {Step("copy", l, IF in THEN b ELSE StandIn(l, b), {IF in THEN StandIn(l, b) ELSE b}, {}) :
        b \in {b \in B : CopyQueue(q, b) = cq}}

EnqueueCopies(l, q, B, in) ==
    fifo' = [cq \in DOMAIN fifo |-> fifo[cq] \o SetToSeq(CopySteps(l, q, cq, B, in))]

Goto(t, l, q, where, awaits) ==
    call' = [call EXCEPT ![t] = [cmd |-> l, at |-> where, queue |-> q, awaits |-> awaits]]

Waited(t) == call[t].awaits \cap Pending = {}

\* clEnqueueNDRangeKernel: if a buffer has no canary, createPoisonedKernel
\* makes stand-ins, enqueues the copies to them and calls clFinish.
EnqueueNDRangeKernel(t, l, q, B) ==
    /\ MayIssue(t, l, q, B)
    /\ Settled /\ B \cap HostBuffers # {} => WaitList(q, B) = {}
    /\ args' = [args EXCEPT ![l] = B]
    /\ after' = [after EXCEPT ![l] = Ordered(B)]
    /\ EnqueueCopies(l, q, B \cap HostBuffers, TRUE)
    /\ Goto(t, l, q, "created", IF B \cap HostBuffers = {} THEN {} ELSE ToSet(fifo'[q]))
    /\ UNCHANGED <<events, content, done, gate>>

\* Mutant: the event the launch is to return is on the kernel's own wait list.
LaunchKernelOwnEvent(t, e) ==
    LET l == call[t].cmd
        q == call[t].queue
        s == Step("work", l, Nil, {Target(l, b) : b \in args[l]}, after[l] \cup {l})
    IN
    /\ call[t].at = "created" /\ Waited(t)
    /\ fifo' = [fifo EXCEPT ![q] = Append(@, s)]
    /\ ReturnEvent(l, e)
    /\ IF HostArgs(l) = {} THEN call' = [call EXCEPT ![t] = NoCall]
       ELSE Goto(t, l, q, "launched", ToSet(fifo'[q]))
    /\ UNCHANGED <<args, after, content, done, gate>>

\* The kernel is enqueued with the application's wait list, its check behind
\* it, and the event mapped.  Without stand-ins the call returns;
\* otherwise copyKernelBuffers calls clFinish,
LaunchKernel(t, e) ==
    LET l == call[t].cmd
        q == call[t].queue
        s == Step("work", l, Nil, {Target(l, b) : b \in args[l]},
                  after[l] \cup (IF l \in Gated THEN {"gate"} ELSE {}))
    IN
    /\ call[t].at = "created" /\ Waited(t)
    /\ fifo' = [fifo EXCEPT ![q] = Append(@, s)]
    /\ ReturnEvent(l, e)
    /\ IF HostArgs(l) = {} THEN call' = [call EXCEPT ![t] = NoCall]
       ELSE Goto(t, l, q, "launched", ToSet(fifo'[q]))
    /\ UNCHANGED <<args, after, content, done, gate>>

\* enqueues the copies back and waits for their events.
CopyKernelBuffers(t) ==
    LET l == call[t].cmd
        q == call[t].queue
    IN
    /\ call[t].at = "launched" /\ Waited(t)
    /\ EnqueueCopies(l, q, HostArgs(l), FALSE)
    /\ Goto(t, l, q, "copied", UNION {CopySteps(l, q, cq, HostArgs(l), FALSE) : cq \in DOMAIN fifo})
    /\ UNCHANGED <<events, args, after, content, done, gate>>

\* Mutant: the stand-ins go while their copies back are still pending.
DelPoisonKernelEarly(t) ==
    /\ call[t].at = "copied"
    /\ done' = done \cup {call[t].cmd}
    /\ call' = [call EXCEPT ![t] = NoCall]
    /\ UNCHANGED <<events, args, after, content, fifo, gate>>

\* delPoisonKernel deletes the stand-ins, and the call returns.
DelPoisonKernel(t) ==
    /\ call[t].at = "copied" /\ Waited(t)
    /\ done' = done \cup {call[t].cmd}
    /\ call' = [call EXCEPT ![t] = NoCall]
    /\ UNCHANGED <<events, args, after, content, fifo, gate>>

-----------------------------------------------------------------------------
CallStep(t) ==
    \/ \E e \in Events \cup {Nil} : LaunchKernel(t, e)
    \/ CopyKernelBuffers(t) \/ DelPoisonKernel(t)

Device == \E q \in DOMAIN fifo : \E i \in DOMAIN fifo[q] : RunStep(q, i)

Next ==
    \/ \E t \in Threads :
          \/ \E q \in Queues :
                \/ \E w \in Writes, b \in Buffers, e \in Events \cup {Nil} : EnqueueWrite(t, w, q, b, e)
                \/ \E l \in Launches, B \in (SUBSET Buffers) \ {{}} : EnqueueNDRangeKernel(t, l, q, B)
          \/ CallStep(t)
          \/ call[t] = NoCall /\ EventStep(t) /\ UNCHANGED standins
    \/ Device
    \/ SetUserEvent

\* A thread goes on when what it waits for is there, the device takes up what
\* may run, and the application sets its user event.
Fairness ==
    /\ \A t \in Threads : WF_vars(CallStep(t))
    /\ WF_vars(Device)
    /\ WF_vars(SetUserEvent)

Spec == Init /\ [][Next]_vars /\ Fairness

-----------------------------------------------------------------------------
Order == INSTANCE CommandOrder WITH content <- [b \in Buffers |-> content[b]]

\* Stand-ins do not show: each command works on the present content of its
\* buffers once what is ordered before it is complete, and a copy back adds its
\* own launch to the buffer and takes nothing away.
StandInsHidden == Order!Spec

\* A call with stand-ins waits three times; it returns all the same.
EveryCallReturns ==
    \A t \in Threads : []<>(call[t] = NoCall)
=============================================================================
