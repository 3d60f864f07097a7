---------------------------- MODULE StandInProofs ----------------------------
(***************************************************************************)
(* Proofs about EventMap and StandIns, for any number of threads, events,  *)
(* commands, buffers and queues.                                           *)
(***************************************************************************)
EXTENDS StandIns, TLAPS, FiniteSetTheorems, SequenceTheorems

(***************************************************************************)
(* The event map.                                                          *)
(***************************************************************************)
Entries == [ref : Int, internal : Launches \cup {Nil}]

EventTypeOK ==
    /\ of \in [Events -> Commands \cup {Nil}]
    /\ refs \in [Events -> Nat] /\ held \in [Events -> Nat]
    /\ entry \in [Events -> Entries \cup {Nil}]
    /\ inner \in [Launches -> Int]
    /\ pc \in [Threads -> {"idle", "found", "missed", "checking", "releasing"}]
    /\ job \in [Threads -> Events \cup {Nil}]
    /\ \A t \in Threads : pc[t] = "idle" <=> job[t] = Nil

\* One call at a time retains or releases an event.
OneUser == \A t, u \in Threads : job[t] # Nil /\ job[t] = job[u] => t = u

\* The entry of e agrees with its event; an entry is missing only for an event
\* with one reference, and never for that of a launch the application holds.
EventAt(e) ==
    /\ of[e] # Nil <=> refs[e] > 0
    /\ entry[e] = Nil => refs[e] <= 1 /\ (held[e] > 0 => of[e] \notin Launches)
    /\ entry[e] # Nil => of[e] # Nil /\ entry[e].internal = IF of[e] \in Launches THEN of[e] ELSE Nil
    /\ of[e] \in Launches => of[e] \in Asking
    /\ Users(e) = {} => held[e] = refs[e] /\ (entry[e] # Nil => entry[e].ref = refs[e])

\* The event t retains or releases, by how far the call has come.
UseAt(t) ==
    LET e == job[t] IN
    /\ pc[t] \in {"found", "missed"} => held[e] = refs[e] /\ refs[e] > 0
    /\ pc[t] = "found" => entry[e] # Nil /\ entry[e].ref = refs[e]
    /\ pc[t] = "missed" => entry[e] = Nil
    /\ pc[t] \in {"checking", "releasing"} => refs[e] = held[e] + 1
    /\ pc[t] = "checking" => entry[e] # Nil /\ entry[e].ref = held[e]
    /\ pc[t] = "releasing" => (entry[e] # Nil <=> held[e] > 0) /\ (entry[e] # Nil => entry[e].ref = held[e])

\* A command has one event at most, which its call returns.
OwnEvent ==
    /\ \A e, f \in Events : of[e] # Nil /\ of[e] = of[f] => e = f
    /\ \A e \in Events : of[e] # Nil =>
          /\ args[of[e]] # {}
          /\ \A t \in Threads : call[t].at = "created" => call[t].cmd # of[e]

\* A launch that is being called has been issued, by one thread.
CallsInv ==
    /\ DOMAIN call = Threads /\ args \in [Commands -> SUBSET Buffers]
    /\ \A t \in Threads :
          \/ call[t] = NoCall
          \/ call[t].cmd \in Launches /\ args[call[t].cmd] # {} /\ call[t].at \in {"created", "launched", "copied"}
    /\ \A t, u \in Threads : call[t].cmd # Nil /\ call[t].cmd = call[u].cmd => t = u

\* The kernel's own event exists as long as an entry names it.
InnerInv ==
    \A l \in Launches \cap Asking :
        /\ inner[l] \in {0, 1}
        /\ inner[l] = 1 <=> \E e \in Events : entry[e] # Nil /\ entry[e].internal = l

EventInv ==
    /\ EventTypeOK /\ OneUser /\ OwnEvent /\ CallsInv /\ InnerInv
    /\ \A e \in Events : EventAt(e)
    /\ \A t \in Threads : UseAt(t)
-----------------------------------------------------------------------------
\* Nothing of event e and its entry changes.
SameEvent(e) == of'[e] = of[e] /\ refs'[e] = refs[e] /\ held'[e] = held[e] /\ entry'[e] = entry[e]

\* Only t moves, which is or will be busy with e, and only e changes.
OnlyEvent(t, e) ==
    /\ job[t] \in {Nil, e} /\ job'[t] \in {Nil, e}
    /\ \A u \in Threads \ {t} : job[u] # e /\ pc'[u] = pc[u] /\ job'[u] = job[u]
    /\ \A f \in Events \ {e} : SameEvent(f)

LEMMA EventLocality ==
    ASSUME EventInv, EventTypeOK', NEW t \in Threads, NEW e \in Events, OnlyEvent(t, e),
           EventAt(e)', UseAt(t)'
    PROVE  OneUser' /\ (\A f \in Events : EventAt(f)') /\ (\A u \in Threads : UseAt(u)')
  <1> USE EventAssumption
  <1>1. OneUser' BY DEF EventInv, OneUser, OnlyEvent
  <1>2. ASSUME NEW f \in Events, f # e PROVE EventAt(f)'
    <2>1. SameEvent(f) /\ EventAt(f) BY <1>2 DEF OnlyEvent, EventInv
    <2>2. Users(f)' = {} => Users(f) = {} BY <1>2 DEF OnlyEvent, Users
    <2> QED BY <2>1, <2>2 DEF EventAt, SameEvent
  <1>3. ASSUME NEW u \in Threads, u # t PROVE UseAt(u)'
    <2>1. pc'[u] = pc[u] /\ job'[u] = job[u] /\ UseAt(u) /\ job[u] # e
      BY <1>3 DEF OnlyEvent, EventInv
    <2>2. pc[u] # "idle" => SameEvent(job[u]) BY <1>3, <2>1 DEF OnlyEvent, EventInv, EventTypeOK
    <2> QED BY <2>1, <2>2 DEF UseAt, SameEvent
  <1> QED BY <1>1, <1>2, <1>3

\* A step that leaves the event map alone.
LEMMA EventsUnchanged ==
    ASSUME EventInv, UNCHANGED events
    PROVE  /\ EventTypeOK' /\ OneUser' /\ InnerInv'
           /\ (\A e \in Events : EventAt(e)') /\ (\A t \in Threads : UseAt(t)')
  <1> USE DEF events
  <1>1. EventTypeOK' BY DEF EventInv, EventTypeOK
  <1>2. OneUser' /\ InnerInv' BY DEF EventInv, OneUser, InnerInv
  <1>3. \A e \in Events : EventAt(e)' BY DEF EventInv, EventAt, Users
  <1>4. \A t \in Threads : UseAt(t)' BY DEF EventInv, UseAt
  <1> QED BY <1>1, <1>2, <1>3, <1>4

\* What a caller may rely on when calls on an event are kept apart.
LEMMA MayUseFacts ==
    ASSUME Alone, EventInv, NEW t \in Threads, NEW e \in Events, MayUse(t, e)
    PROVE  /\ job[t] = Nil /\ (\A u \in Threads : job[u] # e)
           /\ held[e] > 0 /\ held[e] = refs[e]
           /\ entry[e] # Nil => entry[e].ref = refs[e]
  <1>1. Users(e) = {} BY DEF MayUse
  <1>2. {u \in Users(e) : pc[u] \in {"found", "missed"}} = {} BY <1>1
  <1>3. held[e] > 0 BY <1>2, FS_EmptySet DEF MayUse
  <1> QED BY <1>1, <1>3 DEF EventInv, EventTypeOK, EventAt, MayUse, Users

LEMMA UseFacts ==
    ASSUME EventInv, NEW t \in Threads, pc[t] # "idle"
    PROVE  /\ job[t] \in Events /\ EventAt(job[t]) /\ UseAt(t)
           /\ \A u \in Threads \ {t} : job[u] # job[t]
  BY DEF EventInv, EventTypeOK, OneUser

-----------------------------------------------------------------------------
LEMMA EventInvInit == Init => EventInv
  <1> SUFFICES ASSUME Init PROVE EventInv
    OBVIOUS
  <1> USE EventAssumption, StandInAssumption DEF Init, EventInit
  <1>1. EventTypeOK BY DEF EventTypeOK
  <1>2. OneUser /\ OwnEvent /\ InnerInv BY DEF OneUser, OwnEvent, InnerInv
  <1>3. CallsInv BY DEF CallsInv, NoCall
  <1>4. \A e \in Events : EventAt(e) BY DEF EventAt
  <1>5. \A t \in Threads : UseAt(t) BY DEF UseAt
  <1> QED BY <1>1, <1>2, <1>3, <1>4, <1>5 DEF EventInv

\* Retaining and releasing events.
LEMMA EventInvEventStep ==
    ASSUME Alone, EventInv, NEW t \in Threads, EventStep(t), UNCHANGED standins
    PROVE  EventInv'
  <1> USE EventAssumption, StandInAssumption DEF At
  <1>0. CallsInv' BY DEF EventInv, CallsInv, standins
  <1>1. ASSUME NEW e \in Events, RetainEvent(t, e) PROVE EventInv'
    <2> USE <1>1 DEF RetainEvent
    <2>0. /\ job[t] = Nil /\ pc[t] = "idle" /\ held[e] > 0 /\ held[e] = refs[e] /\ EventAt(e)
          /\ \A u \in Threads : job[u] # e
          /\ entry[e] # Nil => entry[e].ref = refs[e]
      BY MayUseFacts DEF EventInv, MayUse
    <2>1. EventTypeOK' BY <2>0 DEF EventInv, EventTypeOK, Entries, UseAt
    <2>2. OnlyEvent(t, e) BY <2>0 DEF EventInv, EventTypeOK, OnlyEvent, SameEvent
    <2>3. EventAt(e)' BY <2>0 DEF EventInv, EventTypeOK, Entries, EventAt, UseAt, Users
    <2>4. UseAt(t)' BY <2>0 DEF EventInv, EventTypeOK, Entries, EventAt, UseAt
    <2>5. OwnEvent' BY <2>0 DEF EventInv, EventTypeOK, OwnEvent, standins
    <2>6. InnerInv' BY <2>0 DEF EventInv, EventTypeOK, Entries, InnerInv, EventAt, UseAt, OwnEvent
    <2>7. OneUser' /\ (\A f \in Events : EventAt(f)') /\ (\A u \in Threads : UseAt(u)')
      BY <2>0, <2>1, <2>2, <2>3, <2>4, EventLocality
    <2> QED BY <1>0, <2>1, <2>5, <2>6, <2>7 DEF EventInv
  <1>2. ASSUME NEW e \in Events, ReleaseEvent(t, e) PROVE EventInv'
    <2> USE <1>2 DEF ReleaseEvent
    <2>0. /\ job[t] = Nil /\ pc[t] = "idle" /\ held[e] > 0 /\ held[e] = refs[e] /\ EventAt(e)
          /\ \A u \in Threads : job[u] # e
          /\ entry[e] # Nil => entry[e].ref = refs[e]
      BY MayUseFacts DEF EventInv, MayUse
    <2>1. EventTypeOK' BY <2>0 DEF EventInv, EventTypeOK, Entries, UseAt
    <2>2. OnlyEvent(t, e) BY <2>0 DEF EventInv, EventTypeOK, OnlyEvent, SameEvent
    <2>3. EventAt(e)' BY <2>0 DEF EventInv, EventTypeOK, Entries, EventAt, UseAt, Users
    <2>4. UseAt(t)' BY <2>0 DEF EventInv, EventTypeOK, Entries, EventAt, UseAt
    <2>5. OwnEvent' BY <2>0 DEF EventInv, EventTypeOK, OwnEvent, standins
    <2>6. InnerInv' BY <2>0 DEF EventInv, EventTypeOK, Entries, InnerInv, EventAt, UseAt, OwnEvent
    <2>7. OneUser' /\ (\A f \in Events : EventAt(f)') /\ (\A u \in Threads : UseAt(u)')
      BY <2>0, <2>1, <2>2, <2>3, <2>4, EventLocality
    <2> QED BY <1>0, <2>1, <2>5, <2>6, <2>7 DEF EventInv
  <1>3. ASSUME CountRetain(t) PROVE EventInv'
    <2> USE <1>3 DEF CountRetain
    <2>0. PICK e \in Events : /\ e = job[t] /\ EventAt(e) /\ UseAt(t)
                             /\ \A u \in Threads \ {t} : job[u] # e
      BY UseFacts
    <2>1. EventTypeOK' BY <2>0 DEF EventInv, EventTypeOK, Entries, UseAt
    <2>2. OnlyEvent(t, e) BY <2>0 DEF EventInv, EventTypeOK, OnlyEvent, SameEvent
    <2>3. EventAt(e)' BY <2>0 DEF EventInv, EventTypeOK, Entries, EventAt, UseAt, Users
    <2>4. UseAt(t)' BY <2>0 DEF EventInv, EventTypeOK, Entries, EventAt, UseAt
    <2>5. OwnEvent' BY <2>0 DEF EventInv, EventTypeOK, OwnEvent, standins
    <2>6. InnerInv' BY <2>0 DEF EventInv, EventTypeOK, Entries, InnerInv, EventAt, UseAt, OwnEvent
    <2>7. OneUser' /\ (\A f \in Events : EventAt(f)') /\ (\A u \in Threads : UseAt(u)')
      BY <2>0, <2>1, <2>2, <2>3, <2>4, EventLocality
    <2> QED BY <1>0, <2>1, <2>5, <2>6, <2>7 DEF EventInv
  <1>4. ASSUME CheckCount(t) PROVE EventInv'
    <2> USE <1>4 DEF CheckCount
    <2>0. PICK e \in Events : /\ e = job[t] /\ EventAt(e) /\ UseAt(t)
                             /\ \A u \in Threads \ {t} : job[u] # e
      BY UseFacts
    <2>1. EventTypeOK' BY <2>0 DEF EventInv, EventTypeOK, Entries, UseAt
    <2>2. OnlyEvent(t, e) BY <2>0 DEF EventInv, EventTypeOK, OnlyEvent, SameEvent
    <2>3. EventAt(e)' BY <2>0 DEF EventInv, EventTypeOK, Entries, EventAt, UseAt, Users
    <2>4. UseAt(t)' BY <2>0 DEF EventInv, EventTypeOK, Entries, EventAt, UseAt
    <2>5. OwnEvent' BY <2>0 DEF EventInv, EventTypeOK, OwnEvent, standins
    <2>6. InnerInv'
      <3>0. InnerInv /\ entry[e] # Nil /\ entry \in [Events -> Entries \cup {Nil}] /\ inner \in [Launches -> Int]
        BY <2>0 DEF EventInv, EventTypeOK
      <3>1. CASE entry[e].ref # 0 BY <2>0, <3>0, <3>1 DEF InnerInv
      <3>2. CASE entry[e].ref = 0 /\ entry[e].internal = Nil BY <2>0, <3>0, <3>2 DEF InnerInv
      <3>3. CASE entry[e].ref = 0 /\ entry[e].internal # Nil
        <4>1. PICK l \in Launches : l = entry[e].internal BY <3>0, <3>3 DEF Entries
        <4>2. entry' = [entry EXCEPT ![e] = Nil] /\ inner' = [inner EXCEPT ![l] = @ - 1]
          BY <2>0, <3>3, <4>1
        <4>3. \A f \in Events : entry[f] # Nil /\ entry[f].internal = l => f = e
          BY <2>0, <3>0, <4>1 DEF EventInv, EventAt, OwnEvent
        <4>4. ASSUME NEW k \in Launches \cap Asking, k # l
              PROVE  /\ inner'[k] = inner[k]
                     /\ \A f \in Events : (entry'[f] # Nil /\ entry'[f].internal = k) <=> (entry[f] # Nil /\ entry[f].internal = k)
          BY <3>0, <4>1, <4>2, <4>4
        <4>5. l \in Asking => inner[l] = 1 /\ inner'[l] = 0
          BY <3>0, <4>1, <4>2 DEF InnerInv
        <4>6. \A f \in Events : ~(entry'[f] # Nil /\ entry'[f].internal = l)
          BY <3>0, <4>2, <4>3
        <4> QED BY <3>0, <4>4, <4>5, <4>6 DEF InnerInv
      <3> QED BY <3>1, <3>2, <3>3
    <2>7. OneUser' /\ (\A f \in Events : EventAt(f)') /\ (\A u \in Threads : UseAt(u)')
      BY <2>0, <2>1, <2>2, <2>3, <2>4, EventLocality
    <2> QED BY <1>0, <2>1, <2>5, <2>6, <2>7 DEF EventInv
  <1>5. ASSUME RuntimeRelease(t) PROVE EventInv'
    <2> USE <1>5 DEF RuntimeRelease
    <2>0. PICK e \in Events : /\ e = job[t] /\ EventAt(e) /\ UseAt(t)
                             /\ \A u \in Threads \ {t} : job[u] # e
      BY UseFacts
    <2>1. EventTypeOK' BY <2>0 DEF EventInv, EventTypeOK, Entries, UseAt
    <2>2. OnlyEvent(t, e) BY <2>0 DEF EventInv, EventTypeOK, OnlyEvent, SameEvent
    <2>3. EventAt(e)' BY <2>0 DEF EventInv, EventTypeOK, Entries, EventAt, UseAt, Users
    <2>4. UseAt(t)' BY <2>0 DEF EventInv, EventTypeOK, Entries, EventAt, UseAt
    <2>5. OwnEvent' BY <2>0 DEF EventInv, EventTypeOK, OwnEvent, standins
    <2>6. InnerInv' BY <2>0 DEF EventInv, EventTypeOK, Entries, InnerInv, EventAt, UseAt, OwnEvent
    <2>7. OneUser' /\ (\A f \in Events : EventAt(f)') /\ (\A u \in Threads : UseAt(u)')
      BY <2>0, <2>1, <2>2, <2>3, <2>4, EventLocality
    <2> QED BY <1>0, <2>1, <2>5, <2>6, <2>7 DEF EventInv
  <1> QED BY <1>1, <1>2, <1>3, <1>4, <1>5 DEF EventStep

\* What concerns the event map alone.
MapInv ==
    /\ EventTypeOK /\ OneUser /\ InnerInv
    /\ \A e \in Events : EventAt(e)
    /\ \A t \in Threads : UseAt(t)

\* No call is about an event that does not exist, and it has no entry.
LEMMA FreeEvent ==
    ASSUME EventInv, NEW e \in Events, of[e] = Nil
    PROVE  refs[e] = 0 /\ held[e] = 0 /\ entry[e] = Nil /\ Users(e) = {}
  <1>1. refs[e] = 0 /\ entry[e] = Nil BY DEF EventInv, EventTypeOK, EventAt
  <1>2. ASSUME NEW u \in Threads, job[u] = e PROVE FALSE
    <2>1. pc[u] # "idle" BY <1>2, EventAssumption DEF EventInv, EventTypeOK
    <2>2. refs[e] > 0 BY <1>2, <2>1 DEF EventInv, EventTypeOK, UseAt
    <2> QED BY <1>1, <2>2
  <1>3. Users(e) = {} BY <1>2 DEF Users
  <1> QED BY <1>1, <1>3 DEF EventInv, EventAt

\* The event of a command that is no launch.
LEMMA MapInvNewEvent ==
    ASSUME EventInv, NEW e \in Events, NEW c \in Commands \ Launches, c # Nil,
           NewEvent(e, c), UNCHANGED <<entry, inner, pc, job>>
    PROVE  MapInv'
  <1> USE EventAssumption DEF NewEvent
  <1>0. /\ refs[e] = 0 /\ held[e] = 0 /\ entry[e] = Nil /\ (\A u \in Threads : job[u] # e)
    BY FreeEvent DEF Users
  <1>1. EventTypeOK' BY DEF EventInv, EventTypeOK
  <1>2. OneUser' /\ InnerInv' BY DEF EventInv, OneUser, InnerInv
  <1>3. EventAt(e)' BY <1>0 DEF EventInv, EventTypeOK, EventAt
  <1>4. \A f \in Events \ {e} : EventAt(f)' BY DEF EventInv, EventTypeOK, EventAt, Users
  <1>5. \A t \in Threads : UseAt(t)' BY <1>0 DEF EventInv, EventTypeOK, UseAt
  <1> QED BY <1>1, <1>2, <1>3, <1>4, <1>5 DEF MapInv

\* The event a launch returns.
LEMMA MapInvReturnEvent ==
    ASSUME Unchecked = {}, EventInv, NEW e \in Events \cup {Nil}, NEW l \in Launches,
           \A f \in Events : of[f] # l, ReturnEvent(l, e)
    PROVE  MapInv'
  <1> USE EventAssumption DEF ReturnEvent
  <1>1. CASE l \notin Asking
    <2>1. EventTypeOK' /\ OneUser' BY <1>1 DEF EventInv, EventTypeOK, OneUser
    <2>2. InnerInv' BY <1>1 DEF EventInv, EventTypeOK, InnerInv
    <2>3. \A f \in Events : EventAt(f)' BY <1>1 DEF EventInv, EventAt, Users
    <2>4. \A t \in Threads : UseAt(t)' BY <1>1 DEF EventInv, UseAt
    <2> QED BY <2>1, <2>2, <2>3, <2>4 DEF MapInv
  <1>2. CASE l \in Asking
    <2>a. /\ e \in Events /\ NewEvent(e, l) /\ Insert(e, l)
          /\ inner' = [inner EXCEPT ![l] = 1] /\ UNCHANGED <<pc, job>>
      BY <1>2
    <2> HIDE DEF ReturnEvent
    <2> USE DEF NewEvent, Insert
    <2>0. refs[e] = 0 /\ held[e] = 0 /\ entry[e] = Nil /\ (\A u \in Threads : job[u] # e)
      BY <2>a, FreeEvent DEF Users
    <2>b. entry' = [entry EXCEPT ![e] = [ref |-> 1, internal |-> l]] BY <2>0, <2>a
    <2>c. [ref |-> 1, internal |-> l] \in Entries /\ [ref |-> 1, internal |-> l] # Nil BY DEF Entries
    <2>1. EventTypeOK' BY <2>a, <2>b, <2>c DEF EventInv, EventTypeOK, Commands
    <2>2. OneUser' BY <2>a DEF EventInv, OneUser
    <2>3. EventAt(e)' BY <1>2, <2>0, <2>a, <2>b, <2>c DEF EventInv, EventTypeOK, EventAt
    <2>4. \A f \in Events \ {e} : EventAt(f)' BY <2>a, <2>b DEF EventInv, EventTypeOK, EventAt, Users
    <2>5. \A t \in Threads : UseAt(t)' BY <2>0, <2>a, <2>b DEF EventInv, EventTypeOK, UseAt
    <2>6. InnerInv'
      <3> SUFFICES ASSUME NEW k \in Launches \cap Asking
                   PROVE  /\ inner'[k] \in {0, 1}
                          /\ inner'[k] = 1 <=> \E f \in Events : entry'[f] # Nil /\ entry'[f].internal = k
        BY DEF InnerInv
      <3>1. CASE k = l
        <4>1. entry'[e] # Nil /\ entry'[e].internal = l BY <2>a, <2>b, <2>c DEF EventInv, EventTypeOK
        <4>2. inner'[l] = 1 BY <2>a DEF EventInv, EventTypeOK
        <4> QED BY <2>a, <3>1, <4>1, <4>2
      <3>2. CASE k # l
        <4>1. inner'[k] = inner[k] BY <2>a, <3>2 DEF EventInv, EventTypeOK
        <4>2. \A f \in Events : (entry'[f] # Nil /\ entry'[f].internal = k) <=> (entry[f] # Nil /\ entry[f].internal = k)
          BY <2>0, <2>b, <3>2 DEF EventInv, EventTypeOK
        <4> QED BY <4>1, <4>2 DEF EventInv, InnerInv
      <3> QED BY <3>1, <3>2
    <2> QED BY <2>1, <2>2, <2>3, <2>4, <2>5, <2>6 DEF MapInv
  <1> QED BY <1>1, <1>2

\* The calls of one thread move on.
LEMMA CallsInvStep ==
    ASSUME CallsInv, NEW t \in Threads, NEW r, call' = [call EXCEPT ![t] = r],
           args' \in [Commands -> SUBSET Buffers],
           \A u \in Threads \ {t} : args[call[u].cmd] # {} => args'[call[u].cmd] # {},
           \/ r = NoCall
           \/ /\ r.cmd \in Launches /\ args'[r.cmd] # {} /\ r.at \in {"created", "launched", "copied"}
              /\ \A u \in Threads \ {t} : call[u].cmd # r.cmd
    PROVE  CallsInv'
  <1>1. DOMAIN call' = Threads /\ call'[t] = r /\ \A u \in Threads \ {t} : call'[u] = call[u]
    BY DEF CallsInv
  <1>2. \A u \in Threads :
          \/ call'[u] = NoCall
          \/ call'[u].cmd \in Launches /\ args'[call'[u].cmd] # {} /\ call'[u].at \in {"created", "launched", "copied"}
    BY <1>1 DEF CallsInv
  <1>3. \A u, v \in Threads : call'[u].cmd # Nil /\ call'[u].cmd = call'[v].cmd => u = v
    BY <1>1 DEF CallsInv, NoCall
  <1> QED BY <1>1, <1>2, <1>3 DEF CallsInv

LEMMA GotoRecord ==
    ASSUME NEW t, NEW l, NEW q, NEW where, NEW awaits, Goto(t, l, q, where, awaits)
    PROVE  \E r : /\ call' = [call EXCEPT ![t] = r]
                  /\ r.cmd = l /\ r.at = where /\ r.queue = q /\ r.awaits = awaits
  <1> DEFINE r == [cmd |-> l, at |-> where, queue |-> q, awaits |-> awaits]
  <1>1. r.cmd = l /\ r.at = where /\ r.queue = q /\ r.awaits = awaits OBVIOUS
  <1>2. call' = [call EXCEPT ![t] = r] BY DEF Goto
  <1> QED BY <1>1, <1>2

LEMMA EventInvNext == Alone /\ Unchecked = {} /\ EventInv /\ [Next]_vars => EventInv'
  <1> SUFFICES ASSUME Alone, Unchecked = {}, EventInv, [Next]_vars PROVE EventInv'
    OBVIOUS
  <1> USE EventAssumption, StandInAssumption
  <1>1. ASSUME NEW t \in Threads, NEW q \in Queues, NEW w \in Writes, NEW b \in Buffers,
               NEW e \in Events \cup {Nil}, EnqueueWrite(t, w, q, b, e)
        PROVE  EventInv'
    <2>0. w \in Commands \ Launches /\ w # Nil BY DEF Commands
    <2>a. /\ args[w] = {} /\ args' = [args EXCEPT ![w] = {b}] /\ UNCHANGED <<entry, inner, pc, job, call>>
          /\ IF w \in Asking THEN e \in Events /\ NewEvent(e, w) ELSE e = Nil /\ UNCHANGED <<of, refs, held>>
      BY <1>1 DEF EnqueueWrite, MayIssue
    <2>b. \A f \in Events : of[f] # w BY <2>0, <2>a DEF EventInv, OwnEvent
    <2>1. CallsInv' BY <2>0, <2>a DEF EventInv, CallsInv
    <2>2. MapInv'
      <3>1. CASE w \in Asking BY <2>0, <2>a, <3>1, MapInvNewEvent
      <3>2. CASE w \notin Asking BY <2>a, <3>2, EventsUnchanged DEF events, MapInv
      <3> QED BY <3>1, <3>2
    <2>3. \A f \in Events : of'[f] = of[f] \/ (of'[f] = w /\ f = e)
      <3>1. CASE w \in Asking BY <2>a, <3>1 DEF NewEvent, EventInv, EventTypeOK
      <3>2. CASE w \notin Asking BY <2>a, <3>2
      <3> QED BY <3>1, <3>2
    <2>4. \A u \in Threads : call[u].at = "created" => call[u].cmd # w
      BY <2>0 DEF EventInv, CallsInv, NoCall
    <2>5. OwnEvent'
      <3>1. \A c \in Commands : args[c] # {} \/ c = w => args'[c] # {}
        BY <2>0, <2>a DEF EventInv, CallsInv
      <3>2. \A f \in Events : of'[f] # Nil => of'[f] \in Commands
        BY <2>2 DEF MapInv, EventTypeOK
      <3> QED BY <2>0, <2>a, <2>b, <2>3, <2>4, <3>1, <3>2 DEF EventInv, OwnEvent
    <2> QED BY <2>1, <2>2, <2>5 DEF EventInv, MapInv
  <1>2. ASSUME NEW t \in Threads, NEW q \in Queues, NEW l \in Launches,
               NEW B \in (SUBSET Buffers) \ {{}}, EnqueueNDRangeKernel(t, l, q, B)
        PROVE  EventInv'
    <2>0. PICK r : /\ args[l] = {} /\ args' = [args EXCEPT ![l] = B] /\ UNCHANGED events
                   /\ call' = [call EXCEPT ![t] = r] /\ r.cmd = l /\ r.at = "created"
      <3>1. PICK a : Goto(t, l, q, "created", a) BY <1>2 DEF EnqueueNDRangeKernel
      <3> QED BY <1>2, <3>1, GotoRecord DEF EnqueueNDRangeKernel, MayIssue
    <2>1. l \in Commands /\ (\A f \in Events : of[f] # l) /\ (\A u \in Threads : call[u].cmd # l)
      BY <2>0 DEF EventInv, OwnEvent, CallsInv, NoCall, Commands
    <2>2. args' \in [Commands -> SUBSET Buffers] /\ args'[l] # {}
      <3>1. args \in [Commands -> SUBSET Buffers] BY DEF EventInv, CallsInv
      <3> QED BY <2>0, <2>1, <3>1
    <2>3. \A u \in Threads : args'[call[u].cmd] = args[call[u].cmd] BY <2>0, <2>1 DEF EventInv, CallsInv
    <2>4. CallsInv' BY <2>0, <2>1, <2>2, <2>3, CallsInvStep DEF EventInv
    <2>5. OwnEvent'
      <3>1. \A f \in Events : of'[f] = of[f] BY <2>0 DEF events
      <3>2. \A f \in Events : args'[of[f]] = args[of[f]] BY <2>0, <2>1 DEF EventInv, CallsInv
      <3>3. \A u \in Threads : call'[u] = call[u] \/ call'[u].cmd = l
        BY <2>0 DEF EventInv, CallsInv
      <3> QED BY <2>1, <3>1, <3>2, <3>3 DEF EventInv, OwnEvent
    <2> QED BY <2>0, <2>4, <2>5, EventsUnchanged DEF EventInv
  <1>3. ASSUME NEW t \in Threads, NEW e \in Events \cup {Nil}, LaunchKernel(t, e)
        PROVE  EventInv'
    <2>0. PICK r : /\ call[t].at = "created" /\ ReturnEvent(call[t].cmd, e) /\ UNCHANGED args
                   /\ call' = [call EXCEPT ![t] = r]
                   /\ r = NoCall \/ (r.cmd = call[t].cmd /\ r.at = "launched")
      <3>1. CASE HostArgs(call[t].cmd) = {} BY <1>3, <3>1 DEF LaunchKernel
      <3>2. CASE HostArgs(call[t].cmd) # {}
        <4>1. PICK a : Goto(t, call[t].cmd, call[t].queue, "launched", a) BY <1>3, <3>2 DEF LaunchKernel
        <4> QED BY <1>3, <4>1, GotoRecord DEF LaunchKernel
      <3> QED BY <3>1, <3>2
    <2>1. PICK l \in Launches : l = call[t].cmd /\ args[l] # {}
      BY <2>0 DEF EventInv, CallsInv, NoCall
    <2>2. l \in Commands /\ l # Nil /\ (\A f \in Events : of[f] # l) /\ \A u \in Threads \ {t} : call[u].cmd # l
      BY <2>0, <2>1 DEF EventInv, OwnEvent, CallsInv, Commands
    <2>3. CallsInv'
      <3>1. args' \in [Commands -> SUBSET Buffers] BY <2>0 DEF EventInv, CallsInv
      <3> QED BY <2>0, <2>1, <2>2, <3>1, CallsInvStep DEF EventInv
    <2>4. MapInv' BY <2>0, <2>1, <2>2, MapInvReturnEvent
    <2>5. \A f \in Events : of'[f] = of[f] \/ (of'[f] = l /\ f = e)
      <3>1. CASE l \in Asking
        <4>1. e \in Events /\ NewEvent(e, l) BY <2>0, <2>1, <3>1 DEF ReturnEvent
        <4> QED BY <4>1 DEF NewEvent, EventInv, EventTypeOK
      <3>2. CASE l \notin Asking BY <2>0, <2>1, <3>2 DEF ReturnEvent
      <3> QED BY <3>1, <3>2
    <2>6. \A u \in Threads : call'[u].at = "created" => call'[u] = call[u] /\ call[u].cmd # l
      BY <2>0, <2>1, <2>2 DEF EventInv, CallsInv, NoCall
    <2>7. OwnEvent' BY <2>0, <2>1, <2>2, <2>5, <2>6 DEF EventInv, OwnEvent
    <2> QED BY <2>3, <2>4, <2>7 DEF EventInv, MapInv
  <1>4. ASSUME NEW t \in Threads, CopyKernelBuffers(t) PROVE EventInv'
    <2>0. PICK r : /\ call[t].at = "launched" /\ UNCHANGED <<events, args>>
                   /\ call' = [call EXCEPT ![t] = r] /\ r.cmd = call[t].cmd /\ r.at = "copied"
      <3>1. PICK a : Goto(t, call[t].cmd, call[t].queue, "copied", a) BY <1>4 DEF CopyKernelBuffers
      <3> QED BY <1>4, <3>1, GotoRecord DEF CopyKernelBuffers
    <2>1. /\ call[t].cmd \in Launches /\ args[call[t].cmd] # {}
          /\ \A u \in Threads \ {t} : call[u].cmd # call[t].cmd
      BY <2>0 DEF EventInv, CallsInv, NoCall
    <2>2. args' \in [Commands -> SUBSET Buffers] BY <2>0 DEF EventInv, CallsInv
    <2>3. CallsInv' BY <2>0, <2>1, <2>2, CallsInvStep DEF EventInv
    <2>4. OwnEvent' BY <2>0 DEF EventInv, CallsInv, OwnEvent, events
    <2> QED BY <2>0, <2>3, <2>4, EventsUnchanged DEF EventInv
  <1>5. ASSUME NEW t \in Threads, DelPoisonKernel(t) PROVE EventInv'
    <2>0. UNCHANGED <<events, args>> /\ call' = [call EXCEPT ![t] = NoCall]
      BY <1>5 DEF DelPoisonKernel
    <2>1. CallsInv' BY <2>0 DEF EventInv, CallsInv, NoCall
    <2>2. OwnEvent' BY <2>0 DEF EventInv, CallsInv, OwnEvent, events, NoCall
    <2> QED BY <2>0, <2>1, <2>2, EventsUnchanged DEF EventInv
  <1>6. ASSUME NEW t \in Threads, EventStep(t), UNCHANGED standins PROVE EventInv'
    BY <1>6, EventInvEventStep
  <1>7. ASSUME UNCHANGED <<events, args, call>> PROVE EventInv'
    <2>1. CallsInv' BY <1>7 DEF EventInv, CallsInv
    <2>2. OwnEvent' BY <1>7 DEF EventInv, OwnEvent, events
    <2> QED BY <1>7, <2>1, <2>2, EventsUnchanged DEF EventInv
  <1>8. CASE Device BY <1>7, <1>8 DEF Device, RunStep
  <1>9. CASE SetUserEvent BY <1>7, <1>9 DEF SetUserEvent
  <1>10. CASE UNCHANGED vars BY <1>7, <1>10 DEF vars, standins
  <1> QED BY <1>1, <1>2, <1>3, <1>4, <1>5, <1>6, <1>8, <1>9, <1>10 DEF Next, CallStep

\* The invariant the theorems about the event map rest on.
THEOREM EventInvariant == Alone /\ Unchecked = {} => (Spec => []EventInv)
  <1> SUFFICES ASSUME Alone, Unchecked = {} PROVE Spec => []EventInv
    OBVIOUS
  <1>1. Init => EventInv BY EventInvInit
  <1>2. EventInv /\ [Next]_vars => EventInv' BY EventInvNext
  <1> QED BY <1>1, <1>2, PTL DEF Spec

\* With calls on one event kept apart and something to check in every kernel,
\* clGetEventProfilingInfo on an event the application holds reports its own
\* kernel, whose event has not been given back, or its own command.
THEOREM ProfilesAreOwn == Alone /\ Unchecked = {} => (Spec => []ProfilesOwn)
  <1>1. EventInv => ProfilesOwn
    <2> SUFFICES ASSUME EventInv, NEW e \in Events, held[e] > 0
                 PROVE  /\ GetEventProfilingInfo(e) = <<IF of[e] \in Launches THEN "kernel" ELSE "event", of[e]>>
                        /\ of[e] \in Launches => inner[of[e]] = 1
      BY DEF ProfilesOwn
    <2> USE EventAssumption
    <2>1. EventAt(e) BY DEF EventInv
    <2>2. CASE of[e] \in Launches
      <3>1. entry[e] # Nil /\ entry[e].internal = of[e] BY <2>1, <2>2 DEF EventAt
      <3>2. inner[of[e]] = 1 BY <2>1, <2>2, <3>1 DEF EventInv, InnerInv, EventAt
      <3> QED BY <2>2, <3>1, <3>2 DEF GetEventProfilingInfo
    <2>3. CASE of[e] \notin Launches BY <2>1, <2>3 DEF EventAt, GetEventProfilingInfo
    <2> QED BY <2>2, <2>3
  <1> QED BY <1>1, EventInvariant, PTL

\* With calls on one event kept apart and something to check in every kernel,
\* the counts of cl_evt_list are the runtime's, no entry goes while a call uses
\* it, and each kernel's event is released once, with its entry.
THEOREM EventsAreExact == Alone /\ Unchecked = {} => (Spec => []EventsExact)
  <1>1. EventInv => EventsExact
    <2> SUFFICES ASSUME EventInv PROVE EventsExact
      OBVIOUS
    <2>1. \A e \in Events : Users(e) = {} /\ entry[e] # Nil => entry[e].ref = refs[e] /\ of[e] # Nil
      BY DEF EventInv, EventAt
    <2>2. \A t \in Threads : pc[t] \in {"checking", "found"} => entry[job[t]] # Nil
      BY DEF EventInv, UseAt
    <2>3. ASSUME NEW l \in Launches \cap Asking
          PROVE  inner[l] = Cardinality({e \in Events : entry[e] # Nil /\ entry[e].internal = l})
      <3> DEFINE S == {e \in Events : entry[e] # Nil /\ entry[e].internal = l}
      <3>1. \A e \in S : of[e] = l BY EventAssumption DEF EventInv, EventAt
      <3>2. CASE S = {}
        <4>1. inner[l] = 0 BY <3>2 DEF EventInv, InnerInv
        <4> QED BY <3>2, <4>1, FS_EmptySet
      <3>3. CASE S # {}
        <4>1. PICK e : e \in S BY <3>3
        <4>2. \A f \in S : f = e BY <3>1, <4>1, EventAssumption DEF EventInv, OwnEvent
        <4>3. S = {e} BY <4>1, <4>2
        <4>4. inner[l] = 1 BY <4>1 DEF EventInv, InnerInv
        <4> HIDE DEF S
        <4>5. Cardinality(S) = 1 BY <4>3, FS_Singleton
        <4> QED BY <4>4, <4>5 DEF S
      <3> QED BY <3>2, <3>3
    <2> QED BY <2>1, <2>2, <2>3 DEF EventsExact
  <1> QED BY <1>1, EventInvariant, PTL

-----------------------------------------------------------------------------
(***************************************************************************)
(* Stand-ins do not show.                                                  *)
(***************************************************************************)
Objects == Buffers \cup (Launches \X HostBuffers)

AllQueues == Queues \cup {CacheQueue}

Steps ==
    [op : {"copy", "work"}, cmd : Commands, from : Objects \cup {Nil}, to : SUBSET Objects,
     waits : SUBSET (Commands \cup {"gate"})]

HideTypeOK ==
    /\ after \in [Commands -> SUBSET Commands]
    /\ content \in [Objects -> Seq(Commands)]
    /\ fifo \in [AllQueues -> Seq(Steps)]
    /\ done \subseteq Commands
    /\ \A t \in Threads : call[t] # NoCall => call[t].queue \in Queues

Seen(c, o) == \E i \in 1 .. Len(content[o]) : content[o][i] = c

CopyIn(l, b) == Step("copy", l, b, {StandIn(l, b)}, {})
CopyBack(l, b) == Step("copy", l, StandIn(l, b), {b}, {})
WorksOn(c) == {IF c \in Launches THEN Target(c, b) ELSE b : b \in args[c]}

WorkPending(c) == \E s \in Pending : s.op = "work" /\ s.cmd = c

\* What is in a queue: work that has not been done yet, or the copies of a call.
WorkAt(s) ==
    /\ s.op = "work" /\ after[s.cmd] \subseteq s.waits /\ s.to = WorksOn(s.cmd)
    /\ \A b \in s.to \cap Buffers : ~Seen(s.cmd, b)
    /\ IF s.cmd \in Launches /\ HostArgs(s.cmd) # {}
       THEN \E t \in Threads : call[t].cmd = s.cmd /\ call[t].at = "launched"
       ELSE ~InCall(s.cmd)

CopyAt(q, s) ==
    /\ s.cmd \in Launches
    /\ \E t \in Threads, b \in HostArgs(s.cmd) :
          /\ call[t].cmd = s.cmd /\ call[t].queue = q
          /\ \/ call[t].at = "created" /\ s = CopyIn(s.cmd, b)
             \/ call[t].at = "copied" /\ s = CopyBack(s.cmd, b)

StepAt(q, s) ==
    /\ args[s.cmd] # {} /\ s.cmd \notin done
    /\ WorkAt(s) \/ CopyAt(q, s)

In(q, s) == \E i \in 1 .. Len(fifo[q]) : fifo[q][i] = s

StepsInv == \A q \in AllQueues, s \in Steps : In(q, s) => StepAt(q, s)

\* No step is there twice.
OnceInv ==
    \A p, q \in AllQueues : \A i \in 1 .. Len(fifo[p]), j \in 1 .. Len(fifo[q]) :
        fifo[p][i].cmd = fifo[q][j].cmd /\ fifo[p][i].to = fifo[q][j].to => p = q /\ i = j

QueueInv == StepsInv /\ OnceInv

\* A command that is issued works once on each of its buffers, and is complete last.
IssuedInv ==
    /\ \A c \in Commands : args[c] = {} => \A b \in Buffers : ~Seen(c, b)
    /\ \A c \in done : args[c] # {} /\ ~InCall(c)

\* The stand-in of b for launch l, by how far the call has come: a copy of b, and
\* then b with the launch.
HostAt(t, b) ==
    LET l == call[t].cmd
        same == content[StandIn(l, b)] = content[b]
        ahead == content[StandIn(l, b)] = Append(content[b], l)
    IN
    /\ call[t].at = "created" => CopyIn(l, b) \in Pending \/ same
    /\ call[t].at = "launched" => ~Seen(l, b) /\ IF WorkPending(l) THEN same ELSE ahead
    /\ call[t].at = "copied" => IF CopyBack(l, b) \in Pending THEN ~Seen(l, b) /\ ahead ELSE Seen(l, b)

LaunchAt(t) ==
    LET l == call[t].cmd
    IN
    /\ \A s \in Pending : s.cmd = l => s \in call[t].awaits
    /\ call[t].at = "created" => \A b \in args[l] : ~Seen(l, b)
    /\ call[t].at # "created" => HostArgs(l) # {}
    /\ call[t].at = "copied" \/ (call[t].at = "launched" /\ ~WorkPending(l)) =>
          after[l] \subseteq done /\ \A b \in args[l] \ HostBuffers : Seen(l, b)
    /\ \A b \in HostArgs(l) : HostAt(t, b)

\* What is pending on the buffers of a launch with stand-ins is ahead of all the
\* launch's copies, in the same in-order queue.
AheadOf(t, p, i) ==
    LET l == call[t].cmd
        q == call[t].queue
    IN
    /\ p = q /\ q \in InOrder /\ call[t].at = "created"
    /\ \A b \in HostArgs(l) : CopyIn(l, b) \in Pending
    /\ \A j \in 1 .. Len(fifo[q]) : fifo[q][j].cmd = l => i < j

LoneInv ==
    /\ \A t, u \in Threads : call[t] # NoCall /\ call[u] # NoCall /\ t # u =>
          args[call[t].cmd] \cap args[call[u].cmd] = {}
    /\ \A t \in Threads : call[t] # NoCall /\ HostArgs(call[t].cmd) # {} =>
          \A p \in AllQueues : \A i \in 1 .. Len(fifo[p]) :
              fifo[p][i].cmd # call[t].cmd /\ args[fifo[p][i].cmd] \cap args[call[t].cmd] # {} =>
                  AheadOf(t, p, i)

HideInv ==
    /\ CallsInv /\ HideTypeOK /\ QueueInv /\ IssuedInv /\ LoneInv
    /\ \A t \in Threads : call[t] # NoCall => LaunchAt(t)

-----------------------------------------------------------------------------
\* What the helpers on sequences return.
LEMMA RemoveAtIs ==
    ASSUME NEW S, NEW s \in Seq(S), NEW k \in 1 .. Len(s)
    PROVE  /\ RemoveAt(s, k) \in Seq(S) /\ Len(RemoveAt(s, k)) = Len(s) - 1
           /\ \A i \in 1 .. (Len(s) - 1) : RemoveAt(s, k)[i] = IF i < k THEN s[i] ELSE s[i + 1]
  <1> DEFINE f == SubSeq(s, 1, k - 1)
             g == SubSeq(s, k + 1, Len(s))
  <1>1. f \in Seq(S) /\ Len(f) = k - 1 /\ \A i \in 1 .. (k - 1) : f[i] = s[i] OBVIOUS
  <1>2. g \in Seq(S) /\ Len(g) = Len(s) - k /\ \A i \in 1 .. (Len(s) - k) : g[i] = s[k + i] OBVIOUS
  <1> HIDE DEF f, g
  <1>3. /\ f \o g \in Seq(S) /\ Len(f \o g) = Len(s) - 1
        /\ \A i \in 1 .. (Len(s) - 1) : (f \o g)[i] = IF i <= k - 1 THEN f[i] ELSE g[i - (k - 1)]
    BY <1>1, <1>2, ConcatProperties
  <1>a. k \in Int /\ Len(s) \in Nat /\ 1 <= k /\ k <= Len(s) OBVIOUS
  <1>4. ASSUME NEW i \in 1 .. (Len(s) - 1) PROVE (f \o g)[i] = IF i < k THEN s[i] ELSE s[i + 1]
    <2>0. i \in Int /\ 1 <= i /\ i <= Len(s) - 1 BY <1>a
    <2>1. (f \o g)[i] = IF i <= k - 1 THEN f[i] ELSE g[i - (k - 1)] BY <1>3
    <2>2. CASE i < k
      <3>1. i <= k - 1 /\ i \in 1 .. (k - 1) BY <1>a, <2>0, <2>2
      <3>2. f[i] = s[i] BY <1>1, <3>1
      <3> QED BY <2>1, <2>2, <3>1, <3>2
    <2>3. CASE ~(i < k)
      <3>1. /\ ~(i <= k - 1) /\ i - (k - 1) \in 1 .. (Len(s) - k)
            /\ k + (i - (k - 1)) = i + 1
        BY <1>a, <2>0, <2>3
      <3>2. g[i - (k - 1)] = s[i + 1] BY <1>2, <3>1
      <3> QED BY <2>1, <2>3, <3>1, <3>2
    <2> QED BY <2>2, <2>3
  <1> QED BY <1>3, <1>4 DEF RemoveAt, f, g

LEMMA SetToSeqIs ==
    ASSUME NEW S, IsFiniteSet(S)
    PROVE  /\ SetToSeq(S) \in Seq(S)
           /\ \A i, j \in 1 .. Len(SetToSeq(S)) : SetToSeq(S)[i] = SetToSeq(S)[j] => i = j
           /\ \A x \in S : \E i \in 1 .. Len(SetToSeq(S)) : SetToSeq(S)[i] = x
  <1> DEFINE n == Cardinality(S)
             f == SetToSeq(S)
  <1>1. n \in Nat /\ ExistsBijection(1 .. n, S) BY FS_CardinalityType
  <1>2. \E g \in [1 .. n -> S] : IsInjective(g)
    BY <1>1 DEF ExistsBijection, Bijection, Injection
  <1>3. f \in [1 .. n -> S] /\ IsInjective(f) BY <1>2 DEF SetToSeq
  <1> HIDE DEF f
  <1>4. f \in Injection(1 .. n, S) BY <1>3 DEF Injection
  <1>5. IsFiniteSet(1 .. n) /\ Cardinality(1 .. n) = n BY <1>1, FS_Interval
  <1>6. f \in Surjection(1 .. n, S) BY <1>4, <1>5, FS_Injection
  <1>7. f \in Seq(S) /\ Len(f) = n BY <1>1, <1>3
  <1> QED BY <1>3, <1>6, <1>7 DEF IsInjective, Surjection, f

-----------------------------------------------------------------------------
\* Queue q gets the steps N, each once, behind the others.
Grows(q, N) ==
    /\ fifo' \in [AllQueues -> Seq(Steps)]
    /\ \A p \in AllQueues \ {q} : fifo'[p] = fifo[p]
    /\ Len(fifo[q]) <= Len(fifo'[q])
    /\ \A i \in 1 .. Len(fifo[q]) : fifo'[q][i] = fifo[q][i]
    /\ \A i \in 1 .. Len(fifo'[q]) : i > Len(fifo[q]) => fifo'[q][i] \in N
    /\ \A s \in N : \E i \in 1 .. Len(fifo'[q]) : i > Len(fifo[q]) /\ fifo'[q][i] = s
    /\ \A i, j \in 1 .. Len(fifo'[q]) :
          i > Len(fifo[q]) /\ j > Len(fifo[q]) /\ fifo'[q][i] = fifo'[q][j] => i = j

LEMMA PendingIn ==
    ASSUME NEW f \in [AllQueues -> Seq(Steps)], NEW s
    PROVE  s \in UNION {ToSet(f[q]) : q \in DOMAIN f} <=>
               \E q \in AllQueues : \E i \in 1 .. Len(f[q]) : f[q][i] = s
  <1>1. DOMAIN f = AllQueues OBVIOUS
  <1>2. ASSUME NEW q \in AllQueues PROVE DOMAIN f[q] = 1 .. Len(f[q]) OBVIOUS
  <1>3. ASSUME NEW q \in AllQueues
        PROVE  s \in ToSet(f[q]) <=> \E i \in 1 .. Len(f[q]) : f[q][i] = s
    BY <1>2 DEF ToSet
  <1> QED BY <1>1, <1>3

LEMMA GrowsAppend ==
    ASSUME HideTypeOK, NEW q \in AllQueues, NEW s \in Steps, fifo' = [fifo EXCEPT ![q] = Append(@, s)]
    PROVE  Grows(q, {s})
  <1>1. fifo[q] \in Seq(Steps) /\ DOMAIN fifo = AllQueues BY DEF HideTypeOK
  <1>2. fifo'[q] = Append(fifo[q], s) /\ \A p \in AllQueues \ {q} : fifo'[p] = fifo[p] BY <1>1
  <1>3. /\ Append(fifo[q], s) \in Seq(Steps) /\ Len(Append(fifo[q], s)) = Len(fifo[q]) + 1
        /\ \A i \in 1 .. Len(fifo[q]) : Append(fifo[q], s)[i] = fifo[q][i]
        /\ Append(fifo[q], s)[Len(fifo[q]) + 1] = s
    BY <1>1, AppendProperties
  <1>4. fifo' \in [AllQueues -> Seq(Steps)] BY <1>2, <1>3 DEF HideTypeOK
  <1>5. Len(fifo[q]) \in Nat BY <1>1
  <1> QED BY <1>2, <1>3, <1>4, <1>5 DEF Grows

Copies(l, B, in) == {IF in THEN CopyIn(l, b) ELSE CopyBack(l, b) : b \in B}

LEMMA CopyIsStep ==
    ASSUME NEW l \in Launches, NEW b \in HostBuffers
    PROVE  CopyIn(l, b) \in Steps /\ CopyBack(l, b) \in Steps
  BY StandInAssumption DEF CopyIn, CopyBack, Step, Steps, StandIn, Objects, Commands

LEMMA CopiesFinite ==
    ASSUME NEW l, NEW B \in SUBSET HostBuffers, NEW in
    PROVE  IsFiniteSet(Copies(l, B, in))
  <1>1. IsFiniteSet(B) BY StandInAssumption, FS_Subset
  <1> DEFINE f == [b \in B |-> IF in THEN CopyIn(l, b) ELSE CopyBack(l, b)]
  <1>2. f \in Surjection(B, Copies(l, B, in)) BY DEF Surjection, Copies
  <1> QED BY <1>1, <1>2, FS_Surjection

LEMMA GrowsCopies ==
    ASSUME HideTypeOK, Away = {}, NEW l \in Launches, NEW q \in Queues, NEW B \in SUBSET HostBuffers,
           NEW in \in BOOLEAN, EnqueueCopies(l, q, B, in)
    PROVE  /\ Grows(q, Copies(l, B, in))
           /\ UNION {CopySteps(l, q, cq, B, in) : cq \in AllQueues} = Copies(l, B, in)
  <1> DEFINE C == Copies(l, B, in)
  <1>0. DOMAIN fifo = AllQueues /\ q \in AllQueues BY DEF HideTypeOK, AllQueues
  <1>1. CopySteps(l, q, q, B, in) = C
    BY DEF CopySteps, CopyQueue, Copies, CopyIn, CopyBack
  <1>2. \A p \in AllQueues \ {q} : CopySteps(l, q, p, B, in) = {}
    BY DEF CopySteps, CopyQueue
  <1>3. UNION {CopySteps(l, q, cq, B, in) : cq \in AllQueues} = C BY <1>0, <1>1, <1>2
  <1>4. IsFiniteSet(C) /\ IsFiniteSet({}) BY CopiesFinite, FS_EmptySet
  <1> DEFINE z == SetToSeq(C)
             e == SetToSeq({})
  <1>5. /\ z \in Seq(C) /\ (\A i, j \in 1 .. Len(z) : z[i] = z[j] => i = j)
        /\ \A x \in C : \E i \in 1 .. Len(z) : z[i] = x
    BY <1>4, SetToSeqIs
  <1>6. e = <<>>
    <2>1. e \in Seq({}) BY <1>4, SetToSeqIs
    <2> HIDE DEF e
    <2> QED BY <2>1
  <1>7. C \subseteq Steps BY CopyIsStep DEF Copies
  <1> HIDE DEF z, e, C
  <1>8. z \in Seq(Steps) BY <1>5, <1>7, SeqMonotonic
  <1>9. fifo[q] \in Seq(Steps) BY <1>0 DEF HideTypeOK
  <1>10. fifo'[q] = fifo[q] \o z BY <1>0, <1>1 DEF EnqueueCopies, z
  <1>11. \A p \in AllQueues \ {q} : fifo'[p] = fifo[p]
    <2> TAKE p \in AllQueues \ {q}
    <2>1. fifo'[p] = fifo[p] \o e BY <1>0, <1>2 DEF EnqueueCopies, e
    <2>2. fifo[p] \in Seq(Steps) BY DEF HideTypeOK
    <2> QED BY <1>6, <2>1, <2>2, ConcatEmptySeq
  <1>12. DOMAIN fifo' = AllQueues BY <1>0 DEF EnqueueCopies
  <1>13. /\ fifo'[q] \in Seq(Steps) /\ Len(fifo'[q]) = Len(fifo[q]) + Len(z)
         /\ \A i \in 1 .. Len(fifo[q]) + Len(z) :
               fifo'[q][i] = IF i <= Len(fifo[q]) THEN fifo[q][i] ELSE z[i - Len(fifo[q])]
    BY <1>8, <1>9, <1>10, ConcatProperties
  <1>14. fifo' \in [AllQueues -> Seq(Steps)]
    <2>1. fifo' = [p \in AllQueues |-> fifo'[p]] BY <1>0 DEF EnqueueCopies
    <2>2. \A p \in AllQueues : fifo'[p] \in Seq(Steps) BY <1>11, <1>13 DEF HideTypeOK
    <2> QED BY <2>1, <2>2
  <1>15. Len(fifo[q]) \in Nat /\ Len(z) \in Nat BY <1>8, <1>9
  <1>16. \A i \in 1 .. Len(z) : z[i] \in C BY <1>5
  <1>a. ASSUME NEW n \in Nat, NEW m \in Nat, n = Len(fifo[q]), m = Len(z)
        PROVE  \A i \in 1 .. m : i + n \in 1 .. Len(fifo'[q]) /\ fifo'[q][i + n] = z[i]
    <2> TAKE i \in 1 .. m
    <2>1. i + n \in 1 .. n + m /\ ~(i + n <= n) /\ (i + n) - n = i BY <1>a
    <2>2. \A k \in 1 .. n + m : fifo'[q][k] = IF k <= n THEN fifo[q][k] ELSE z[k - n] BY <1>13, <1>a
    <2>3. fifo'[q][i + n] = z[(i + n) - n] BY <2>1, <2>2
    <2> QED BY <1>13, <1>a, <2>1, <2>3
  <1>b. \A i \in 1 .. Len(z) :
           i + Len(fifo[q]) \in 1 .. Len(fifo'[q]) /\ fifo'[q][i + Len(fifo[q])] = z[i]
    BY <1>15, <1>a
  <1>17. ASSUME NEW x \in C PROVE \E i \in 1 .. Len(fifo'[q]) : i > Len(fifo[q]) /\ fifo'[q][i] = x
    <2>1. PICK i \in 1 .. Len(z) : z[i] = x BY <1>5
    <2>2. i + Len(fifo[q]) \in 1 .. Len(fifo'[q]) /\ fifo'[q][i + Len(fifo[q])] = x
      BY <1>b, <2>1
    <2> QED BY <1>15, <2>2
  <1>18. Grows(q, C)
    <2>1. \A i \in 1 .. Len(fifo'[q]) : i > Len(fifo[q]) =>
             \E j \in 1 .. Len(z) : i = j + Len(fifo[q])
      <3> TAKE i \in 1 .. Len(fifo'[q])
      <3> HAVE i > Len(fifo[q])
      <3>1. i - Len(fifo[q]) \in 1 .. Len(z) /\ i = (i - Len(fifo[q])) + Len(fifo[q])
        BY <1>13, <1>15
      <3> QED BY <3>1
    <2>2. \A i, j \in 1 .. Len(fifo'[q]) :
            i > Len(fifo[q]) /\ j > Len(fifo[q]) /\ fifo'[q][i] = fifo'[q][j] => i = j
      <3> SUFFICES ASSUME NEW i \in 1 .. Len(fifo'[q]), NEW j \in 1 .. Len(fifo'[q]),
                          i > Len(fifo[q]), j > Len(fifo[q]), fifo'[q][i] = fifo'[q][j]
                   PROVE  i = j
        OBVIOUS
      <3>1. PICK a \in 1 .. Len(z) : i = a + Len(fifo[q]) BY <2>1
      <3>2. PICK b \in 1 .. Len(z) : j = b + Len(fifo[q]) BY <2>1
      <3>3. z[a] = z[b] BY <1>b, <3>1, <3>2
      <3> QED BY <1>5, <3>1, <3>2, <3>3
    <2>3. \A i \in 1 .. Len(fifo'[q]) : i > Len(fifo[q]) => fifo'[q][i] \in C
      BY <1>16, <1>b, <2>1
    <2> QED BY <1>11, <1>13, <1>14, <1>15, <1>17, <2>2, <2>3 DEF Grows
  <1> QED BY <1>3, <1>18 DEF C

LEMMA GrowsPending ==
    ASSUME HideTypeOK, NEW q \in AllQueues, NEW N, Grows(q, N)
    PROVE  \A s : s \in Pending' <=> s \in Pending \/ s \in N
  <1>1. fifo \in [AllQueues -> Seq(Steps)] /\ fifo' \in [AllQueues -> Seq(Steps)]
    BY DEF HideTypeOK, Grows
  <1>2. \A s : s \in Pending <=> \E p \in AllQueues : \E i \in 1 .. Len(fifo[p]) : fifo[p][i] = s
    BY <1>1, PendingIn DEF Pending
  <1>3. \A s : s \in Pending' <=> \E p \in AllQueues : \E i \in 1 .. Len(fifo'[p]) : fifo'[p][i] = s
    BY <1>1, PendingIn DEF Pending
  <1>4. Len(fifo[q]) \in Nat /\ Len(fifo'[q]) \in Nat BY <1>1
  <1>5. ASSUME NEW s, s \in Pending PROVE s \in Pending'
    <2>a. PICK p \in AllQueues : \E i \in 1 .. Len(fifo[p]) : fifo[p][i] = s BY <1>2, <1>5
    <2>1. PICK i \in 1 .. Len(fifo[p]) : fifo[p][i] = s BY <2>a
    <2>2. CASE p = q
      <3>1. i \in 1 .. Len(fifo'[q]) /\ fifo'[q][i] = s BY <1>4, <2>1, <2>2 DEF Grows
      <3> QED BY <1>3, <3>1
    <2>3. CASE p # q BY <1>3, <2>1, <2>3 DEF Grows
    <2> QED BY <2>2, <2>3
  <1>6. ASSUME NEW s \in N PROVE s \in Pending' BY <1>3 DEF Grows
  <1>7. ASSUME NEW s, s \in Pending' PROVE s \in Pending \/ s \in N
    <2>a. PICK p \in AllQueues : \E i \in 1 .. Len(fifo'[p]) : fifo'[p][i] = s BY <1>3, <1>7
    <2>1. PICK i \in 1 .. Len(fifo'[p]) : fifo'[p][i] = s BY <2>a
    <2>2. CASE p = q
      <3>1. CASE i \in 1 .. Len(fifo[q]) BY <1>2, <2>1, <2>2, <3>1 DEF Grows
      <3>2. CASE i > Len(fifo[q]) BY <2>1, <2>2, <3>2 DEF Grows
      <3> QED BY <1>4, <2>1, <2>2, <3>1, <3>2
    <2>3. CASE p # q BY <1>2, <2>1, <2>3 DEF Grows
    <2> QED BY <2>2, <2>3
  <1> QED BY <1>5, <1>6, <1>7

\* Step k of queue q is carried out and leaves the queue.
Shrinks(q, k) ==
    /\ fifo' \in [AllQueues -> Seq(Steps)]
    /\ \A p \in AllQueues \ {q} : fifo'[p] = fifo[p]
    /\ Len(fifo'[q]) = Len(fifo[q]) - 1
    /\ \A i \in 1 .. Len(fifo'[q]) : fifo'[q][i] = IF i < k THEN fifo[q][i] ELSE fifo[q][i + 1]

\* Where step i of queue p was before.
Was(q, k, p, i) == IF p = q /\ i >= k THEN i + 1 ELSE i

LEMMA ShrinksPlaces ==
    ASSUME HideTypeOK, NEW q \in AllQueues, NEW k \in 1 .. Len(fifo[q]), Shrinks(q, k)
    PROVE  /\ \A p \in AllQueues : \A i \in 1 .. Len(fifo'[p]) :
                 /\ Was(q, k, p, i) \in 1 .. Len(fifo[p]) /\ fifo'[p][i] = fifo[p][Was(q, k, p, i)]
                 /\ p = q => Was(q, k, p, i) # k
           /\ \A p \in AllQueues : \A j \in 1 .. Len(fifo[p]) :
                 (p = q /\ j = k) \/ \E i \in 1 .. Len(fifo'[p]) : fifo'[p][i] = fifo[p][j]
  <1>1. \A p \in AllQueues : Len(fifo[p]) \in Nat /\ Len(fifo'[p]) \in Nat BY DEF HideTypeOK, Shrinks
  <1>2. ASSUME NEW p \in AllQueues, NEW i \in 1 .. Len(fifo'[p])
        PROVE  /\ Was(q, k, p, i) \in 1 .. Len(fifo[p]) /\ fifo'[p][i] = fifo[p][Was(q, k, p, i)]
               /\ p = q => Was(q, k, p, i) # k
    <2>1. CASE p = q BY <1>1, <2>1 DEF Shrinks, Was
    <2>2. CASE p # q BY <1>1, <2>2 DEF Shrinks, Was
    <2> QED BY <2>1, <2>2
  <1>3. ASSUME NEW p \in AllQueues, NEW j \in 1 .. Len(fifo[p]), ~(p = q /\ j = k)
        PROVE  \E i \in 1 .. Len(fifo'[p]) : fifo'[p][i] = fifo[p][j]
    <2>1. CASE p # q BY <2>1 DEF Shrinks
    <2>2. CASE p = q /\ j < k
      <3>1. j \in 1 .. Len(fifo'[q]) BY <1>1, <2>2 DEF Shrinks
      <3>2. fifo'[q][j] = fifo[q][j] BY <2>2, <3>1 DEF Shrinks
      <3> QED BY <2>2, <3>1, <3>2
    <2>3. CASE p = q /\ j > k
      <3>1. j - 1 \in 1 .. Len(fifo'[q]) /\ ~(j - 1 < k) /\ (j - 1) + 1 = j BY <1>1, <2>3 DEF Shrinks
      <3>2. fifo'[q][j - 1] = fifo[q][(j - 1) + 1] BY <3>1 DEF Shrinks
      <3> QED BY <2>3, <3>1, <3>2
    <2> QED BY <1>1, <1>3, <2>1, <2>2, <2>3
  <1> QED BY <1>2, <1>3

LEMMA ShrinksPending ==
    ASSUME HideTypeOK, QueueInv, NEW q \in AllQueues, NEW k \in 1 .. Len(fifo[q]), Shrinks(q, k)
    PROVE  \A s : s \in Pending' <=> s \in Pending /\ s # fifo[q][k]
  <1>1. fifo \in [AllQueues -> Seq(Steps)] /\ fifo' \in [AllQueues -> Seq(Steps)]
    BY DEF HideTypeOK, Shrinks
  <1>2. \A s : s \in Pending <=> \E p \in AllQueues : \E i \in 1 .. Len(fifo[p]) : fifo[p][i] = s
    BY <1>1, PendingIn DEF Pending
  <1>3. \A s : s \in Pending' <=> \E p \in AllQueues : \E i \in 1 .. Len(fifo'[p]) : fifo'[p][i] = s
    BY <1>1, PendingIn DEF Pending
  <1>4. ASSUME NEW s, s \in Pending' PROVE s \in Pending /\ s # fifo[q][k]
    <2>a. PICK p \in AllQueues : \E i \in 1 .. Len(fifo'[p]) : fifo'[p][i] = s BY <1>3, <1>4
    <2>1. PICK i \in 1 .. Len(fifo'[p]) : fifo'[p][i] = s BY <2>a
    <2>b. PICK j : j = Was(q, k, p, i) OBVIOUS
    <2>c. /\ Was(q, k, p, i) \in 1 .. Len(fifo[p]) /\ fifo'[p][i] = fifo[p][Was(q, k, p, i)]
          /\ p = q => Was(q, k, p, i) # k
      BY ShrinksPlaces
    <2>2. j \in 1 .. Len(fifo[p]) /\ fifo[p][j] = s /\ (p = q => j # k) BY <2>1, <2>b, <2>c
    <2>3. s \in Pending BY <1>2, <2>2
    <2>4. ASSUME s = fifo[q][k] PROVE FALSE
      <3>1. fifo[p][j].cmd = fifo[q][k].cmd /\ fifo[p][j].to = fifo[q][k].to BY <2>2, <2>4
      <3>2. p = q /\ j = k BY <2>2, <3>1 DEF QueueInv, OnceInv
      <3> QED BY <2>2, <3>2
    <2> QED BY <2>3, <2>4
  <1>5. ASSUME NEW s, s \in Pending, s # fifo[q][k] PROVE s \in Pending'
    <2>a. PICK p \in AllQueues : \E j \in 1 .. Len(fifo[p]) : fifo[p][j] = s BY <1>2, <1>5
    <2>1. PICK j \in 1 .. Len(fifo[p]) : fifo[p][j] = s BY <2>a
    <2>b. ~(p = q /\ j = k) BY <1>5, <2>1
    <2>c. \A r \in AllQueues : \A h \in 1 .. Len(fifo[r]) :
             (r = q /\ h = k) \/ \E i \in 1 .. Len(fifo'[r]) : fifo'[r][i] = fifo[r][h]
      BY ShrinksPlaces
    <2>2. \E i \in 1 .. Len(fifo'[p]) : fifo'[p][i] = fifo[p][j] BY <2>b, <2>c
    <2> QED BY <1>3, <2>1, <2>2
  <1> QED BY <1>4, <1>5

-----------------------------------------------------------------------------
\* The threads inside a call, and what they call.
LEMMA InCallIs ==
    ASSUME CallsInv
    PROVE  /\ \A t \in Threads : call[t] # NoCall =>
                 /\ call[t].cmd \in Launches /\ call[t].cmd \in Commands /\ args[call[t].cmd] # {}
                 /\ call[t].at \in {"created", "launched", "copied"}
           /\ \A t \in Threads : call[t].cmd \in Commands => call[t] # NoCall
           /\ \A c \in Commands, t \in Threads, u \in Threads : call[t].cmd = c /\ call[u].cmd = c => t = u
  BY EventAssumption, StandInAssumption DEF CallsInv, NoCall, Commands

SameCalls(c) == \A u \in Threads : call[u].cmd = c \/ call'[u].cmd = c => call'[u] = call[u]

\* A step in a queue stays what it is if nothing about its command changes.
LEMMA StepStays ==
    ASSUME NEW q, NEW s, StepAt(q, s), args'[s.cmd] = args[s.cmd], after'[s.cmd] = after[s.cmd],
           s.cmd \notin done', SameCalls(s.cmd), \A b \in Buffers : Seen(s.cmd, b)' => Seen(s.cmd, b)
    PROVE  StepAt(q, s)'
  <1>1. WorksOn(s.cmd)' = WorksOn(s.cmd) /\ HostArgs(s.cmd)' = HostArgs(s.cmd)
    BY DEF WorksOn, HostArgs
  <1>2. InCall(s.cmd)' => InCall(s.cmd) BY DEF InCall, SameCalls
  <1>3. WorkAt(s) => WorkAt(s)' BY <1>1, <1>2 DEF WorkAt, SameCalls
  <1>4. CopyAt(q, s) => CopyAt(q, s)' BY <1>1 DEF CopyAt, SameCalls
  <1> QED BY <1>3, <1>4 DEF StepAt

\* What is said of the call of t stays true if its launch has nothing new pending
\* and nothing of its buffers changes that it has copied.
LEMMA LaunchStays ==
    ASSUME NEW t \in Threads, LaunchAt(t), call'[t] = call[t],
           args'[call[t].cmd] = args[call[t].cmd], after'[call[t].cmd] = after[call[t].cmd],
           done \subseteq done', \A s : s.cmd = call[t].cmd => (s \in Pending' <=> s \in Pending),
           \A b \in Buffers : Seen(call[t].cmd, b)' <=> Seen(call[t].cmd, b),
           args[call[t].cmd] \subseteq Buffers,
           \A b \in HostArgs(call[t].cmd) :
              \/ /\ content'[b] = content[b]
                 /\ content'[StandIn(call[t].cmd, b)] = content[StandIn(call[t].cmd, b)]
              \/ call[t].at = "created" /\ CopyIn(call[t].cmd, b) \in Pending
    PROVE  LaunchAt(t)'
  <1> DEFINE l == call[t].cmd
  <1>1. HostArgs(l)' = HostArgs(l) BY DEF HostArgs
  <1>2. WorkPending(l)' <=> WorkPending(l) BY DEF WorkPending
  <1>3. ASSUME NEW b \in HostArgs(l) PROVE HostAt(t, b)'
    <2>0. CopyIn(l, b).cmd = l /\ CopyBack(l, b).cmd = l BY DEF CopyIn, CopyBack, Step
    <2>1. HostAt(t, b) /\ b \in Buffers BY <1>3 DEF LaunchAt, HostArgs
    <2>2. (CopyIn(l, b) \in Pending' <=> CopyIn(l, b) \in Pending)
          /\ (CopyBack(l, b) \in Pending' <=> CopyBack(l, b) \in Pending)
      BY <2>0
    <2>3. CASE call[t].at = "created" /\ CopyIn(l, b) \in Pending
      BY <2>2, <2>3 DEF HostAt, CopyIn, Step, StandIn
    <2>4. CASE content'[b] = content[b] /\ content'[StandIn(l, b)] = content[StandIn(l, b)]
      BY <1>2, <2>1, <2>2, <2>4 DEF HostAt, CopyIn, CopyBack, Step, StandIn
    <2> QED BY <2>3, <2>4, <1>3
  <1> QED BY <1>1, <1>2, <1>3 DEF LaunchAt, HostArgs

-----------------------------------------------------------------------------
\* The queues keep their invariant when steps come or go.
LEMMA QueueGrows ==
    ASSUME HideTypeOK, QueueInv, NEW q \in AllQueues, NEW N, Grows(q, N),
           \A p \in AllQueues, s \in Steps : In(p, s) => StepAt(p, s)',
           \A s \in N : StepAt(q, s)',
           \A s \in N, r \in Pending : s.cmd # r.cmd,
           \A s, r \in N : s.cmd = r.cmd /\ s.to = r.to => s = r
    PROVE  QueueInv'
  <1>1. fifo \in [AllQueues -> Seq(Steps)] /\ fifo' \in [AllQueues -> Seq(Steps)]
    BY DEF HideTypeOK, Grows
  <1>2. \A p \in AllQueues : Len(fifo[p]) \in Nat /\ Len(fifo'[p]) \in Nat BY <1>1
  <1>3. \A p \in AllQueues : \A i \in 1 .. Len(fifo[p]) : fifo[p][i] \in Pending
    BY <1>1, PendingIn DEF Pending
  <1>4. ASSUME NEW p \in AllQueues, NEW i \in 1 .. Len(fifo'[p])
        PROVE  \/ i \in 1 .. Len(fifo[p]) /\ fifo'[p][i] = fifo[p][i]
               \/ p = q /\ i > Len(fifo[q]) /\ fifo'[q][i] \in N
    BY <1>2 DEF Grows
  <1>5. ASSUME NEW p \in AllQueues, NEW s \in Steps, In(p, s)' PROVE StepAt(p, s)'
    <2>1. PICK i \in 1 .. Len(fifo'[p]) : fifo'[p][i] = s BY <1>5 DEF In
    <2>2. In(p, s) \/ (p = q /\ s \in N) BY <1>4, <2>1 DEF In
    <2> QED BY <2>2
  <1>6. ASSUME NEW p \in AllQueues, NEW r \in AllQueues,
               NEW i \in 1 .. Len(fifo'[p]), NEW j \in 1 .. Len(fifo'[r]),
               fifo'[p][i].cmd = fifo'[r][j].cmd, fifo'[p][i].to = fifo'[r][j].to
        PROVE  p = r /\ i = j
    <2>1. CASE i \in 1 .. Len(fifo[p]) /\ fifo'[p][i] = fifo[p][i]
      <3>1. CASE j \in 1 .. Len(fifo[r]) /\ fifo'[r][j] = fifo[r][j]
        BY <1>6, <2>1, <3>1 DEF QueueInv, OnceInv
      <3>2. CASE fifo'[r][j] \in N BY <1>3, <1>6, <2>1, <3>2
      <3> QED BY <1>4, <3>1, <3>2
    <2>2. CASE p = q /\ i > Len(fifo[q]) /\ fifo'[q][i] \in N
      <3>1. CASE j \in 1 .. Len(fifo[r]) /\ fifo'[r][j] = fifo[r][j] BY <1>3, <1>6, <2>2, <3>1
      <3>2. CASE r = q /\ j > Len(fifo[q]) /\ fifo'[q][j] \in N
        <4>1. fifo'[q][i] = fifo'[q][j] BY <1>6, <2>2, <3>2
        <4> QED BY <2>2, <3>2, <4>1 DEF Grows
      <3> QED BY <1>4, <3>1, <3>2
    <2> QED BY <1>4, <2>1, <2>2
  <1> QED BY <1>5, <1>6 DEF QueueInv, StepsInv, OnceInv

LEMMA QueueShrinks ==
    ASSUME HideTypeOK, QueueInv, NEW q \in AllQueues, NEW k \in 1 .. Len(fifo[q]), Shrinks(q, k),
           \A p \in AllQueues, s \in Steps : In(p, s) /\ s # fifo[q][k] => StepAt(p, s)'
    PROVE  QueueInv'
  <1>1. fifo \in [AllQueues -> Seq(Steps)] /\ fifo' \in [AllQueues -> Seq(Steps)]
    BY DEF HideTypeOK, Shrinks
  <1>2. \A p \in AllQueues : \A i \in 1 .. Len(fifo'[p]) :
           /\ Was(q, k, p, i) \in 1 .. Len(fifo[p]) /\ fifo'[p][i] = fifo[p][Was(q, k, p, i)]
           /\ p = q => Was(q, k, p, i) # k
    BY ShrinksPlaces
  <1>3. ASSUME NEW p \in AllQueues, NEW s \in Steps, In(p, s)' PROVE StepAt(p, s)'
    <2>1. PICK i \in 1 .. Len(fifo'[p]) : fifo'[p][i] = s BY <1>3 DEF In
    <2>2. PICK j \in 1 .. Len(fifo[p]) : fifo[p][j] = s /\ (p = q => j # k) BY <1>2, <2>1
    <2>3. s # fifo[q][k] BY <2>2 DEF QueueInv, OnceInv
    <2> QED BY <2>2, <2>3 DEF In
  <1>4. ASSUME NEW p \in AllQueues, NEW r \in AllQueues,
               NEW i \in 1 .. Len(fifo'[p]), NEW j \in 1 .. Len(fifo'[r]),
               fifo'[p][i].cmd = fifo'[r][j].cmd, fifo'[p][i].to = fifo'[r][j].to
        PROVE  p = r /\ i = j
    <2>1. PICK a \in 1 .. Len(fifo[p]) : a = Was(q, k, p, i) /\ fifo'[p][i] = fifo[p][a] BY <1>2
    <2>2. PICK b \in 1 .. Len(fifo[r]) : b = Was(q, k, r, j) /\ fifo'[r][j] = fifo[r][b] BY <1>2
    <2>a. fifo[p][a].cmd = fifo[r][b].cmd /\ fifo[p][a].to = fifo[r][b].to BY <1>4, <2>1, <2>2
    <2>b. OnceInv BY DEF QueueInv
    <2>3. p = r /\ a = b BY <2>a, <2>b DEF OnceInv
    <2>4. i \in Nat /\ j \in Nat BY <1>1
    <2> QED BY <2>1, <2>2, <2>3, <2>4 DEF Was
  <1> QED BY <1>3, <1>4 DEF QueueInv, StepsInv, OnceInv

\* A launch with stand-ins stays alone on its buffers.
LoneAt(t) ==
    \A p \in AllQueues : \A i \in 1 .. Len(fifo[p]) :
        fifo[p][i].cmd # call[t].cmd /\ args[fifo[p][i].cmd] \cap args[call[t].cmd] # {} =>
            AheadOf(t, p, i)

LEMMA LoneGrows ==
    ASSUME HideTypeOK, NEW t \in Threads, call'[t] = call[t], call[t].queue \in AllQueues, LoneAt(t),
           args'[call[t].cmd] = args[call[t].cmd],
           NEW q \in AllQueues, NEW N, Grows(q, N),
           \A r \in Pending : args'[r.cmd] = args[r.cmd],
           \A s \in N : s.cmd # call[t].cmd /\ args'[s.cmd] \cap args[call[t].cmd] = {}
    PROVE  LoneAt(t)'
  <1>0. fifo \in [AllQueues -> Seq(Steps)] /\ fifo' \in [AllQueues -> Seq(Steps)]
    BY DEF HideTypeOK, Grows
  <1>1. \A p \in AllQueues : Len(fifo[p]) \in Nat /\ Len(fifo'[p]) \in Nat BY <1>0
  <1>2. \A p \in AllQueues : \A i \in 1 .. Len(fifo[p]) : fifo[p][i] \in Pending
    BY <1>0, PendingIn DEF Pending
  <1>3. \A s : s \in Pending => s \in Pending' BY GrowsPending
  <1>4. ASSUME NEW p \in AllQueues, NEW i \in 1 .. Len(fifo'[p])
        PROVE  \/ i \in 1 .. Len(fifo[p]) /\ fifo'[p][i] = fifo[p][i]
               \/ p = q /\ i > Len(fifo[q]) /\ fifo'[q][i] \in N
    BY <1>1 DEF Grows
  <1>5. HostArgs(call[t].cmd)' = HostArgs(call[t].cmd) BY DEF HostArgs
  <1>6. ASSUME NEW p \in AllQueues, NEW i \in 1 .. Len(fifo'[p]), fifo'[p][i].cmd # call[t].cmd,
               args'[fifo'[p][i].cmd] \cap args[call[t].cmd] # {}
        PROVE  AheadOf(t, p, i)'
    <2>1. i \in 1 .. Len(fifo[p]) /\ fifo'[p][i] = fifo[p][i] BY <1>4, <1>6
    <2>2. AheadOf(t, p, i) BY <1>2, <1>6, <2>1 DEF LoneAt
    <2>3. \A b \in HostArgs(call[t].cmd) : CopyIn(call[t].cmd, b) \in Pending' BY <1>3, <2>2 DEF AheadOf
    <2>4. \A j \in 1 .. Len(fifo'[p]) : fifo'[p][j].cmd = call[t].cmd => i < j
      BY <1>4, <2>2 DEF AheadOf
    <2> QED BY <1>5, <2>2, <2>3, <2>4 DEF AheadOf, CopyIn, Step, StandIn
  <1> QED BY <1>6 DEF LoneAt

LEMMA LoneShrinks ==
    ASSUME HideInv, NEW t \in Threads, call[t] # NoCall, LoneAt(t), UNCHANGED <<call, args>>,
           NEW q \in AllQueues, NEW k \in 1 .. Len(fifo[q]), Shrinks(q, k), q \in InOrder => k = 1
    PROVE  LoneAt(t)'
  <1> DEFINE l == call[t].cmd
  <1>0. HideTypeOK /\ QueueInv /\ CallsInv BY DEF HideInv
  <1>1. fifo \in [AllQueues -> Seq(Steps)] /\ fifo' \in [AllQueues -> Seq(Steps)]
    BY <1>0 DEF HideTypeOK, Shrinks
  <1>2. \A p \in AllQueues : \A i \in 1 .. Len(fifo'[p]) :
           /\ Was(q, k, p, i) \in 1 .. Len(fifo[p]) /\ fifo'[p][i] = fifo[p][Was(q, k, p, i)]
           /\ p = q => Was(q, k, p, i) # k
    BY <1>0, ShrinksPlaces
  <1>3. ASSUME NEW p \in AllQueues, NEW i \in 1 .. Len(fifo'[p]), fifo'[p][i].cmd # l,
               args[fifo'[p][i].cmd] \cap args[l] # {}
        PROVE  AheadOf(t, p, i)'
    <2> DEFINE j == Was(q, k, p, i)
    <2>1. AheadOf(t, p, j) /\ j \in 1 .. Len(fifo[p]) BY <1>2, <1>3 DEF LoneAt
    <2>2. fifo[q][k].cmd # l
      <3> SUFFICES ASSUME fifo[q][k].cmd = l PROVE FALSE OBVIOUS
      <3>0. l \in Launches /\ l \in Commands BY <1>0, InCallIs
      <3>1. StepAt(q, fifo[q][k]) /\ fifo[q][k] \in Steps BY <1>0, <1>1 DEF QueueInv, StepsInv, In
      <3>2. ASSUME WorkAt(fifo[q][k]) PROVE FALSE
        <4>1. InCall(l) BY DEF InCall
        <4>2. PICK u \in Threads : call[u].cmd = l /\ call[u].at = "launched" BY <3>2, <4>1 DEF WorkAt
        <4> QED BY <1>0, <2>1, <3>0, <4>2, InCallIs DEF AheadOf
      <3>3. CopyAt(q, fifo[q][k]) BY <3>1, <3>2 DEF StepAt
      <3>4. q = call[t].queue BY <1>0, <3>0, <3>3, InCallIs DEF CopyAt
      <3>5. j < k /\ k = 1 BY <2>1, <3>4 DEF AheadOf
      <3> QED BY <2>1, <3>5
    <2>3. \A s : s \in Pending' <=> s \in Pending /\ s # fifo[q][k] BY <1>0, ShrinksPending
    <2>4. \A b \in HostArgs(l) : CopyIn(l, b) \in Pending'
      <3>1. \A b \in HostArgs(l) : CopyIn(l, b) \in Pending BY <2>1 DEF AheadOf
      <3>2. \A b : CopyIn(l, b).cmd = l BY DEF CopyIn, Step
      <3> QED BY <2>2, <2>3, <3>1, <3>2
    <2>5. ASSUME NEW m \in 1 .. Len(fifo'[p]), fifo'[p][m].cmd = l PROVE i < m
      <3>1. j < Was(q, k, p, m) BY <1>2, <2>1, <2>5 DEF AheadOf
      <3>2. i \in Nat /\ m \in Nat /\ k \in Nat BY <1>1
      <3> QED BY <3>1, <3>2 DEF Was
    <2> QED BY <2>1, <2>4, <2>5 DEF AheadOf, CopyIn, Step, StandIn, HostArgs
  <1> QED BY <1>3 DEF LoneAt

-----------------------------------------------------------------------------
(***************************************************************************)
(* The steps of calls.                                                     *)
(***************************************************************************)
LEMMA PendingSteps ==
    ASSUME HideTypeOK, StepsInv
    PROVE  \A r \in Pending : r \in Steps /\ \E p \in AllQueues : In(p, r) /\ StepAt(p, r)
  <1>1. fifo \in [AllQueues -> Seq(Steps)] BY DEF HideTypeOK
  <1>2. \A r : r \in Pending <=> \E p \in AllQueues : \E i \in 1 .. Len(fifo[p]) : fifo[p][i] = r
    BY <1>1, PendingIn DEF Pending
  <1> QED BY <1>1, <1>2 DEF In, StepsInv

\* What the application sees to when it issues a command: nothing that shares a
\* buffer is inside a call.
LEMMA IssueFacts ==
    ASSUME HideInv, ~Overlapping, NEW t \in Threads, NEW c \in Commands, NEW q \in Queues,
           NEW B \in SUBSET Buffers, MayIssue(t, c, q, B)
    PROVE  /\ call[t] = NoCall /\ args[c] = {} /\ c \notin done /\ ~InCall(c)
           /\ \A r \in Pending : r.cmd # c /\ r.cmd \in Commands
           /\ \A d \in Commands : args[d] \cap B # {} /\ d \notin done => ~InCall(d)
           /\ Ordered(B) \subseteq Commands \ {c}
  <1>1. call[t] = NoCall /\ args[c] = {} BY DEF MayIssue, Idle
  <1>2. c \notin done BY <1>1 DEF HideInv, IssuedInv
  <1>3. ~InCall(c) BY <1>1, InCallIs DEF HideInv, InCall
  <1>4. \A r \in Pending : r.cmd # c /\ r.cmd \in Commands
    BY <1>1, PendingSteps DEF HideInv, QueueInv, StepAt, Steps
  <1>5. \A d \in Commands : args[d] \cap B # {} /\ d \notin done => ~InCall(d)
    BY DEF MayIssue, Conflicts
  <1>6. Ordered(B) \subseteq Commands \ {c} BY <1>1 DEF Ordered, Conflicts
  <1> QED BY <1>1, <1>2, <1>3, <1>4, <1>5, <1>6

LEMMA HideWrite ==
    ASSUME HideInv, ~Overlapping, NEW t \in Threads, NEW w \in Writes, NEW q \in Queues,
           NEW b \in Buffers, NEW e, EnqueueWrite(t, w, q, b, e)
    PROVE  HideInv'
  <1>s. PICK s : s = Step("work", w, b, {b}, Ordered({b})) OBVIOUS
  <1>0. w \in Commands /\ w \notin Launches /\ q \in AllQueues
    BY StandInAssumption DEF Commands, AllQueues
  <1>1. /\ call[t] = NoCall /\ args[w] = {} /\ w \notin done /\ ~InCall(w)
        /\ \A r \in Pending : r.cmd # w /\ r.cmd \in Commands
        /\ \A d \in Commands : b \in args[d] /\ d \notin done => ~InCall(d)
        /\ Ordered({b}) \subseteq Commands \ {w}
    <2>1. MayIssue(t, w, q, {b}) BY DEF EnqueueWrite
    <2>2. /\ call[t] = NoCall /\ args[w] = {} /\ w \notin done /\ ~InCall(w)
          /\ \A r \in Pending : r.cmd # w /\ r.cmd \in Commands
          /\ \A d \in Commands : args[d] \cap {b} # {} /\ d \notin done => ~InCall(d)
          /\ Ordered({b}) \subseteq Commands \ {w}
      BY <1>0, <2>1, IssueFacts
    <2> QED BY <2>2
  <1>2. /\ args' = [args EXCEPT ![w] = {b}] /\ after' = [after EXCEPT ![w] = Ordered({b})]
        /\ fifo' = [fifo EXCEPT ![q] = Append(@, s)] /\ UNCHANGED <<content, done, call, gate>>
    BY <1>s DEF EnqueueWrite
  <1>3. HideTypeOK /\ QueueInv /\ CallsInv /\ IssuedInv /\ LoneInv BY DEF HideInv
  <1>4. args \in [Commands -> SUBSET Buffers] /\ after \in [Commands -> SUBSET Commands]
    BY <1>3 DEF CallsInv, HideTypeOK
  <1>5. args'[w] = {b} /\ after'[w] = Ordered({b}) BY <1>0, <1>2, <1>4
  <1>6. \A c \in Commands : c # w => args'[c] = args[c] /\ after'[c] = after[c] BY <1>2, <1>4
  <1>7. s \in Steps BY <1>0, <1>1, <1>s DEF Step, Steps, Objects
  <1>8. s.op = "work" /\ s.cmd = w /\ s.to = {b} /\ s.waits = Ordered({b}) BY <1>s DEF Step
  <1>9. Grows(q, {s}) BY <1>0, <1>2, <1>3, <1>7, GrowsAppend
  <1>10. \A r : r \in Pending' <=> r \in Pending \/ r = s BY <1>0, <1>3, <1>9, GrowsPending
  <1>11. \A c, o : Seen(c, o)' <=> Seen(c, o) BY <1>2 DEF Seen
  <1>12. CallsInv'
    <2>1. args' \in [Commands -> SUBSET Buffers] BY <1>2, <1>4
    <2>2. \A u \in Threads : call[u] # NoCall => args'[call[u].cmd] = args[call[u].cmd]
      BY <1>0, <1>3, <1>6, InCallIs
    <2> QED BY <1>2, <1>3, <2>1, <2>2 DEF CallsInv
  <1>13. HideTypeOK' BY <1>1, <1>2, <1>3, <1>9 DEF HideTypeOK, Grows
  <1>14. QueueInv'
    <2>1. ASSUME NEW p \in AllQueues, NEW r \in Steps, In(p, r) PROVE StepAt(p, r)'
      <3>1. StepAt(p, r) BY <1>3, <2>1 DEF QueueInv, StepsInv
      <3>2. r.cmd # w /\ r.cmd \in Commands BY <1>1, <3>1 DEF StepAt, Steps
      <3> QED BY <1>2, <1>6, <1>11, <3>1, <3>2, StepStays DEF StepAt, SameCalls
    <2>2. StepAt(q, s)'
      <3>1. WorksOn(w)' = {b} BY <1>0, <1>5 DEF WorksOn
      <3>2. ~Seen(w, b)' BY <1>0, <1>1, <1>3, <1>11 DEF IssuedInv
      <3>3. ~InCall(w)' BY <1>1, <1>2 DEF InCall
      <3>4. WorkAt(s)' BY <1>0, <1>5, <1>8, <3>1, <3>2, <3>3 DEF WorkAt
      <3> QED BY <1>1, <1>2, <1>5, <1>8, <3>4 DEF StepAt
    <2>3. \A r \in Pending : s.cmd # r.cmd BY <1>1, <1>8
    <2> QED BY <1>0, <1>3, <1>9, <2>1, <2>2, <2>3, QueueGrows
  <1>15. IssuedInv'
    <2>1. \A c \in Commands : args'[c] = {} => args[c] = {} BY <1>5, <1>6
    <2>2. \A c \in done : c \in Commands /\ args'[c] # {} BY <1>3, <1>5, <1>6 DEF IssuedInv, HideTypeOK
    <2>3. \A c : InCall(c)' <=> InCall(c) BY <1>2 DEF InCall
    <2> QED BY <1>2, <1>3, <1>11, <2>1, <2>2, <2>3 DEF IssuedInv
  <1>16. \A u \in Threads : call[u] # NoCall =>
           /\ call[u].cmd \in Commands /\ call[u].cmd # w /\ call[u].cmd \in Launches
           /\ b \notin args[call[u].cmd] /\ args'[call[u].cmd] = args[call[u].cmd]
    <2>1. ASSUME NEW u \in Threads, call[u] # NoCall
          PROVE  call[u].cmd \in Commands /\ call[u].cmd # w /\ call[u].cmd \in Launches
      BY <1>0, <1>3, <2>1, InCallIs
    <2>2. ASSUME NEW u \in Threads, call[u] # NoCall PROVE b \notin args[call[u].cmd]
      <3>1. InCall(call[u].cmd) BY <2>2 DEF InCall
      <3>2. call[u].cmd \notin done BY <1>3, <3>1 DEF IssuedInv
      <3> QED BY <1>1, <2>1, <2>2, <3>1, <3>2
    <2> QED BY <1>6, <2>1, <2>2
  <1>17. LoneInv'
    <2>1. \A u, v \in Threads : call'[u] # NoCall /\ call'[v] # NoCall /\ u # v =>
            args'[call'[u].cmd] \cap args'[call'[v].cmd] = {}
      BY <1>2, <1>3, <1>16 DEF LoneInv
    <2>2. ASSUME NEW u \in Threads, call'[u] # NoCall, HostArgs(call[u].cmd)' # {} PROVE LoneAt(u)'
      <3>1. LoneAt(u) /\ call[u].queue \in AllQueues /\ args'[call[u].cmd] = args[call[u].cmd]
        BY <1>2, <1>3, <1>16, <2>2 DEF LoneInv, LoneAt, HostArgs, HideTypeOK, AllQueues
      <3>2. \A r \in Pending : args'[r.cmd] = args[r.cmd] BY <1>1, <1>6
      <3>3. s.cmd # call[u].cmd /\ args'[s.cmd] \cap args[call[u].cmd] = {}
        BY <1>2, <1>5, <1>8, <1>16, <2>2
      <3>4. call'[u] = call[u] BY <1>2
      <3>5. \A r \in {s} : r.cmd # call[u].cmd /\ args'[r.cmd] \cap args[call[u].cmd] = {} BY <3>3
      <3> QED BY <1>0, <1>3, <1>9, <3>1, <3>2, <3>4, <3>5, LoneGrows
    <2> QED BY <1>2, <2>1, <2>2 DEF LoneInv, LoneAt
  <1>18. ASSUME NEW u \in Threads, call'[u] # NoCall PROVE LaunchAt(u)'
    <2>1. LaunchAt(u) /\ call'[u] = call[u] /\ call[u] # NoCall BY <1>2, <1>18 DEF HideInv
    <2>2. \A r : r.cmd = call[u].cmd => (r \in Pending' <=> r \in Pending) BY <1>8, <1>10, <1>16, <2>1
    <2>3. args'[call[u].cmd] = args[call[u].cmd] /\ after'[call[u].cmd] = after[call[u].cmd]
          /\ args[call[u].cmd] \subseteq Buffers
      BY <1>4, <1>6, <1>16, <2>1
    <2> QED BY <1>2, <1>11, <2>1, <2>2, <2>3, LaunchStays
  <1> QED BY <1>12, <1>13, <1>14, <1>15, <1>17, <1>18 DEF HideInv

LEMMA CopyFields ==
    ASSUME NEW l, NEW b
    PROVE  /\ CopyIn(l, b).cmd = l /\ CopyIn(l, b).op = "copy" /\ CopyIn(l, b).to = {<<l, b>>}
           /\ CopyIn(l, b).from = b /\ CopyIn(l, b).waits = {}
           /\ CopyBack(l, b).cmd = l /\ CopyBack(l, b).op = "copy" /\ CopyBack(l, b).to = {b}
           /\ CopyBack(l, b).from = <<l, b>> /\ CopyBack(l, b).waits = {}
  BY DEF CopyIn, CopyBack, Step, StandIn

\* A launch with stand-ins is issued: its copies in come behind all that is pending
\* on its buffers, in the same in-order queue, or nothing is.
LEMMA HideEnqueue ==
    ASSUME HideInv, Settled, ~Overlapping, Away = {}, NEW t \in Threads, NEW l \in Launches, NEW q \in Queues,
           NEW B \in (SUBSET Buffers) \ {{}}, EnqueueNDRangeKernel(t, l, q, B)
    PROVE  HideInv'
  <1> DEFINE H == B \cap HostBuffers
             C == Copies(l, H, TRUE)
  <1>0. l \in Commands /\ q \in AllQueues BY StandInAssumption DEF Commands, AllQueues
  <1>1. /\ call[t] = NoCall /\ args[l] = {} /\ l \notin done /\ ~InCall(l)
        /\ \A r \in Pending : r.cmd # l /\ r.cmd \in Commands
        /\ \A d \in Commands : args[d] \cap B # {} /\ d \notin done => ~InCall(d)
        /\ Ordered(B) \subseteq Commands \ {l}
    BY <1>0, IssueFacts DEF EnqueueNDRangeKernel
  <1>r. PICK r : /\ call' = [call EXCEPT ![t] = r] /\ r.cmd = l /\ r.at = "created" /\ r.queue = q
                 /\ r.awaits = IF H = {} THEN {} ELSE ToSet(fifo'[q])
    <2>1. Goto(t, l, q, "created", IF H = {} THEN {} ELSE ToSet(fifo'[q])) BY DEF EnqueueNDRangeKernel
    <2> QED BY <2>1, GotoRecord
  <1>2. /\ args' = [args EXCEPT ![l] = B] /\ after' = [after EXCEPT ![l] = Ordered(B)]
        /\ EnqueueCopies(l, q, H, TRUE) /\ UNCHANGED <<content, done, gate>>
    BY DEF EnqueueNDRangeKernel
  <1>3. HideTypeOK /\ QueueInv /\ CallsInv /\ IssuedInv /\ LoneInv BY DEF HideInv
  <1>4. args \in [Commands -> SUBSET Buffers] /\ after \in [Commands -> SUBSET Commands]
    BY <1>3 DEF CallsInv, HideTypeOK
  <1>5. args'[l] = B /\ after'[l] = Ordered(B) BY <1>0, <1>2, <1>4
  <1>6. \A c \in Commands : c # l => args'[c] = args[c] /\ after'[c] = after[c] BY <1>2, <1>4
  <1>7. DOMAIN call = Threads /\ call'[t] = r /\ r # NoCall /\ \A u \in Threads \ {t} : call'[u] = call[u]
    BY <1>3, <1>r, EventAssumption DEF CallsInv, NoCall
  <1>8. \A s \in C : s.cmd = l /\ \E b \in H : s = CopyIn(l, b) BY CopyFields DEF Copies
  <1>c. \A b \in H : CopyIn(l, b) \in C BY DEF Copies
  <1> HIDE DEF C
  <1>9. Grows(q, C) BY <1>2, <1>3, GrowsCopies DEF C
  <1>10. \A s : s \in Pending' <=> s \in Pending \/ s \in C BY <1>0, <1>3, <1>9, GrowsPending
  <1>11. \A c, o : Seen(c, o)' <=> Seen(c, o) BY <1>2 DEF Seen
  <1>12. CallsInv'
    <2>1. args' \in [Commands -> SUBSET Buffers] BY <1>2, <1>4
    <2>2. \A u \in Threads \ {t} : args[call[u].cmd] # {} => args'[call[u].cmd] # {}
      BY <1>1, <1>2, <1>4, <1>5
    <2>3. \A u \in Threads \ {t} : call[u].cmd # l BY <1>1 DEF InCall
    <2> QED BY <1>3, <1>5, <1>r, <2>1, <2>2, <2>3, CallsInvStep
  <1>13. HideTypeOK'
    <2>1. after' \in [Commands -> SUBSET Commands] BY <1>1, <1>2, <1>4
    <2>2. \A u \in Threads : call'[u] # NoCall => call'[u].queue \in Queues
      BY <1>3, <1>7, <1>r DEF HideTypeOK
    <2> QED BY <1>2, <1>3, <1>9, <2>1, <2>2 DEF HideTypeOK, Grows
  <1>s. \A c \in Commands : c # l => SameCalls(c)
    BY <1>1, <1>7, <1>r, EventAssumption, StandInAssumption DEF SameCalls, NoCall, Commands
  <1>14. QueueInv'
    <2>1. ASSUME NEW p \in AllQueues, NEW s \in Steps, In(p, s) PROVE StepAt(p, s)'
      <3>1. StepAt(p, s) BY <1>3, <2>1 DEF QueueInv, StepsInv
      <3>2. s.cmd # l /\ s.cmd \in Commands BY <1>1, <3>1 DEF StepAt, Steps
      <3>3. s.cmd \notin done' BY <1>2, <3>1 DEF StepAt
      <3> QED BY <1>6, <1>11, <1>s, <3>1, <3>2, <3>3, StepStays
    <2>2. ASSUME NEW s \in C PROVE StepAt(q, s)'
      <3>1. PICK b \in H : s = CopyIn(l, b) BY <1>8
      <3>2. b \in HostArgs(l)' BY <1>5 DEF HostArgs
      <3>3. CopyAt(q, s)' BY <1>7, <1>8, <1>r, <3>1, <3>2 DEF CopyAt
      <3> QED BY <1>1, <1>2, <1>5, <1>8, <3>3 DEF StepAt
    <2>3. \A s \in C, x \in Pending : s.cmd # x.cmd BY <1>1, <1>8
    <2>4. ASSUME NEW s \in C, NEW x \in C, s.to = x.to PROVE s = x
      <3>1. PICK b \in H : s = CopyIn(l, b) BY <1>8
      <3>2. PICK d \in H : x = CopyIn(l, d) BY <1>8
      <3>3. {<<l, b>>} = {<<l, d>>} BY <2>4, <3>1, <3>2, CopyFields
      <3>4. <<l, b>> = <<l, d>> BY <3>3
      <3>5. b = d BY <3>4
      <3> QED BY <3>1, <3>2, <3>5
    <2> QED BY <1>0, <1>3, <1>9, <2>1, <2>2, <2>3, <2>4, QueueGrows
  <1>15. IssuedInv'
    <2>1. \A c \in Commands : args'[c] = {} => args[c] = {} BY <1>5, <1>6
    <2>2. \A c \in done : c \in Commands /\ args'[c] # {} BY <1>3, <1>5, <1>6 DEF IssuedInv, HideTypeOK
    <2>3. \A c \in done : ~InCall(c)'
      <3> TAKE c \in done
      <3>1. c # l /\ c \in Commands /\ ~InCall(c) BY <1>1, <1>3 DEF IssuedInv, HideTypeOK
      <3> QED BY <1>s, <3>1 DEF InCall, SameCalls
    <2> QED BY <1>2, <1>3, <1>11, <2>1, <2>2, <2>3 DEF IssuedInv
  <1>16. \A u \in Threads \ {t} : call[u] # NoCall =>
           /\ call[u].cmd \in Commands /\ call[u].cmd # l
           /\ B \cap args[call[u].cmd] = {} /\ args'[call[u].cmd] = args[call[u].cmd]
    <2>1. ASSUME NEW u \in Threads, call[u] # NoCall PROVE call[u].cmd \in Commands /\ call[u].cmd # l
      BY <1>1, <1>3, <2>1, InCallIs DEF InCall
    <2>2. ASSUME NEW u \in Threads, call[u] # NoCall PROVE B \cap args[call[u].cmd] = {}
      <3>1. InCall(call[u].cmd) BY <2>2 DEF InCall
      <3>2. call[u].cmd \notin done BY <1>3, <3>1 DEF IssuedInv
      <3> QED BY <1>1, <2>1, <2>2, <3>1, <3>2
    <2> QED BY <1>6, <2>1, <2>2
  <1>17. ASSUME HostArgs(l)' # {} PROVE LoneAt(t)'
    <2>0. H # {} BY <1>5, <1>17 DEF HostArgs
    <2> SUFFICES ASSUME NEW p \in AllQueues, NEW i \in 1 .. Len(fifo'[p]), fifo'[p][i].cmd # l,
                        args'[fifo'[p][i].cmd] \cap B # {}
                 PROVE  AheadOf(t, p, i)'
      BY <1>5, <1>7, <1>r DEF LoneAt
    <2>1. fifo \in [AllQueues -> Seq(Steps)] /\ fifo' \in [AllQueues -> Seq(Steps)]
      BY <1>3, <1>9 DEF HideTypeOK, Grows
    <2>2. i \in 1 .. Len(fifo[p]) /\ fifo'[p][i] = fifo[p][i]
      BY <1>8, <1>9, <2>1 DEF Grows
    <2>3. PICK x \in Steps : x = fifo[p][i] /\ In(p, x) BY <2>1, <2>2 DEF In
    <2>4. x.cmd \in Commands /\ args[x.cmd] \cap B # {} /\ x.cmd # l
      BY <1>6, <2>2, <2>3 DEF Steps
    <2>5. StepAt(p, x) BY <1>3, <2>3 DEF QueueInv, StepsInv
    <2>6. x.cmd \in Ordered(B) /\ ~InCall(x.cmd)
      BY <1>1, <2>4, <2>5 DEF StepAt, Ordered, Conflicts
    <2>7. Ahead(q, x.cmd) BY <2>0, <2>6 DEF EnqueueNDRangeKernel, WaitList
    <2>8. PICK y \in ToSet(fifo[q]) : y.op = "work" /\ y.cmd = x.cmd /\ q \in InOrder BY <2>7 DEF Ahead
    <2>9. PICK j \in 1 .. Len(fifo[q]) : fifo[q][j] = y BY <1>0, <2>1, <2>8 DEF ToSet
    <2>10. y \in Steps /\ StepAt(q, y) BY <1>0, <1>3, <2>1, <2>9 DEF In, QueueInv, StepsInv
    <2>11. WorkAt(x) /\ WorkAt(y)
      <3>1. ~CopyAt(p, x) BY <2>6 DEF CopyAt, InCall
      <3>2. ~CopyAt(q, y) BY <2>6, <2>8 DEF CopyAt, InCall
      <3> QED BY <2>5, <2>10, <3>1, <3>2 DEF StepAt
    <2>12. x.to = y.to BY <2>8, <2>11 DEF WorkAt
    <2>13. p = q /\ i = j BY <1>0, <1>3, <2>2, <2>3, <2>8, <2>9, <2>12 DEF QueueInv, OnceInv
    <2>14. \A b \in HostArgs(l)' : CopyIn(l, b) \in Pending' BY <1>5, <1>10, <1>c DEF HostArgs
    <2>15. ASSUME NEW m \in 1 .. Len(fifo'[q]), fifo'[q][m].cmd = l PROVE i < m
      <3>1. CASE m \in 1 .. Len(fifo[q])
        <4>1. fifo[q][m].cmd = l BY <1>9, <2>15, <3>1 DEF Grows
        <4>2. fifo[q][m] \in Pending BY <1>0, <2>1, <3>1, PendingIn DEF Pending
        <4> QED BY <1>1, <4>1, <4>2
      <3>2. CASE m > Len(fifo[q]) BY <1>0, <2>1, <2>2, <2>13, <3>2
      <3> QED BY <1>0, <2>1, <2>15, <3>1, <3>2
    <2> QED BY <1>7, <1>r, <2>8, <2>13, <2>14, <2>15 DEF AheadOf, CopyIn, Step, StandIn
  <1>18. LoneInv'
    <2>1. \A u, v \in Threads : call'[u] # NoCall /\ call'[v] # NoCall /\ u # v =>
            args'[call'[u].cmd] \cap args'[call'[v].cmd] = {}
      BY <1>3, <1>5, <1>7, <1>r, <1>16 DEF LoneInv
    <2>2. ASSUME NEW u \in Threads, call'[u] # NoCall, HostArgs(call[u].cmd)' # {}, u # t PROVE LoneAt(u)'
      <3>1. LoneAt(u) /\ call[u].queue \in AllQueues /\ args'[call[u].cmd] = args[call[u].cmd]
        BY <1>3, <1>7, <1>16, <2>2 DEF LoneInv, LoneAt, HostArgs, HideTypeOK, AllQueues
      <3>2. \A x \in Pending : args'[x.cmd] = args[x.cmd] BY <1>1, <1>6
      <3>3. \A s \in C : s.cmd # call[u].cmd /\ args'[s.cmd] \cap args[call[u].cmd] = {}
        BY <1>5, <1>7, <1>8, <1>16, <2>2
      <3>4. call'[u] = call[u] BY <1>7, <2>2
      <3> QED BY <1>0, <1>3, <1>9, <3>1, <3>2, <3>3, <3>4, LoneGrows
    <2>3. ASSUME NEW u \in Threads, call'[u] # NoCall, HostArgs(call[u].cmd)' # {} PROVE LoneAt(u)'
      <3>1. CASE u = t
        <4>1. HostArgs(l)' # {} BY <1>7, <1>r, <2>3, <3>1 DEF HostArgs
        <4> QED BY <1>17, <3>1, <4>1
      <3> QED BY <2>2, <2>3, <3>1
    <2> QED BY <2>1, <2>3 DEF LoneInv, LoneAt
  <1>19. ASSUME NEW u \in Threads, call'[u] # NoCall PROVE LaunchAt(u)'
    <2>1. CASE u # t
      <3>1. LaunchAt(u) /\ call'[u] = call[u] /\ call[u] # NoCall BY <1>7, <1>19, <2>1 DEF HideInv
      <3>2. \A x : x.cmd = call[u].cmd => (x \in Pending' <=> x \in Pending)
        BY <1>8, <1>10, <1>16, <2>1, <3>1
      <3>3. args'[call[u].cmd] = args[call[u].cmd] /\ after'[call[u].cmd] = after[call[u].cmd]
            /\ args[call[u].cmd] \subseteq Buffers
        BY <1>4, <1>6, <1>16, <2>1, <3>1
      <3> QED BY <1>2, <1>11, <3>1, <3>2, <3>3, LaunchStays
    <2>2. CASE u = t
      <3>1. ASSUME NEW s \in Pending', s.cmd = l PROVE s \in r.awaits
        <4>1. s \in C BY <1>1, <1>10, <3>1
        <4>2. H # {} BY <1>8, <4>1
        <4>3. PICK i \in 1 .. Len(fifo'[q]) : fifo'[q][i] = s BY <1>9, <4>1 DEF Grows
        <4>4. fifo'[q] \in Seq(Steps) BY <1>0, <1>9 DEF Grows
        <4> QED BY <1>r, <4>2, <4>3, <4>4 DEF ToSet
      <3>2. \A b \in B : ~Seen(l, b)' BY <1>0, <1>1, <1>3, <1>11 DEF IssuedInv
      <3>3. ASSUME NEW b \in HostArgs(l)' PROVE HostAt(t, b)'
        <4>1. CopyIn(l, b) \in Pending' BY <1>5, <1>10, <1>c, <3>3 DEF HostArgs
        <4> QED BY <1>7, <1>r, <4>1 DEF HostAt, CopyIn, Step, StandIn
      <3> QED BY <1>5, <1>7, <1>r, <2>2, <3>1, <3>2, <3>3 DEF LaunchAt
    <2> QED BY <2>1, <2>2
  <1> QED BY <1>12, <1>13, <1>14, <1>15, <1>18, <1>19 DEF HideInv

\* Thread t goes on with its call, or returns: nothing of its launch was pending,
\* and it adds no steps but of its launch.
CallMoves(t, r, q, N) ==
    /\ call[t] # NoCall /\ call' = [call EXCEPT ![t] = r] /\ q = call[t].queue
    /\ \/ r = NoCall
       \/ /\ r.cmd = call[t].cmd /\ r.queue = q /\ r.at \in {"launched", "copied"}
          /\ done' = done /\ HostArgs(r.cmd) # {}
    /\ done' \in {done, done \cup {call[t].cmd}}
    /\ \A s \in Pending : s.cmd # call[t].cmd
    /\ \A s \in N : s.cmd = call[t].cmd
    /\ Grows(q, N)
    /\ UNCHANGED <<args, after, content>>

LEMMA HideMoves ==
    ASSUME HideInv, NEW t \in Threads, NEW r, NEW q, NEW N, CallMoves(t, r, q, N),
           \A s \in N : StepAt(q, s)',
           \A s, x \in N : s.to = x.to => s = x,
           r # NoCall => LaunchAt(t)'
    PROVE  HideInv'
  <1>l. PICK l \in Launches : l = call[t].cmd /\ l \in Commands /\ args[l] # {}
    BY InCallIs DEF HideInv, CallMoves
  <1>1. /\ call[t] # NoCall /\ call' = [call EXCEPT ![t] = r] /\ q = call[t].queue
        /\ r = NoCall \/ (r.cmd = l /\ r.queue = q /\ r.at \in {"launched", "copied"}
                          /\ done' = done /\ HostArgs(l) # {})
        /\ done' \in {done, done \cup {l}}
        /\ (\A s \in Pending : s.cmd # l) /\ (\A s \in N : s.cmd = l) /\ Grows(q, N)
        /\ UNCHANGED <<args, after, content>>
    BY <1>l DEF CallMoves
  <1>3. HideTypeOK /\ QueueInv /\ CallsInv /\ IssuedInv /\ LoneInv BY DEF HideInv
  <1>4. args \in [Commands -> SUBSET Buffers] /\ q \in Queues /\ q \in AllQueues
    BY <1>1, <1>3 DEF CallsInv, HideTypeOK, AllQueues
  <1>7. DOMAIN call = Threads /\ call'[t] = r /\ \A u \in Threads \ {t} : call'[u] = call[u] /\ call[u].cmd # l
    BY <1>1, <1>3, <1>l, InCallIs DEF CallsInv
  <1>10. \A s : s \in Pending' <=> s \in Pending \/ s \in N BY <1>1, <1>3, <1>4, GrowsPending
  <1>11. \A c, o : Seen(c, o)' <=> Seen(c, o) BY <1>1 DEF Seen
  <1>12. CallsInv'
    <2>1. args' \in [Commands -> SUBSET Buffers] BY <1>1, <1>4
    <2> QED BY <1>1, <1>3, <1>7, <1>l, <2>1, CallsInvStep
  <1>13. HideTypeOK'
    <2>1. \A u \in Threads : call'[u] # NoCall => call'[u].queue \in Queues
      BY <1>1, <1>3, <1>4, <1>7 DEF HideTypeOK
    <2> QED BY <1>1, <1>3, <1>l, <2>1 DEF HideTypeOK, Grows
  <1>s. \A c \in Commands : c # l => SameCalls(c)
    BY <1>1, <1>7, <1>l, EventAssumption, StandInAssumption DEF SameCalls, NoCall, Commands
  <1>14. QueueInv'
    <2>1. ASSUME NEW p \in AllQueues, NEW s \in Steps, In(p, s) PROVE StepAt(p, s)'
      <3>1. StepAt(p, s) BY <1>3, <2>1 DEF QueueInv, StepsInv
      <3>2. s \in Pending BY <1>3, <2>1, PendingIn DEF Pending, HideTypeOK, In
      <3>3. s.cmd # l /\ s.cmd \in Commands BY <1>1, <3>2 DEF Steps
      <3>4. s.cmd \notin done' BY <1>1, <3>1, <3>3 DEF StepAt
      <3> QED BY <1>1, <1>11, <1>s, <3>1, <3>3, <3>4, StepStays
    <2>2. \A s \in N, x \in Pending : s.cmd # x.cmd BY <1>1
    <2> QED BY <1>1, <1>3, <1>4, <2>1, <2>2, QueueGrows
  <1>15. IssuedInv'
    <2>1. ASSUME NEW c \in done' PROVE args'[c] # {} /\ ~InCall(c)'
      <3>1. CASE c # l
        <4>1. c \in Commands /\ args[c] # {} /\ ~InCall(c)
          BY <1>1, <1>3, <2>1, <3>1 DEF IssuedInv, HideTypeOK
        <4> QED BY <1>1, <1>s, <3>1, <4>1 DEF InCall, SameCalls
      <3>2. CASE c = l
        <4>1. l \notin done BY <1>3, <1>l DEF IssuedInv, InCall
        <4>2. r = NoCall BY <1>1, <2>1, <3>2, <4>1
        <4>3. NoCall.cmd # l BY <1>l, EventAssumption DEF NoCall
        <4> QED BY <1>1, <1>7, <1>l, <3>2, <4>2, <4>3 DEF InCall
      <3> QED BY <3>1, <3>2
    <2> QED BY <1>1, <1>3, <1>11, <2>1 DEF IssuedInv
  <1>16. \A u \in Threads \ {t} : call[u] # NoCall =>
           call[u].cmd \in Commands /\ args[l] \cap args[call[u].cmd] = {}
    BY <1>1, <1>3, <1>l, InCallIs DEF LoneInv
  <1>17. LoneInv'
    <2>1. \A u, v \in Threads : call'[u] # NoCall /\ call'[v] # NoCall /\ u # v =>
            args'[call'[u].cmd] \cap args'[call'[v].cmd] = {}
      BY <1>1, <1>3, <1>7, <1>l, <1>16 DEF LoneInv
    <2>2. ASSUME NEW u \in Threads, call'[u] # NoCall, HostArgs(call[u].cmd)' # {}, u # t PROVE LoneAt(u)'
      <3>1. LoneAt(u) /\ call[u].queue \in AllQueues
        BY <1>1, <1>3, <1>7, <2>2 DEF LoneInv, LoneAt, HostArgs, HideTypeOK, AllQueues
      <3>2. \A x \in Pending : args'[x.cmd] = args[x.cmd] BY <1>1
      <3>3. \A s \in N : s.cmd # call[u].cmd /\ args'[s.cmd] \cap args[call[u].cmd] = {}
        BY <1>1, <1>7, <1>16, <2>2
      <3>4. call'[u] = call[u] /\ args'[call[u].cmd] = args[call[u].cmd] BY <1>1, <1>7, <2>2
      <3> QED BY <1>1, <1>3, <1>4, <3>1, <3>2, <3>3, <3>4, LoneGrows
    <2>3. ASSUME r # NoCall PROVE LoneAt(t)'
      <3>0. HostArgs(l) # {} /\ call'[t].cmd = l BY <1>1, <1>7, <2>3
      <3>1. LoneAt(t) BY <1>1, <1>3, <1>l, <3>0 DEF LoneInv, LoneAt
      <3>2. \A b \in HostArgs(l) : CopyIn(l, b) \notin Pending BY <1>1, CopyFields
      <3>3. \A p \in AllQueues, i \in Nat : ~AheadOf(t, p, i) BY <1>l, <3>0, <3>2 DEF AheadOf
      <3>4. \A p \in AllQueues : \A i \in 1 .. Len(fifo[p]) :
              fifo[p][i].cmd = l \/ args[fifo[p][i].cmd] \cap args[l] = {}
        BY <1>l, <3>1, <3>3 DEF LoneAt
      <3>5. \A p \in AllQueues : \A i \in 1 .. Len(fifo'[p]) :
              fifo'[p][i].cmd = l \/ args[fifo'[p][i].cmd] \cap args[l] = {}
        <4>1. \A p \in AllQueues : Len(fifo[p]) \in Nat /\ Len(fifo'[p]) \in Nat
          BY <1>3, <1>13 DEF HideTypeOK
        <4> QED BY <1>1, <3>4, <4>1 DEF Grows
      <3> QED BY <1>1, <3>0, <3>5 DEF LoneAt
    <2>4. ASSUME NEW u \in Threads, call'[u] # NoCall, HostArgs(call[u].cmd)' # {} PROVE LoneAt(u)'
      BY <1>7, <2>2, <2>3, <2>4
    <2> QED BY <2>1, <2>4 DEF LoneInv, LoneAt
  <1>18. ASSUME NEW u \in Threads, call'[u] # NoCall PROVE LaunchAt(u)'
    <2>1. CASE u # t
      <3>1. LaunchAt(u) /\ call'[u] = call[u] /\ call[u] # NoCall BY <1>7, <1>18, <2>1 DEF HideInv
      <3>2. \A x : x.cmd = call[u].cmd => (x \in Pending' <=> x \in Pending)
        BY <1>1, <1>7, <1>10, <2>1
      <3>3. args[call[u].cmd] \subseteq Buffers /\ done \subseteq done' BY <1>1, <1>4, <1>16, <2>1, <3>1
      <3> QED BY <1>1, <1>11, <3>1, <3>2, <3>3, LaunchStays
    <2>2. CASE u = t BY <1>7, <1>18, <2>2
    <2> QED BY <2>1, <2>2
  <1> QED BY <1>12, <1>13, <1>14, <1>15, <1>17, <1>18 DEF HideInv

\* A wait of the call is over: nothing of its launch is pending.
LEMMA NothingPending ==
    ASSUME HideInv, NEW t \in Threads, call[t] # NoCall, Waited(t)
    PROVE  \A s \in Pending : s.cmd # call[t].cmd
  BY DEF HideInv, LaunchAt, Waited

LEMMA CallFacts ==
    ASSUME HideInv, NEW t \in Threads, call[t] # NoCall
    PROVE  /\ call[t].cmd \in Launches /\ call[t].cmd \in Commands /\ call[t].queue \in Queues
           /\ call[t].queue \in AllQueues /\ call[t].cmd \notin done
           /\ args[call[t].cmd] \in SUBSET Buffers /\ args[call[t].cmd] # {}
           /\ after[call[t].cmd] \in SUBSET Commands
           /\ HostArgs(call[t].cmd) \in SUBSET HostBuffers /\ LaunchAt(t)
  <1>1. call[t].cmd \in Launches /\ call[t].cmd \in Commands /\ args[call[t].cmd] # {}
    BY InCallIs DEF HideInv
  <1>2. InCall(call[t].cmd) BY DEF InCall
  <1> QED BY <1>1, <1>2 DEF HideInv, HideTypeOK, CallsInv, IssuedInv, AllQueues, HostArgs

LEMMA TargetFacts ==
    ASSUME NEW l \in Launches, NEW B \in SUBSET Buffers
    PROVE  /\ {Target(l, b) : b \in B} \subseteq Objects
           /\ \A b \in Buffers : b \in {Target(l, d) : d \in B} <=> b \in B \ HostBuffers
           /\ \A b \in HostBuffers : <<l, b>> \in {Target(l, d) : d \in B} <=> b \in B
           /\ \A k \in Launches, b \in HostBuffers : <<k, b>> \in {Target(l, d) : d \in B} => k = l
  <1>1. \A k \in Launches, b \in HostBuffers : <<k, b>> \notin Buffers BY StandInAssumption
  <1>2. \A d \in B : (Target(l, d) = d /\ d \notin HostBuffers) \/ (Target(l, d) = <<l, d>> /\ d \in HostBuffers)
    <2> TAKE d \in B
    <2>1. CASE d \in HostBuffers BY <2>1 DEF Target, StandIn
    <2>2. CASE d \notin HostBuffers BY <2>2 DEF Target
    <2> QED BY <2>1, <2>2
  <1>3. \A k, j, b, d : <<k, b>> = <<j, d>> => k = j /\ b = d OBVIOUS
  <1>4. {Target(l, b) : b \in B} \subseteq Objects BY <1>2 DEF Objects
  <1>5. ASSUME NEW b \in Buffers PROVE b \in {Target(l, d) : d \in B} <=> b \in B \ HostBuffers
    BY <1>1, <1>2
  <1>6. ASSUME NEW b \in HostBuffers PROVE <<l, b>> \in {Target(l, d) : d \in B} <=> b \in B
    <2>1. ASSUME b \in B PROVE <<l, b>> \in {Target(l, d) : d \in B} BY <1>2, <2>1
    <2>2. ASSUME NEW d \in B, <<l, b>> = Target(l, d) PROVE b \in B
      BY <1>1, <1>2, <1>3, <2>2
    <2> QED BY <2>1, <2>2
  <1>7. ASSUME NEW k \in Launches, NEW b \in HostBuffers, NEW d \in B, <<k, b>> = Target(l, d)
        PROVE  k = l
    BY <1>1, <1>2, <1>3, <1>7
  <1> QED BY <1>4, <1>5, <1>6, <1>7

LEMMA HideLaunch ==
    ASSUME HideInv, NEW t \in Threads, NEW e, LaunchKernel(t, e)
    PROVE  HideInv'
  <1>0. call[t].at = "created" /\ Waited(t) /\ call[t] # NoCall BY DEF LaunchKernel, NoCall
  <1>l. PICK l \in Launches : l = call[t].cmd BY <1>0, CallFacts
  <1>q. PICK q \in Queues : q = call[t].queue BY <1>0, CallFacts
  <1>s. PICK s : s = Step("work", l, Nil, {Target(l, b) : b \in args[l]},
                          after[l] \cup (IF l \in Gated THEN {"gate"} ELSE {}))
    OBVIOUS
  <1>1. /\ l \in Commands /\ q \in AllQueues /\ l \notin done /\ args[l] \in SUBSET Buffers /\ args[l] # {}
        /\ after[l] \in SUBSET Commands /\ LaunchAt(t)
    BY <1>0, <1>l, <1>q, CallFacts
  <1>2. /\ fifo' = [fifo EXCEPT ![q] = Append(@, s)] /\ UNCHANGED <<args, after, content, done>>
    BY <1>l, <1>q, <1>s DEF LaunchKernel
  <1>w. WorksOn(l) = {Target(l, b) : b \in args[l]} BY DEF WorksOn
  <1>t. /\ {Target(l, b) : b \in args[l]} \subseteq Objects
        /\ \A b \in Buffers : b \in {Target(l, d) : d \in args[l]} <=> b \in args[l] \ HostBuffers
    BY <1>1, TargetFacts, Zenon
  <1>3. s \in Steps /\ s.op = "work" /\ s.cmd = l /\ s.to = WorksOn(l) /\ after[l] \subseteq s.waits
    <2>1. /\ s.op = "work" /\ s.cmd = l /\ s.from = Nil /\ s.to = {Target(l, b) : b \in args[l]}
          /\ s.waits = after[l] \cup (IF l \in Gated THEN {"gate"} ELSE {})
          /\ s = [op |-> s.op, cmd |-> s.cmd, from |-> s.from, to |-> s.to, waits |-> s.waits]
      BY <1>s DEF Step
    <2>2. s.to \subseteq Objects BY <1>t, <2>1, Zenon
    <2>3. s.waits \subseteq Commands \cup {"gate"} BY <1>1, <2>1
    <2>4. s \in Steps BY <1>1, <2>1, <2>2, <2>3 DEF Steps
    <2> QED BY <1>w, <2>1, <2>4
  <1>4. HideTypeOK BY DEF HideInv
  <1>5. Grows(q, {s}) BY <1>1, <1>2, <1>3, <1>4, GrowsAppend
  <1>6. \A x : x \in Pending' <=> x \in Pending \/ x = s BY <1>1, <1>4, <1>5, GrowsPending
  <1>7. \A x \in Pending : x.cmd # l BY <1>0, <1>l, NothingPending
  <1>8. PICK r : /\ call' = [call EXCEPT ![t] = r]
                 /\ IF HostArgs(l) = {} THEN r = NoCall
                    ELSE r.cmd = l /\ r.queue = q /\ r.at = "launched" /\ r.awaits = ToSet(fifo'[q])
    <2>1. CASE HostArgs(l) = {} BY <1>l, <2>1 DEF LaunchKernel
    <2>2. CASE HostArgs(l) # {}
      <3>1. Goto(t, l, q, "launched", ToSet(fifo'[q])) BY <1>l, <1>q, <2>2 DEF LaunchKernel
      <3> QED BY <2>2, <3>1, GotoRecord
    <2> QED BY <2>1, <2>2
  <1>9. CallMoves(t, r, q, {s}) BY <1>0, <1>2, <1>3, <1>5, <1>7, <1>8, <1>l, <1>q DEF CallMoves
  <1>10. \A c, o : Seen(c, o)' <=> Seen(c, o) BY <1>2 DEF Seen
  <1>11. \A b \in args[l] : ~Seen(l, b) BY <1>0, <1>1, <1>l DEF LaunchAt
  <1>12. DOMAIN call = Threads /\ call'[t] = r /\ \A u \in Threads \ {t} : call'[u] = call[u] /\ call[u].cmd # l
    BY <1>0, <1>1, <1>8, <1>l, InCallIs DEF HideInv, CallsInv
  <1>13. StepAt(q, s)'
    <2>1. \A b \in s.to \cap Buffers : b \in args[l]
      <3> TAKE b \in s.to \cap Buffers
      <3>1. b \in Buffers /\ b \in {Target(l, d) : d \in args[l]} BY <1>3, <1>w, Zenon
      <3> QED BY <1>t, <3>1, Zenon
    <2>2. \A b \in s.to \cap Buffers : ~Seen(l, b)' BY <1>10, <1>11, <2>1
    <2>3. WorksOn(l)' = WorksOn(l) /\ HostArgs(l)' = HostArgs(l) BY <1>2 DEF WorksOn, HostArgs
    <2>4. HostArgs(l) # {} => call'[t].cmd = l /\ call'[t].at = "launched" BY <1>8, <1>12
    <2>5. HostArgs(l) = {} => ~InCall(l)'
      BY <1>8, <1>12, EventAssumption DEF InCall, NoCall
    <2>6. WorkAt(s)' BY <1>2, <1>3, <2>2, <2>3, <2>4, <2>5 DEF WorkAt
    <2> QED BY <1>1, <1>2, <1>3, <2>6 DEF StepAt
  <1>14. ASSUME r # NoCall PROVE LaunchAt(t)'
    <2>1. HostArgs(l) # {} /\ r.cmd = l /\ r.at = "launched" /\ r.awaits = ToSet(fifo'[q]) BY <1>8, <1>14
    <2>2. HostArgs(l)' = HostArgs(l) BY <1>2 DEF HostArgs
    <2>3. \A x \in Pending' : x.cmd = l => x \in r.awaits
      <3>1. PICK i \in 1 .. Len(fifo'[q]) : fifo'[q][i] = s BY <1>5 DEF Grows
      <3>2. s \in ToSet(fifo'[q]) BY <1>1, <1>5, <3>1 DEF Grows, ToSet
      <3> QED BY <1>6, <1>7, <2>1, <3>2
    <2>4. WorkPending(l)' BY <1>3, <1>6 DEF WorkPending
    <2>5. ASSUME NEW b \in HostArgs(l) PROVE HostAt(t, b)'
      <3>1. HostAt(t, b) /\ ~Seen(l, b)' BY <1>1, <1>10, <1>11, <1>l DEF LaunchAt, HostArgs
      <3>2. CopyIn(l, b) \notin Pending BY <1>7, CopyFields
      <3>3. content[StandIn(l, b)] = content[b] BY <1>0, <1>l, <3>1, <3>2 DEF HostAt
      <3> QED BY <1>2, <1>12, <2>1, <2>4, <3>1, <3>3 DEF HostAt, StandIn
    <2> QED BY <1>12, <2>1, <2>2, <2>3, <2>4, <2>5 DEF LaunchAt
  <1> QED BY <1>9, <1>13, <1>14, HideMoves

LEMMA HideCopyBack ==
    ASSUME HideInv, Away = {}, NEW t \in Threads, CopyKernelBuffers(t)
    PROVE  HideInv'
  <1>0. call[t].at = "launched" /\ Waited(t) /\ call[t] # NoCall BY DEF CopyKernelBuffers, NoCall
  <1>l. PICK l \in Launches : l = call[t].cmd BY <1>0, CallFacts
  <1>q. PICK q \in Queues : q = call[t].queue BY <1>0, CallFacts
  <1>1. /\ l \in Commands /\ q \in AllQueues /\ l \notin done /\ args[l] \in SUBSET Buffers /\ args[l] # {}
        /\ LaunchAt(t) /\ HostArgs(l) \in SUBSET HostBuffers /\ HostArgs(l) # {}
    BY <1>0, <1>l, <1>q, CallFacts DEF LaunchAt
  <1>c. PICK C : C = Copies(l, HostArgs(l), FALSE) OBVIOUS
  <1>2. EnqueueCopies(l, q, HostArgs(l), FALSE) /\ UNCHANGED <<args, after, content, done>>
    BY <1>l, <1>q DEF CopyKernelBuffers
  <1>4. HideTypeOK BY DEF HideInv
  <1>5. Grows(q, C) /\ UNION {CopySteps(l, q, cq, HostArgs(l), FALSE) : cq \in AllQueues} = C
    BY <1>1, <1>2, <1>4, <1>c, GrowsCopies
  <1>6. \A x : x \in Pending' <=> x \in Pending \/ x \in C BY <1>1, <1>4, <1>5, GrowsPending
  <1>7. \A x \in Pending : x.cmd # l BY <1>0, <1>l, NothingPending
  <1>8. PICK r : /\ call' = [call EXCEPT ![t] = r]
                 /\ r.cmd = l /\ r.queue = q /\ r.at = "copied" /\ r.awaits = C
    <2>1. DOMAIN fifo = AllQueues BY <1>4 DEF HideTypeOK
    <2>2. Goto(t, l, q, "copied", UNION {CopySteps(l, q, cq, HostArgs(l), FALSE) : cq \in DOMAIN fifo})
      BY <1>l, <1>q DEF CopyKernelBuffers
    <2>3. Goto(t, l, q, "copied", C) BY <1>5, <2>1, <2>2
    <2> QED BY <2>3, GotoRecord
  <1>a. \A s \in C : s.cmd = l /\ s.op = "copy" /\ \E b \in HostArgs(l) : s = CopyBack(l, b)
    BY <1>c, CopyFields DEF Copies
  <1>b. \A b \in HostArgs(l) : CopyBack(l, b) \in C BY <1>c DEF Copies
  <1>9. CallMoves(t, r, q, C) BY <1>0, <1>1, <1>2, <1>5, <1>7, <1>8, <1>a, <1>l, <1>q DEF CallMoves
  <1>10. \A c, o : Seen(c, o)' <=> Seen(c, o) BY <1>2 DEF Seen
  <1>12. call'[t] = r BY <1>8 DEF HideInv, CallsInv
  <1>d. HostArgs(l)' = HostArgs(l) BY <1>2 DEF HostArgs
  <1>13. ASSUME NEW s \in C PROVE StepAt(q, s)'
    <2>1. PICK b \in HostArgs(l) : s = CopyBack(l, b) BY <1>a
    <2>a. s.cmd = l /\ b \in HostArgs(l)' /\ l \in Launches BY <1>1, <1>a, <1>d
    <2>b. call'[t].cmd = l /\ call'[t].queue = q /\ call'[t].at = "copied" BY <1>8, <1>12
    <2>c. CopyBack(l, b)' = CopyBack(l, b) BY DEF CopyBack, Step, StandIn
    <2>2. CopyAt(q, s)' BY <2>1, <2>a, <2>b, <2>c DEF CopyAt
    <2> QED BY <1>1, <1>2, <1>a, <2>2 DEF StepAt
  <1>14. ASSUME NEW s \in C, NEW x \in C, s.to = x.to PROVE s = x
    <2>1. PICK b \in HostArgs(l) : s = CopyBack(l, b) BY <1>a
    <2>2. PICK d \in HostArgs(l) : x = CopyBack(l, d) BY <1>a
    <2>3. {b} = {d} BY <1>14, <2>1, <2>2, CopyFields
    <2>4. b = d BY <2>3
    <2> QED BY <2>1, <2>2, <2>4
  <1>15. LaunchAt(t)'
    <2>1. ~WorkPending(l) BY <1>7 DEF WorkPending
    <2>2. after[l] \subseteq done /\ \A b \in args[l] \ HostBuffers : Seen(l, b)'
      BY <1>0, <1>1, <1>10, <1>l, <2>1 DEF LaunchAt
    <2>3. \A x \in Pending' : x.cmd = l => x \in r.awaits BY <1>6, <1>7, <1>8
    <2>4. ASSUME NEW b \in HostArgs(l) PROVE HostAt(t, b)'
      <3>1. HostAt(t, b) BY <1>1, <1>l DEF LaunchAt
      <3>2. ~Seen(l, b)' /\ content[StandIn(l, b)] = Append(content[b], l)
        BY <1>0, <1>10, <1>l, <2>1, <3>1 DEF HostAt
      <3>3. CopyBack(l, b) \in Pending' BY <1>6, <1>b
      <3> QED BY <1>2, <1>8, <1>12, <3>2, <3>3 DEF HostAt, StandIn, CopyBack, Step
    <2> QED BY <1>1, <1>2, <1>8, <1>12, <1>d, <2>2, <2>3, <2>4 DEF LaunchAt
  <1> QED BY <1>9, <1>13, <1>14, <1>15, HideMoves

LEMMA HideReturn ==
    ASSUME HideInv, NEW t \in Threads, DelPoisonKernel(t)
    PROVE  HideInv'
  <1>0. call[t].at = "copied" /\ Waited(t) /\ call[t] # NoCall BY DEF DelPoisonKernel, NoCall
  <1>q. PICK q \in Queues : q = call[t].queue /\ q \in AllQueues BY <1>0, CallFacts
  <1>1. Grows(q, {}) BY <1>q DEF Grows, HideInv, HideTypeOK, DelPoisonKernel
  <1>2. \A x \in Pending : x.cmd # call[t].cmd BY <1>0, NothingPending
  <1>3. CallMoves(t, NoCall, q, {}) BY <1>0, <1>1, <1>2, <1>q DEF CallMoves, DelPoisonKernel
  <1> QED BY <1>3, HideMoves

-----------------------------------------------------------------------------
(***************************************************************************)
(* The runtime carries out step s, number k of queue q.                    *)
(***************************************************************************)
\* The effect of s on what the application sees: its command is added to each
\* buffer s works on, also by a copy back.
RunsAs(s) ==
    /\ s.cmd \in Commands /\ args[s.cmd] # {} /\ s.cmd \notin done
    /\ content' \in [Objects -> Seq(Commands)]
    /\ \A b \in s.to \cap Buffers : b \in args[s.cmd] /\ ~Seen(s.cmd, b)
    /\ \A b \in Buffers : content'[b] = IF b \in s.to THEN Append(content[b], s.cmd) ELSE content[b]
    /\ \A l \in Launches, b \in HostBuffers :
          IF <<l, b>> \in s.to THEN l = s.cmd ELSE content'[<<l, b>>] = content[<<l, b>>]

LEMMA WorkRuns ==
    ASSUME HideInv, NEW q \in AllQueues, NEW k \in 1 .. Len(fifo[q]), RunStep(q, k),
           NEW s \in Steps, s = fifo[q][k], StepAt(q, s), WorkAt(s)
    PROVE  /\ RunsAs(s)
           /\ \A o \in s.to : content'[o] = Append(content[o], s.cmd)
           /\ s.to = WorksOn(s.cmd) /\ after[s.cmd] \subseteq done
           /\ (s.cmd \in Launches => \A b \in HostBuffers : b \in args[s.cmd] => <<s.cmd, b>> \in s.to)
           /\ (\A b \in args[s.cmd] : s.cmd \notin Launches \/ b \notin HostBuffers => b \in s.to)
           /\ s.to \subseteq Buffers <=> s.cmd \notin Launches \/ HostArgs(s.cmd) = {}
  <1>1. /\ s.cmd \in Commands /\ s.to \subseteq Objects /\ s.op = "work" /\ s.to = WorksOn(s.cmd)
        /\ args[s.cmd] # {} /\ s.cmd \notin done /\ after[s.cmd] \subseteq s.waits
    BY DEF Steps, WorkAt, StepAt
  <1>2. content \in [Objects -> Seq(Commands)] /\ args[s.cmd] \in SUBSET Buffers /\ after[s.cmd] \subseteq Commands
    BY <1>1 DEF HideInv, HideTypeOK, CallsInv
  <1>3. content' = [o \in Objects |-> IF o \in s.to THEN Append(content[o], s.cmd) ELSE content[o]]
    BY <1>1, <1>2 DEF RunStep
  <1>4. content' \in [Objects -> Seq(Commands)] BY <1>1, <1>2, <1>3
  <1>5. /\ \A b \in Buffers : b \in s.to <=> b \in args[s.cmd] /\ (s.cmd \notin Launches \/ b \notin HostBuffers)
        /\ \A l \in Launches, b \in HostBuffers : <<l, b>> \in s.to <=> l = s.cmd /\ b \in args[s.cmd]
    <2>1. CASE s.cmd \in Launches
      <3>1. PICK B \in SUBSET Buffers : B = args[s.cmd] BY <1>2
      <3>2. s.to = {Target(s.cmd, b) : b \in B} BY <1>1, <2>1, <3>1 DEF WorksOn
      <3>3. /\ \A b \in Buffers : b \in {Target(s.cmd, d) : d \in B} <=> b \in B \ HostBuffers
            /\ \A b \in HostBuffers : <<s.cmd, b>> \in {Target(s.cmd, d) : d \in B} <=> b \in B
            /\ \A l \in Launches, b \in HostBuffers : <<l, b>> \in {Target(s.cmd, d) : d \in B} => l = s.cmd
        BY <2>1, TargetFacts, Zenon
      <3>4. /\ \A b \in Buffers : b \in s.to <=> b \in B \ HostBuffers
            /\ \A b \in HostBuffers : <<s.cmd, b>> \in s.to <=> b \in B
            /\ \A l \in Launches, b \in HostBuffers : <<l, b>> \in s.to => l = s.cmd
        BY <3>2, <3>3, Zenon
      <3> QED BY <2>1, <3>1, <3>4, Zenon
    <2>2. CASE s.cmd \notin Launches
      <3>1. s.to = args[s.cmd] BY <1>1, <2>2 DEF WorksOn
      <3>2. \A l \in Launches, b \in HostBuffers : <<l, b>> \notin Buffers BY StandInAssumption
      <3> QED BY <1>2, <2>2, <3>1, <3>2
    <2> QED BY <2>1, <2>2
  <1>6. \A b \in Buffers : b \in Objects BY DEF Objects
  <1>7. \A l \in Launches, b \in HostBuffers : <<l, b>> \in Objects /\ <<l, b>> \notin Buffers
    BY StandInAssumption DEF Objects
  <1>8. RunsAs(s)
    <2>1. \A b \in s.to \cap Buffers : b \in args[s.cmd] /\ ~Seen(s.cmd, b) BY <1>5 DEF WorkAt
    <2>2. \A b \in Buffers : content'[b] = IF b \in s.to THEN Append(content[b], s.cmd) ELSE content[b]
      BY <1>3, <1>6
    <2>3. \A l \in Launches, b \in HostBuffers :
            IF <<l, b>> \in s.to THEN l = s.cmd ELSE content'[<<l, b>>] = content[<<l, b>>]
      BY <1>3, <1>5, <1>7
    <2> QED BY <1>1, <1>4, <2>1, <2>2, <2>3 DEF RunsAs
  <1>9. after[s.cmd] \subseteq done
    <2>1. s.waits \subseteq done \cup {"gate"} BY DEF RunStep, MayRun
    <2> QED BY <1>1, <1>2, <2>1, StandInAssumption
  <1>10. s.to \subseteq Buffers <=> s.cmd \notin Launches \/ HostArgs(s.cmd) = {}
    <2>1. ASSUME s.cmd \in Launches, HostArgs(s.cmd) # {} PROVE ~(s.to \subseteq Buffers)
      <3>1. PICK b \in HostBuffers : b \in args[s.cmd] BY <2>1 DEF HostArgs
      <3> QED BY <1>5, <1>7, <2>1, <3>1
    <2>2. ASSUME s.cmd \notin Launches \/ HostArgs(s.cmd) = {} PROVE s.to \subseteq Buffers
      <3> SUFFICES ASSUME NEW o \in s.to, o \notin Buffers PROVE FALSE OBVIOUS
      <3>1. PICK l \in Launches, b \in HostBuffers : o = <<l, b>> BY <1>1 DEF Objects
      <3> QED BY <1>5, <2>2, <3>1 DEF HostArgs
    <2> QED BY <2>1, <2>2
  <1>11. \A o \in s.to : content'[o] = Append(content[o], s.cmd) BY <1>1, <1>3
  <1>12. \A b \in args[s.cmd] : s.cmd \notin Launches \/ b \notin HostBuffers => b \in s.to BY <1>2, <1>5
  <1>13. s.cmd \in Launches => \A b \in HostBuffers : b \in args[s.cmd] => <<s.cmd, b>> \in s.to BY <1>5
  <1> QED BY <1>1, <1>8, <1>9, <1>10, <1>11, <1>12, <1>13

\* The copies of the call of t: in, which no buffer shows, and back, which adds
\* the launch to the buffer.
LEMMA CopyInRuns ==
    ASSUME HideInv, NEW q \in AllQueues, NEW k \in 1 .. Len(fifo[q]), RunStep(q, k),
           NEW s \in Steps, s = fifo[q][k], StepAt(q, s),
           NEW b \in HostArgs(s.cmd), s.cmd \in Launches, s = CopyIn(s.cmd, b)
    PROVE  /\ RunsAs(s) /\ s.to = {<<s.cmd, b>>} /\ s.to \cap Buffers = {} /\ done' = done
           /\ content'[<<s.cmd, b>>] = content[b]
  <1>1. s.op = "copy" /\ s.from = b /\ s.to = {<<s.cmd, b>>} BY CopyFields
  <1>2. /\ b \in HostBuffers /\ b \in Buffers /\ b \in Objects
        /\ <<s.cmd, b>> \in Objects /\ <<s.cmd, b>> \notin Buffers
    BY StandInAssumption DEF HostArgs, Objects
  <1>3. content \in [Objects -> Seq(Commands)] /\ s.cmd \in Commands BY DEF HideInv, HideTypeOK, Steps
  <1>4. content' = [o \in Objects |-> IF o = <<s.cmd, b>> THEN content[b] ELSE content[o]]
    BY <1>1, <1>3 DEF RunStep
  <1>5. content' \in [Objects -> Seq(Commands)] BY <1>2, <1>3, <1>4
  <1>6. \A d \in Buffers : d # <<s.cmd, b>> /\ d \in Objects BY <1>2 DEF Objects
  <1>7. \A l \in Launches, d \in HostBuffers :
          IF <<l, d>> = <<s.cmd, b>> THEN l = s.cmd ELSE content'[<<l, d>>] = content[<<l, d>>]
    BY <1>4 DEF Objects
  <1>8. RunsAs(s) BY <1>1, <1>3, <1>4, <1>5, <1>6, <1>7 DEF RunsAs, StepAt
  <1>9. done' = done BY <1>1 DEF RunStep
  <1> QED BY <1>1, <1>2, <1>4, <1>8, <1>9

LEMMA CopyBackRuns ==
    ASSUME HideInv, NEW q \in AllQueues, NEW k \in 1 .. Len(fifo[q]), RunStep(q, k),
           NEW s \in Steps, s = fifo[q][k], s \in Pending, StepAt(q, s),
           NEW t \in Threads, NEW b \in HostArgs(s.cmd), s.cmd \in Launches, s = CopyBack(s.cmd, b),
           call[t].cmd = s.cmd, call[t].at = "copied"
    PROVE  RunsAs(s) /\ s.to = {b} /\ b \in Buffers /\ done' = done /\ after[s.cmd] \subseteq done
  <1>1. s.op = "copy" /\ s.from = <<s.cmd, b>> /\ s.to = {b} BY CopyFields
  <1>2. b \in HostBuffers /\ b \in Buffers /\ b \in Objects /\ b \in args[s.cmd]
    BY StandInAssumption DEF HostArgs, Objects
  <1>3. content \in [Objects -> Seq(Commands)] /\ s.cmd \in Commands BY DEF HideInv, HideTypeOK, Steps
  <1>4. content' = [o \in Objects |-> IF o = b THEN content[<<s.cmd, b>>] ELSE content[o]]
    BY <1>1, <1>3 DEF RunStep
  <1>5. LaunchAt(t) BY <1>3, InCallIs DEF HideInv
  <1>6. ~Seen(s.cmd, b) /\ content[<<s.cmd, b>>] = Append(content[b], s.cmd)
    BY <1>5 DEF LaunchAt, HostAt, StandIn
  <1>7. content' \in [Objects -> Seq(Commands)] BY <1>2, <1>3, <1>4, <1>6
  <1>8. \A d \in Buffers : d \in Objects BY DEF Objects
  <1>9. \A l \in Launches, d \in HostBuffers : <<l, d>> # b /\ <<l, d>> \in Objects
    BY <1>2, StandInAssumption DEF Objects
  <1>10. RunsAs(s) BY <1>1, <1>2, <1>3, <1>4, <1>6, <1>7, <1>8, <1>9 DEF RunsAs, StepAt
  <1>11. done' = done BY <1>1 DEF RunStep
  <1>12. after[s.cmd] \subseteq done BY <1>5 DEF LaunchAt
  <1> QED BY <1>1, <1>2, <1>10, <1>11, <1>12

\* A step is the work of its command, or a copy of its call.
LEMMA StepRuns ==
    ASSUME HideInv, NEW q \in AllQueues, NEW k \in 1 .. Len(fifo[q]), RunStep(q, k)
    PROVE  \E s \in Steps :
              /\ s = fifo[q][k] /\ s \in Pending /\ In(q, s) /\ StepAt(q, s) /\ RunsAs(s) /\ Shrinks(q, k)
              /\ (s.to \cap Buffers # {} \/ done' # done => after[s.cmd] \subseteq done)
              /\ done' \in {done, done \cup {s.cmd}}
              /\ s.cmd \in done' =>
                    WorkAt(s) /\ ~InCall(s.cmd) /\ \A b \in args[s.cmd] : b \in s.to
  <1>0. HideTypeOK /\ QueueInv BY DEF HideInv
  <1>1. fifo \in [AllQueues -> Seq(Steps)] /\ fifo[q] \in Seq(Steps) BY <1>0 DEF HideTypeOK
  <1>2. PICK s \in Steps : s = fifo[q][k] BY <1>1
  <1>3. In(q, s) /\ s \in Pending BY <1>1, <1>2, PendingIn DEF In, Pending
  <1>4. StepAt(q, s) BY <1>0, <1>3 DEF QueueInv, StepsInv
  <1>5. Shrinks(q, k)
    <2>1. fifo' = [fifo EXCEPT ![q] = RemoveAt(fifo[q], k)] BY DEF RunStep
    <2>2. fifo'[q] = RemoveAt(fifo[q], k) /\ \A p \in AllQueues \ {q} : fifo'[p] = fifo[p] BY <1>1, <2>1
    <2>3. /\ RemoveAt(fifo[q], k) \in Seq(Steps) /\ Len(RemoveAt(fifo[q], k)) = Len(fifo[q]) - 1
          /\ \A i \in 1 .. (Len(fifo[q]) - 1) :
                RemoveAt(fifo[q], k)[i] = IF i < k THEN fifo[q][i] ELSE fifo[q][i + 1]
      BY <1>1, RemoveAtIs
    <2>4. fifo' \in [AllQueues -> Seq(Steps)] BY <1>1, <2>1, <2>3
    <2> QED BY <2>2, <2>3, <2>4 DEF Shrinks
  <1>6. CASE WorkAt(s)
    <2>1. /\ RunsAs(s) /\ after[s.cmd] \subseteq done
          /\ (\A b \in args[s.cmd] : s.cmd \notin Launches \/ b \notin HostBuffers => b \in s.to)
          /\ s.to \subseteq Buffers <=> s.cmd \notin Launches \/ HostArgs(s.cmd) = {}
      BY <1>2, <1>4, <1>6, WorkRuns
    <2>2. done' = IF s.to \subseteq Buffers THEN done \cup {s.cmd} ELSE done
      BY <1>2, <1>6 DEF RunStep, WorkAt
    <2>3. ASSUME s.cmd \in done' PROVE ~InCall(s.cmd) /\ \A b \in args[s.cmd] : b \in s.to
      <3>1. s.to \subseteq Buffers BY <1>4, <2>2, <2>3 DEF StepAt
      <3>2. s.cmd \notin Launches \/ HostArgs(s.cmd) = {} BY <2>1, <3>1
      <3> QED BY <1>6, <2>1, <3>2 DEF WorkAt, HostArgs
    <2> QED BY <1>2, <1>3, <1>4, <1>5, <1>6, <2>1, <2>2, <2>3
  <1>7. CASE CopyAt(q, s)
    <2>1. s.cmd \in Launches /\ s.cmd \notin done BY <1>4, <1>7 DEF CopyAt, StepAt
    <2>2. PICK t \in Threads, b \in HostArgs(s.cmd) :
            /\ call[t].cmd = s.cmd
            /\ s = CopyIn(s.cmd, b) \/ (call[t].at = "copied" /\ s = CopyBack(s.cmd, b))
      BY <1>7 DEF CopyAt
    <2>3. CASE s = CopyIn(s.cmd, b)
      <3>1. RunsAs(s) /\ s.to \cap Buffers = {} /\ done' = done BY <1>2, <1>4, <2>1, <2>3, CopyInRuns
      <3> QED BY <1>2, <1>3, <1>4, <1>5, <2>1, <3>1
    <2>4. CASE call[t].at = "copied" /\ s = CopyBack(s.cmd, b)
      <3>1. RunsAs(s) /\ after[s.cmd] \subseteq done /\ done' = done
        BY <1>2, <1>3, <1>4, <2>1, <2>2, <2>4, CopyBackRuns
      <3> QED BY <1>2, <1>3, <1>4, <1>5, <2>1, <3>1
    <2> QED BY <2>2, <2>3, <2>4
  <1> QED BY <1>4, <1>6, <1>7 DEF StepAt

\* What has been seen by a buffer after step s.
LEMMA SeenAfter ==
    ASSUME HideTypeOK, NEW s, RunsAs(s), NEW c, NEW b \in Buffers
    PROVE  Seen(c, b)' <=> Seen(c, b) \/ (c = s.cmd /\ b \in s.to)
  <1>1. content[b] \in Seq(Commands) /\ s.cmd \in Commands BY DEF HideTypeOK, Objects, RunsAs
  <1>2. CASE b \notin s.to
    <2>1. content'[b] = content[b] BY <1>2 DEF RunsAs
    <2> QED BY <1>2, <2>1 DEF Seen
  <1>3. CASE b \in s.to
    <2>1. content'[b] = Append(content[b], s.cmd) BY <1>3 DEF RunsAs
    <2>2. /\ Len(content'[b]) = Len(content[b]) + 1 /\ content'[b][Len(content[b]) + 1] = s.cmd
          /\ \A i \in 1 .. Len(content[b]) : content'[b][i] = content[b][i]
      BY <1>1, <2>1, AppendProperties
    <2>3. Len(content[b]) \in Nat BY <1>1
    <2>4. \A i \in 1 .. Len(content'[b]) : i \in 1 .. Len(content[b]) \/ i = Len(content[b]) + 1
      BY <2>2, <2>3
    <2>5. \A i \in 1 .. Len(content[b]) : i \in 1 .. Len(content'[b]) BY <2>2, <2>3
    <2>6. Len(content[b]) + 1 \in 1 .. Len(content'[b]) BY <2>2, <2>3
    <2> QED BY <1>3, <2>2, <2>4, <2>5, <2>6 DEF Seen
  <1> QED BY <1>2, <1>3

\* The call whose launch the step belongs to.
LEMMA OwnStep ==
    ASSUME HideInv, NEW q \in AllQueues, NEW k \in 1 .. Len(fifo[q]), RunStep(q, k),
           NEW s \in Steps, s = fifo[q][k], s \in Pending, In(q, s), StepAt(q, s), RunsAs(s), Shrinks(q, k),
           done \subseteq done', NEW t \in Threads, call[t] # NoCall, call[t].cmd = s.cmd
    PROVE  LaunchAt(t)'
  <1>0. HideTypeOK /\ QueueInv /\ CallsInv /\ LaunchAt(t) BY DEF HideInv
  <1>l. PICK l \in Launches : l = s.cmd /\ l \in Commands /\ args[l] \in SUBSET Buffers BY CallFacts
  <1>1. \A x : x \in Pending' <=> x \in Pending /\ x # s BY <1>0, ShrinksPending
  <1>2. UNCHANGED <<args, after, call>> BY DEF RunStep
  <1>3. \A b \in Buffers : Seen(l, b)' <=> Seen(l, b) \/ b \in s.to BY <1>0, <1>l, SeenAfter
  <1>4. HostArgs(l)' = HostArgs(l) BY <1>2 DEF HostArgs
  <1>5. \A x \in Pending' : x.cmd = l => x \in call'[t].awaits BY <1>0, <1>1, <1>2, <1>l DEF LaunchAt
  <1>6. \A b \in HostArgs(l) : HostAt(t, b) /\ b \in Buffers /\ b \in HostBuffers /\ b \in args[l]
    BY <1>0, <1>l DEF LaunchAt, HostArgs
  <1>7. \A u \in Threads : call[u].cmd = l => u = t BY <1>0, <1>l, InCallIs
  <1>8. CASE WorkAt(s)
    <2>1. HostArgs(l) # {} /\ call[t].at = "launched"
      <3>1. InCall(l) BY <1>l DEF InCall
      <3> QED BY <1>7, <1>8, <1>l, <3>1 DEF WorkAt
    <2>2. /\ \A o \in s.to : content'[o] = Append(content[o], l)
          /\ after[l] \subseteq done
          /\ \A b \in HostBuffers : b \in args[l] => <<l, b>> \in s.to
          /\ \A b \in args[l] : b \notin HostBuffers => b \in s.to
          /\ s.to = WorksOn(l)
      BY <1>8, <1>l, WorkRuns
    <2>3. ~WorkPending(l)'
      <3> SUFFICES ASSUME NEW x \in Pending', x.op = "work", x.cmd = l PROVE FALSE BY DEF WorkPending
      <3>1. x \in Pending /\ x # s BY <1>1
      <3>2. PICK p \in AllQueues : In(p, x) /\ StepAt(p, x) BY <1>0, <3>1, PendingSteps DEF QueueInv
      <3>3. ~CopyAt(p, x) BY <1>7, <2>1 DEF CopyAt
      <3>4. x.to = s.to BY <2>2, <3>2, <3>3 DEF StepAt, WorkAt
      <3>5. PICK i \in 1 .. Len(fifo[p]) : fifo[p][i] = x BY <3>2 DEF In
      <3> QED BY <1>0, <1>l, <3>1, <3>4, <3>5 DEF QueueInv, OnceInv
    <2>4. WorkPending(l) BY <1>8, <1>l DEF WorkPending, WorkAt
    <2>5. ASSUME NEW b \in HostArgs(l) PROVE HostAt(t, b)'
      <3>1. b \notin s.to
        <4>1. <<l, b>> \in s.to /\ b \in s.to \cap Buffers => ~Seen(l, b) BY <1>6, <1>8, <1>l, <2>2 DEF WorkAt
        <4>2. PICK B \in SUBSET Buffers : B = args[l] BY <1>l
        <4>3. s.to = {Target(l, d) : d \in B} BY <2>2, <4>2 DEF WorksOn
        <4>4. \A d \in Buffers : d \in {Target(l, x) : x \in B} <=> d \in B \ HostBuffers BY TargetFacts, Zenon
        <4> QED BY <1>6, <4>3, <4>4, Zenon
      <3>2. content'[b] = content[b] BY <1>6, <3>1 DEF RunsAs
      <3>3. content'[<<l, b>>] = Append(content[<<l, b>>], l) BY <1>6, <2>2
      <3>4. ~Seen(l, b) /\ content[<<l, b>>] = content[b] BY <1>6, <1>l, <2>1, <2>4 DEF HostAt, StandIn
      <3>5. ~Seen(l, b)' BY <1>3, <1>6, <3>1, <3>4
      <3> QED BY <1>2, <1>l, <2>1, <2>3, <3>2, <3>3, <3>4, <3>5 DEF HostAt, StandIn
    <2>6. \A b \in args[l] \ HostBuffers : Seen(l, b)' BY <1>3, <1>l, <2>2
    <2> QED BY <1>2, <1>4, <1>5, <1>l, <2>1, <2>2, <2>5, <2>6 DEF LaunchAt
  <1>9. CASE CopyAt(q, s)
    <2>1. PICK b \in HostArgs(l) : \/ call[t].at = "created" /\ s = CopyIn(l, b)
                                   \/ call[t].at = "copied" /\ s = CopyBack(l, b)
      BY <1>7, <1>9, <1>l DEF CopyAt
    <2>2. CASE call[t].at = "created" /\ s = CopyIn(l, b)
      <3>1. s.to = {<<l, b>>} /\ s.to \cap Buffers = {} /\ content'[<<l, b>>] = content[b]
        <4>1. b \in HostArgs(s.cmd) /\ s.cmd \in Launches /\ s = CopyIn(s.cmd, b) BY <1>l, <2>2
        <4> QED BY <1>l, <4>1, CopyInRuns
      <3>2. \A d \in args[l] : ~Seen(l, d)' BY <1>0, <1>3, <1>l, <2>2, <3>1 DEF LaunchAt
      <3>3. ASSUME NEW d \in HostArgs(l) PROVE CopyIn(l, d) \in Pending' \/ content'[<<l, d>>] = content'[d]
        <4>1. content'[d] = content[d] BY <1>6, <3>1 DEF RunsAs
        <4>2. CASE d = b BY <3>1, <4>1, <4>2
        <4>3. CASE d # b
          <5>1. <<l, d>> \notin s.to BY <3>1, <4>3
          <5>2. content'[<<l, d>>] = content[<<l, d>>] BY <1>6, <5>1 DEF RunsAs
          <5>3. CopyIn(l, d) # s
            <6>1. CopyIn(l, d).to = {<<l, d>>} BY CopyFields
            <6> QED BY <5>1, <6>1
          <5>4. CopyIn(l, d) \in Pending \/ content[<<l, d>>] = content[d]
            BY <1>6, <1>l, <2>2 DEF HostAt, StandIn
          <5> QED BY <1>1, <4>1, <5>2, <5>3, <5>4
        <4> QED BY <4>2, <4>3
      <3>4. \A d \in HostArgs(l) : HostAt(t, d)'
        BY <1>2, <1>l, <2>2, <3>3 DEF HostAt, StandIn, CopyIn, Step
      <3> QED BY <1>2, <1>4, <1>5, <1>l, <2>2, <3>2, <3>4 DEF LaunchAt
    <2>3. CASE call[t].at = "copied" /\ s = CopyBack(l, b)
      <3>1. s.to = {b} /\ b \in Buffers BY <1>l, <2>3, CopyBackRuns
      <3>2. ASSUME NEW d \in HostArgs(l) PROVE HostAt(t, d)'
        <4>1. CASE d = b
          <5>1. CopyBack(l, d) \notin Pending' /\ Seen(l, d)' BY <1>1, <1>3, <2>3, <3>1, <4>1
          <5> QED BY <1>2, <1>l, <2>3, <5>1 DEF HostAt, CopyBack, Step, StandIn
        <4>2. CASE d # b
          <5>1. d \notin s.to /\ <<l, d>> \notin s.to
            BY <1>6, <3>1, <4>2, StandInAssumption
          <5>2. content'[d] = content[d] /\ content'[<<l, d>>] = content[<<l, d>>] BY <1>6, <5>1 DEF RunsAs
          <5>3. CopyBack(l, d) # s
            <6>1. CopyBack(l, d).to = {d} BY CopyFields
            <6> QED BY <5>1, <6>1
          <5>4. CopyBack(l, d) \in Pending' <=> CopyBack(l, d) \in Pending BY <1>1, <5>3
          <5>5. Seen(l, d)' <=> Seen(l, d) BY <1>3, <1>6, <5>1
          <5>6. HostAt(t, d) BY <1>6
          <5> QED BY <1>2, <1>l, <2>3, <5>2, <5>4, <5>5, <5>6 DEF HostAt, CopyBack, Step, StandIn
        <4> QED BY <4>1, <4>2
      <3>3. after[l] \subseteq done' /\ (\A d \in args[l] \ HostBuffers : Seen(l, d)') /\ HostArgs(l) # {}
        BY <1>0, <1>3, <1>l, <2>3 DEF LaunchAt
      <3> QED BY <1>2, <1>4, <1>5, <1>l, <2>3, <3>2, <3>3 DEF LaunchAt
    <2> QED BY <2>1, <2>2, <2>3
  <1> QED BY <1>8, <1>9 DEF StepAt

LEMMA HideRun ==
    ASSUME HideInv, NEW q \in AllQueues, NEW k \in 1 .. Len(fifo[q]), RunStep(q, k)
    PROVE  HideInv'
  <1>0. HideTypeOK /\ QueueInv /\ CallsInv /\ IssuedInv /\ LoneInv BY DEF HideInv
  <1>s. PICK s \in Steps :
           /\ s = fifo[q][k] /\ s \in Pending /\ In(q, s) /\ StepAt(q, s) /\ RunsAs(s) /\ Shrinks(q, k)
           /\ done' \in {done, done \cup {s.cmd}}
           /\ s.cmd \in done' => ~InCall(s.cmd) /\ WorkAt(s)
    BY StepRuns
  <1>1. UNCHANGED <<args, after, call, gate>> BY DEF RunStep
  <1>2. s.cmd \in Commands /\ args[s.cmd] # {} BY <1>s DEF RunsAs
  <1>3. \A c : \A b \in Buffers : Seen(c, b)' <=> Seen(c, b) \/ (c = s.cmd /\ b \in s.to)
    BY <1>0, <1>s, SeenAfter
  <1>4. \A x : x \in Pending' <=> x \in Pending /\ x # s BY <1>0, <1>s, ShrinksPending
  <1>5. CallsInv' BY <1>0, <1>1 DEF CallsInv
  <1>6. HideTypeOK' BY <1>0, <1>1, <1>2, <1>s DEF HideTypeOK, RunsAs, Shrinks
  <1>7. QueueInv'
    <2>1. ASSUME NEW p \in AllQueues, NEW x \in Steps, In(p, x), x # s PROVE StepAt(p, x)'
      <3>1. StepAt(p, x) BY <1>0, <2>1 DEF QueueInv, StepsInv
      <3>2. CASE x.cmd # s.cmd
        <4>1. x.cmd \notin done' BY <1>s, <3>1, <3>2 DEF StepAt
        <4>2. \A b \in Buffers : Seen(x.cmd, b)' => Seen(x.cmd, b) BY <1>3, <3>2
        <4>3. SameCalls(x.cmd) BY <1>1 DEF SameCalls
        <4> QED BY <1>1, <3>1, <4>1, <4>2, <4>3, StepStays
      <3>3. CASE x.cmd = s.cmd
        <4>1. ~(WorkAt(x) /\ WorkAt(s))
          <5> SUFFICES ASSUME WorkAt(x), WorkAt(s) PROVE FALSE OBVIOUS
          <5>1. x.to = s.to BY <3>3 DEF WorkAt
          <5>2. PICK i \in 1 .. Len(fifo[p]) : fifo[p][i] = x BY <2>1 DEF In
          <5> QED BY <1>0, <1>s, <2>1, <3>3, <5>1, <5>2 DEF QueueInv, OnceInv
        <4>2. \A y, z \in Steps : \A r \in AllQueues : y.cmd = s.cmd /\ z.cmd = s.cmd => ~(CopyAt(r, y) /\ WorkAt(z))
          <5> SUFFICES ASSUME NEW y \in Steps, NEW z \in Steps, NEW r \in AllQueues, y.cmd = s.cmd, z.cmd = s.cmd,
                              CopyAt(r, y), WorkAt(z)
                       PROVE  FALSE
            OBVIOUS
          <5>1. PICK t \in Threads : call[t].cmd = s.cmd /\ call[t].at \in {"created", "copied"} BY DEF CopyAt
          <5>2. InCall(s.cmd) BY <5>1 DEF InCall
          <5>3. PICK u \in Threads : call[u].cmd = s.cmd /\ call[u].at = "launched" BY <5>2 DEF WorkAt
          <5>4. t = u BY <1>0, <1>2, <5>1, <5>3, InCallIs
          <5> QED BY <5>1, <5>3, <5>4
        <4>3. CopyAt(p, x) /\ ~WorkAt(s) BY <1>s, <3>1, <3>3, <4>1, <4>2 DEF StepAt
        <4>4. CopyAt(p, x)' BY <1>1, <4>3 DEF CopyAt, HostArgs, CopyIn, CopyBack, Step, StandIn
        <4>5. x.cmd \notin done' BY <1>s, <3>3, <4>3
        <4> QED BY <1>1, <1>2, <3>3, <4>4, <4>5 DEF StepAt
      <3> QED BY <3>2, <3>3
    <2> QED BY <1>0, <1>s, <2>1, QueueShrinks
  <1>8. IssuedInv'
    <2>1. \A c \in Commands : args[c] = {} => \A b \in Buffers : ~Seen(c, b)' BY <1>0, <1>2, <1>3 DEF IssuedInv
    <2>2. \A c : InCall(c)' <=> InCall(c) BY <1>1 DEF InCall
    <2>3. \A c \in done' : args[c] # {} /\ ~InCall(c) BY <1>0, <1>2, <1>s DEF IssuedInv
    <2> QED BY <1>1, <2>1, <2>2, <2>3 DEF IssuedInv
  <1>9. LoneInv'
    <2>1. q \in InOrder => k = 1 BY DEF RunStep, MayRun
    <2>2. \A t \in Threads : call[t] # NoCall /\ HostArgs(call[t].cmd) # {} => LoneAt(t)'
      BY <1>0, <1>1, <1>s, <2>1, LoneShrinks DEF LoneInv, LoneAt
    <2>3. \A t \in Threads : call'[t] # NoCall /\ HostArgs(call[t].cmd)' # {} => LoneAt(t)'
      BY <1>1, <2>2 DEF HostArgs
    <2> QED BY <1>0, <1>1, <2>3 DEF LoneInv, LoneAt
  <1>10. ASSUME NEW t \in Threads, call'[t] # NoCall PROVE LaunchAt(t)'
    <2>0. call[t] # NoCall /\ done \subseteq done' BY <1>1, <1>10, <1>s
    <2>1. CASE call[t].cmd = s.cmd BY <1>s, <2>0, <2>1, OwnStep
    <2>2. CASE call[t].cmd # s.cmd
      <3>l. PICK l \in Launches : l = call[t].cmd /\ l \in Commands /\ args[l] \in SUBSET Buffers /\ LaunchAt(t)
        BY <2>0, CallFacts
      <3>1. \A x : x.cmd = l => (x \in Pending' <=> x \in Pending) BY <1>4, <2>2, <3>l
      <3>2. \A b \in Buffers : Seen(l, b)' <=> Seen(l, b) BY <1>3, <2>2, <3>l
      <3>3. ASSUME NEW b \in HostArgs(l)
            PROVE  \/ content'[b] = content[b] /\ content'[<<l, b>>] = content[<<l, b>>]
                   \/ call[t].at = "created" /\ CopyIn(l, b) \in Pending
        <4>1. b \in Buffers /\ b \in HostBuffers /\ b \in args[l] BY <3>l, <3>3 DEF HostArgs
        <4>2. <<l, b>> \notin s.to /\ content'[<<l, b>>] = content[<<l, b>>]
          BY <1>s, <2>2, <3>l, <4>1 DEF RunsAs
        <4>3. CASE b \notin s.to BY <1>s, <4>1, <4>2, <4>3 DEF RunsAs
        <4>4. CASE b \in s.to
          <5>1. b \in args[s.cmd] BY <1>s, <4>1, <4>4 DEF RunsAs
          <5>2. fifo[q][k].cmd # call[t].cmd /\ args[fifo[q][k].cmd] \cap args[call[t].cmd] # {}
            BY <1>s, <2>2, <3>l, <4>1, <5>1
          <5>3. HostArgs(call[t].cmd) # {} BY <3>3, <3>l
          <5>4. AheadOf(t, q, k) BY <1>0, <2>0, <5>2, <5>3 DEF LoneInv
          <5> QED BY <3>3, <3>l, <5>4 DEF AheadOf
        <4> QED BY <4>3, <4>4
      <3>4. \A b \in HostArgs(call[t].cmd) :
              \/ /\ content'[b] = content[b]
                 /\ content'[StandIn(call[t].cmd, b)] = content[StandIn(call[t].cmd, b)]
              \/ call[t].at = "created" /\ CopyIn(call[t].cmd, b) \in Pending
        BY <3>3, <3>l DEF StandIn
      <3> QED BY <1>1, <2>0, <3>1, <3>2, <3>4, <3>l, LaunchStays
    <2> QED BY <2>1, <2>2
  <1> QED BY <1>5, <1>6, <1>7, <1>8, <1>9, <1>10 DEF HideInv

-----------------------------------------------------------------------------
LEMMA HideInit == Init => HideInv
  <1> SUFFICES ASSUME Init PROVE HideInv OBVIOUS
  <1>1. CallsInv BY DEF Init, CallsInv, NoCall
  <1>2. HideTypeOK BY DEF Init, HideTypeOK, Objects, AllQueues
  <1>3. \A q \in AllQueues : Len(fifo[q]) = 0 BY DEF Init, AllQueues
  <1>4. QueueInv BY <1>3 DEF QueueInv, StepsInv, OnceInv, In
  <1>5. \A c : \A b \in Buffers : ~Seen(c, b) BY DEF Init, Seen
  <1>6. IssuedInv BY <1>5 DEF Init, IssuedInv
  <1>7. \A t \in Threads : call[t] = NoCall BY DEF Init
  <1>8. LoneInv BY <1>7 DEF LoneInv
  <1> QED BY <1>1, <1>2, <1>4, <1>6, <1>7, <1>8 DEF HideInv

\* Only what the invariant does not speak of changes.
LEMMA HideSame ==
    ASSUME HideInv, UNCHANGED <<args, after, content, fifo, done, call>>
    PROVE  HideInv'
  <1>1. CallsInv' BY DEF HideInv, CallsInv
  <1>2. HideTypeOK' BY DEF HideInv, HideTypeOK
  <1>3. \A c, o : Seen(c, o)' <=> Seen(c, o) BY DEF Seen
  <1>4. \A x : x \in Pending' <=> x \in Pending BY DEF Pending
  <1>5. \A c : InCall(c)' <=> InCall(c) BY DEF InCall
  <1>6. QueueInv'
    <2>1. ASSUME NEW p \in AllQueues, NEW x \in Steps, In(p, x)' PROVE StepAt(p, x)'
      <3>1. StepAt(p, x) BY <2>1 DEF HideInv, QueueInv, StepsInv, In
      <3> QED BY <1>3, <3>1, StepStays DEF SameCalls, StepAt
    <2> QED BY <2>1 DEF HideInv, QueueInv, StepsInv, OnceInv
  <1>7. IssuedInv' BY <1>3, <1>5 DEF HideInv, IssuedInv
  <1>8. LoneInv'
    <2>1. ASSUME NEW t, NEW p, NEW i, AheadOf(t, p, i) PROVE AheadOf(t, p, i)'
      BY <1>4, <2>1 DEF AheadOf, HostArgs, CopyIn, Step, StandIn
    <2> QED BY <2>1 DEF HideInv, LoneInv, HostArgs
  <1>9. ASSUME NEW t \in Threads, call'[t] # NoCall PROVE LaunchAt(t)'
    <2>1. LaunchAt(t) /\ args[call[t].cmd] \in SUBSET Buffers BY <1>9, CallFacts
    <2> QED BY <1>3, <1>4, <2>1, LaunchStays
  <1> QED BY <1>1, <1>2, <1>6, <1>7, <1>8, <1>9 DEF HideInv

LEMMA HideNext ==
    ASSUME Settled, ~Overlapping, Away = {}, HideInv, [Next]_vars
    PROVE  HideInv'
  <1>1. ASSUME NEW t \in Threads, NEW q \in Queues, NEW w \in Writes, NEW b \in Buffers,
               NEW e, EnqueueWrite(t, w, q, b, e)
        PROVE  HideInv'
    BY <1>1, HideWrite
  <1>2. ASSUME NEW t \in Threads, NEW q \in Queues, NEW l \in Launches, NEW B \in (SUBSET Buffers) \ {{}},
               EnqueueNDRangeKernel(t, l, q, B)
        PROVE  HideInv'
    BY <1>2, HideEnqueue
  <1>3. ASSUME NEW t \in Threads, CallStep(t) PROVE HideInv'
    BY <1>3, HideLaunch, HideCopyBack, HideReturn DEF CallStep
  <1>4. ASSUME UNCHANGED standins PROVE HideInv' BY <1>4, HideSame DEF standins
  <1>5. ASSUME Device PROVE HideInv'
    <2>1. PICK q \in DOMAIN fifo : \E i \in DOMAIN fifo[q] : RunStep(q, i) BY <1>5 DEF Device
    <2>2. PICK i \in DOMAIN fifo[q] : RunStep(q, i) BY <2>1
    <2>3. fifo \in [AllQueues -> Seq(Steps)] BY DEF HideInv, HideTypeOK
    <2>4. q \in AllQueues BY <2>3
    <2>5. i \in 1 .. Len(fifo[q]) BY <2>3, <2>4
    <2> QED BY <2>2, <2>4, <2>5, HideRun
  <1>6. ASSUME SetUserEvent PROVE HideInv' BY <1>6, HideSame DEF SetUserEvent
  <1>7. ASSUME UNCHANGED vars PROVE HideInv' BY <1>7, HideSame DEF vars, standins
  <1> QED BY <1>1, <1>2, <1>3, <1>4, <1>5, <1>6, <1>7 DEF Next

-----------------------------------------------------------------------------
(***************************************************************************)
(* Every step is a step of CommandOrder, or none the application sees.     *)
(***************************************************************************)
Shown == [b \in Buffers |-> content[b]]

LEMMA ShownIs == \A b \in Buffers : Shown[b] = content[b] BY DEF Shown

LEMMA WriteIssues ==
    ASSUME HideInv, ~Overlapping, NEW t \in Threads, NEW w \in Writes, NEW q \in Queues,
           NEW b \in Buffers, NEW e, EnqueueWrite(t, w, q, b, e)
    PROVE  w \in Commands /\ Order!Issue(w)
  <1>1. w \in Commands BY DEF Commands
  <1>2. MayIssue(t, w, q, {b}) BY DEF EnqueueWrite
  <1>3. args[w] = {} /\ Ordered({b}) \subseteq Commands \ {w} BY <1>1, <1>2, IssueFacts
  <1>4. {b} \in (SUBSET Buffers) \ {{}} OBVIOUS
  <1>5. /\ args' = [args EXCEPT ![w] = {b}] /\ after' = [after EXCEPT ![w] = Ordered({b})]
        /\ UNCHANGED <<content, done>>
    BY DEF EnqueueWrite
  <1>6. UNCHANGED <<[d \in Buffers |-> content[d]], done>> BY <1>5
  <1>7. \E B \in (SUBSET Buffers) \ {{}}, D \in SUBSET (Commands \ {w}) :
           args' = [args EXCEPT ![w] = B] /\ after' = [after EXCEPT ![w] = D]
    BY <1>3, <1>4, <1>5
  <1> QED BY <1>1, <1>3, <1>6, <1>7 DEF Order!Issue

LEMMA LaunchIssues ==
    ASSUME HideInv, ~Overlapping, NEW t \in Threads, NEW l \in Launches, NEW q \in Queues,
           NEW B \in (SUBSET Buffers) \ {{}}, EnqueueNDRangeKernel(t, l, q, B)
    PROVE  l \in Commands /\ Order!Issue(l)
  <1>1. l \in Commands BY DEF Commands
  <1>2. args[l] = {} /\ Ordered(B) \subseteq Commands \ {l} BY <1>1, IssueFacts DEF EnqueueNDRangeKernel
  <1>3. /\ args' = [args EXCEPT ![l] = B] /\ after' = [after EXCEPT ![l] = Ordered(B)]
        /\ UNCHANGED <<content, done>>
    BY DEF EnqueueNDRangeKernel
  <1>4. UNCHANGED <<[d \in Buffers |-> content[d]], done>> BY <1>3
  <1>5. \E A \in (SUBSET Buffers) \ {{}}, D \in SUBSET (Commands \ {l}) :
           args' = [args EXCEPT ![l] = A] /\ after' = [after EXCEPT ![l] = D]
    BY <1>2, <1>3
  <1> QED BY <1>1, <1>2, <1>4, <1>5 DEF Order!Issue

\* The runtime's step is work of its command on the buffers it shows on.
LEMMA RunWorks ==
    ASSUME HideInv, NEW q \in AllQueues, NEW k \in 1 .. Len(fifo[q]), RunStep(q, k)
    PROVE  \/ \E c \in Commands : Order!Work(c)
           \/ UNCHANGED <<args, after, Shown, done>>
  <1>0. HideTypeOK BY DEF HideInv
  <1>s. PICK s \in Steps :
           /\ RunsAs(s)
           /\ (s.to \cap Buffers # {} \/ done' # done => after[s.cmd] \subseteq done)
           /\ done' \in {done, done \cup {s.cmd}}
           /\ s.cmd \in done' => \A b \in args[s.cmd] : b \in s.to
    BY StepRuns
  <1>c. PICK c \in Commands : c = s.cmd BY <1>s DEF RunsAs
  <1>1. UNCHANGED <<args, after>> BY DEF RunStep
  <1>2. args[c] \in SUBSET Buffers BY DEF HideInv, CallsInv
  <1>3. PICK B : B = s.to \cap Buffers OBVIOUS
  <1>4. B \in SUBSET args[c] /\ \A b \in B : ~Seen(c, b) BY <1>3, <1>c, <1>s DEF RunsAs
  <1>5. Shown' = [b \in Buffers |-> IF b \in B THEN Append(Shown[b], c) ELSE Shown[b]]
    <2>1. \A b \in Buffers : content'[b] = IF b \in B THEN Append(Shown[b], c) ELSE Shown[b]
      BY <1>3, <1>c, <1>s, ShownIs DEF RunsAs
    <2> QED BY <2>1 DEF Shown
  <1>6. CASE after[c] \subseteq done
    <2>1. \A b \in B : ~Order!HasWorkedOn(c, Shown[b])
      BY <1>2, <1>4, ShownIs DEF Seen, Order!HasWorkedOn
    <2>2. \E A \in SUBSET args[c] :
            /\ \A b \in A : ~Order!HasWorkedOn(c, Shown[b])
            /\ Shown' = [b \in Buffers |-> IF b \in A THEN Append(Shown[b], c) ELSE Shown[b]]
      BY <1>4, <1>5, <2>1
    <2>3. c \in done' => \A b \in args[c] : Order!HasWorkedOn(c, Shown'[b])
      <3> SUFFICES ASSUME c \in done', NEW b \in args[c] PROVE Order!HasWorkedOn(c, Shown'[b]) OBVIOUS
      <3>1. b \in Buffers /\ b \in s.to BY <1>2, <1>c, <1>s
      <3>2. Seen(c, b)' BY <1>0, <1>c, <1>s, <3>1, SeenAfter
      <3>3. Shown'[b] = content'[b] BY <3>1 DEF Shown
      <3> QED BY <3>2, <3>3 DEF Seen, Order!HasWorkedOn
    <2>4. args[c] # {} /\ c \notin done BY <1>c, <1>s DEF RunsAs
    <2>5. Order!Work(c)
      BY <1>1, <1>6, <1>c, <1>s, <2>2, <2>3, <2>4 DEF Order!Work, Shown
    <2> QED BY <2>5
  <1>7. CASE ~(after[c] \subseteq done)
    <2>1. B = {} /\ done' = done BY <1>3, <1>7, <1>c, <1>s
    <2>2. Shown' = Shown BY <1>5, <2>1 DEF Shown
    <2> QED BY <1>1, <2>1, <2>2
  <1> QED BY <1>6, <1>7

\* A call returns when its launch has worked on all buffers.
LEMMA ReturnWorks ==
    ASSUME HideInv, NEW t \in Threads, DelPoisonKernel(t)
    PROVE  \E c \in Commands : Order!Work(c)
  <1>0. call[t].at = "copied" /\ Waited(t) /\ call[t] # NoCall BY DEF DelPoisonKernel, NoCall
  <1>c. PICK c \in Commands : c = call[t].cmd BY <1>0, CallFacts
  <1>1. /\ c \notin done /\ args[c] # {} /\ args[c] \in SUBSET Buffers /\ LaunchAt(t)
        /\ HostArgs(c) \in SUBSET HostBuffers
    BY <1>0, <1>c, CallFacts
  <1>2. \A x \in Pending : x.cmd # c BY <1>0, <1>c, NothingPending
  <1>3. after[c] \subseteq done /\ \A b \in args[c] \ HostBuffers : Seen(c, b) BY <1>0, <1>1, <1>c DEF LaunchAt
  <1>4. ASSUME NEW b \in args[c] PROVE Seen(c, b)
    <2>1. CASE b \in HostBuffers
      <3>1. HostAt(t, b) BY <1>1, <1>c, <1>4, <2>1 DEF LaunchAt, HostArgs
      <3>2. CopyBack(c, b) \notin Pending BY <1>2, CopyFields
      <3> QED BY <1>0, <1>c, <3>1, <3>2 DEF HostAt
    <2> QED BY <1>3, <1>4, <2>1
  <1>5. UNCHANGED <<args, after, content>> /\ done' = done \cup {c} BY <1>c DEF DelPoisonKernel
  <1>6. Shown' = Shown BY <1>5 DEF Shown
  <1>7. \A b \in args[c] : Order!HasWorkedOn(c, Shown'[b])
    <2> TAKE b \in args[c]
    <2>1. Shown'[b] = content[b] BY <1>1, <1>6, ShownIs
    <2> QED BY <1>4, <2>1 DEF Seen, Order!HasWorkedOn
  <1>8. \E A \in SUBSET args[c] :
          /\ \A b \in A : ~Order!HasWorkedOn(c, Shown[b])
          /\ Shown' = [b \in Buffers |-> IF b \in A THEN Append(Shown[b], c) ELSE Shown[b]]
    <2>1. Shown' = [b \in Buffers |-> IF b \in {} THEN Append(Shown[b], c) ELSE Shown[b]]
      BY <1>6, ShownIs DEF Shown
    <2>2. {} \in SUBSET args[c] /\ \A b \in {} : ~Order!HasWorkedOn(c, Shown[b]) OBVIOUS
    <2> WITNESS {} \in SUBSET args[c]
    <2> QED BY <2>1, <2>2
  <1>9. Order!Work(c) BY <1>1, <1>3, <1>5, <1>7, <1>8 DEF Order!Work, Shown
  <1> QED BY <1>9

LEMMA StepShows ==
    ASSUME ~Overlapping, HideInv, [Next]_vars
    PROVE  [Order!Next]_<<args, after, Shown, done>>
  <1>1. ASSUME NEW t \in Threads, NEW q \in Queues, NEW w \in Writes, NEW b \in Buffers,
               NEW e, EnqueueWrite(t, w, q, b, e)
        PROVE  Order!Next
    BY <1>1, WriteIssues DEF Order!Next
  <1>2. ASSUME NEW t \in Threads, NEW q \in Queues, NEW l \in Launches, NEW B \in (SUBSET Buffers) \ {{}},
               EnqueueNDRangeKernel(t, l, q, B)
        PROVE  Order!Next
    BY <1>2, LaunchIssues DEF Order!Next
  <1>3. ASSUME UNCHANGED <<args, after, content, done>> PROVE UNCHANGED <<args, after, Shown, done>>
    BY <1>3 DEF Shown
  <1>4. ASSUME NEW t \in Threads, CallStep(t) PROVE Order!Next \/ UNCHANGED <<args, after, content, done>>
    <2>1. CASE DelPoisonKernel(t) BY <2>1, ReturnWorks DEF Order!Next
    <2>2. CASE \E e \in Events \cup {Nil} : LaunchKernel(t, e) BY <2>2 DEF LaunchKernel
    <2>3. CASE CopyKernelBuffers(t) BY <2>3 DEF CopyKernelBuffers
    <2> QED BY <1>4, <2>1, <2>2, <2>3 DEF CallStep
  <1>5. ASSUME Device PROVE Order!Next \/ UNCHANGED <<args, after, Shown, done>>
    <2>1. PICK q \in DOMAIN fifo : \E i \in DOMAIN fifo[q] : RunStep(q, i) BY <1>5 DEF Device
    <2>2. PICK i \in DOMAIN fifo[q] : RunStep(q, i) BY <2>1
    <2>3. fifo \in [AllQueues -> Seq(Steps)] BY DEF HideInv, HideTypeOK
    <2>4. q \in AllQueues BY <2>3
    <2>5. i \in 1 .. Len(fifo[q]) BY <2>3, <2>4
    <2> QED BY <2>2, <2>4, <2>5, RunWorks DEF Order!Next
  <1>6. SetUserEvent \/ UNCHANGED standins \/ UNCHANGED vars => UNCHANGED <<args, after, content, done>>
    BY DEF SetUserEvent, standins, vars
  <1> QED BY <1>1, <1>2, <1>3, <1>4, <1>5, <1>6 DEF Next

\* An application whose threads do not share an in-order queue without further
\* order, and which calls a launch with a stand-in when the events in the launch's
\* wait list are complete, cannot tell the stand-ins from its buffers: with the
\* copies clEnqueueNDRangeKernel adds, every command still works once on the
\* present content of each of its buffers, when what is ordered before it is
\* complete, and is complete when it has worked on all.  For buffers of the
\* queues' own context.
THEOREM StandInsAreHidden ==
    Settled /\ ~Overlapping /\ Away = {} => (Spec => StandInsHidden)
  <1> SUFFICES ASSUME Settled, ~Overlapping, Away = {} PROVE Spec => StandInsHidden OBVIOUS
  <1>1. Init => HideInv BY HideInit
  <1>2. HideInv /\ [Next]_vars => HideInv' BY HideNext
  <1>3. Init => Order!Init
    <2>1. Init => [b \in Buffers |-> content[b]] = [b \in Buffers |-> <<>>] BY DEF Init
    <2> QED BY <2>1 DEF Init, Order!Init
  <1>4. HideInv /\ [Next]_vars => [Order!Next]_<<args, after, [b \in Buffers |-> content[b]], done>>
    BY StepShows DEF Shown
  <1> QED BY <1>1, <1>2, <1>3, <1>4, PTL DEF Spec, StandInsHidden, Order!Spec
=============================================================================
