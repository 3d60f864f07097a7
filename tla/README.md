# A TLA+ model of clARMOR

clARMOR is a library that is preloaded into an OpenCL program.  It wraps the
OpenCL API: buffers, images and shared virtual memory (SVM) are made larger
than the program asked for, the extra room (the *canaries*) is filled with a
known value, and after every kernel launch the canaries of everything the
kernel could touch are compared with that value.  A difference is reported as
an overflow of that kernel and that buffer, and is repaired so that the next
kernel starts clean.

This directory models the parts of it in which the order of events or the
arithmetic decides whether a report is right.  All paths below are relative to
`src/src/` unless they begin with `src/`.

## The system and its parts

| Part (source) | State | Operations | What makes it hard | Correct means |
|---|---|---|---|---|
| Kernel launch wrapper (`cl_wrapper/cl_interceptor.c`, `kernelLaunchFunc`) | events of a launch | enqueue kernel, enqueue or perform the check, hand out an event | no lock between the two enqueues; several threads and queues; the check of one launch meets the kernel of another | a report names the kernel and the buffer that overflowed; the event covers the check |
| Choice of what to check and where (`detector/bufferOverflowDetect.c`) | none | collect arguments, choose device or host | all live SVM is checked as soon as one argument is SVM | nothing the kernel could touch is left out |
| Device checks on copies (`gpu_check/copy_canary/`, `gpu_check/gpu_check_utils.c`) | copies, result buffers | copy, compare, fill, read back, callback | commands on two queues ordered by events only; callbacks at any time in any order | evidence is copied before it is repaired, repaired before the event completes |
| Device checks in place (`gpu_check/single_buffer/`) | result buffers | one checker kernel per object | kernel objects and results shared between objects | as above |
| Host checks (`cpu_check/`) | host copies | read, compare, report, blocking fill, one kind of object after another | the launching thread blocks inside the API call | as above |
| Canary fill and repair (`detector/check_utils.c`) | none | regions of fills | uses the context's cached queue, which the application owns | exactly the canary is written |
| Command queue cache (`cl_wrapper/wrapper_utils.c`, `meta_data_lists/cl_workaround_lists.cpp`) | one queue for each context | remember, look up, make | lookup and creation are two critical sections; entry is read after the unlock | a legal, live queue of the right context |
| Checker kernel cache (`gpu_check/gpu_check_utils.c`) | three global `cl_kernel`s | look, build, store, set arguments, enqueue | no lock at all | each check looks at its own objects with a kernel of its context |
| Memory objects (`cl_interceptor.c`, `meta_data_lists/cl_memory_lists.cpp`) | table of records with reference counts, memory statistics | create, retain, release | counts change without a lock; handles are used again | the records are those of the objects that exist |
| Images and their canaries (`cl_interceptor.c`, `utils/cl_utils.c`, `detector/overflow_error.c`, ...) | descriptions | expand, flat copy, copy canary, locate, fill, query | five independent pieces of index arithmetic | they agree |
| Data movement calls (`cl_interceptor.c`, `wrapper_utils.c`) | `canaryAccess`, one flag per thread | bounds check before each call | `size_t` arithmetic; detector and application share the wrappers | a call that leaves its object is refused, no other is |
| Shared virtual memory (`cl_interceptor.c`, `cl_workaround_lists.cpp`, `cl_memory_lists.cpp`) | records, lists of used and free regions | allocate, reuse, free (two ways), map, unmap, look up | unlocked lists; asynchronous fills and maps | allocations are apart, canaries are in place |
| Kernel records and arguments (`cl_interceptor.c`, `meta_data_lists/cl_kernel_lists.cpp`, `generic_lists.ipp`) | a record with a reference count and a linked list of arguments for each kernel | set an argument, retain, release, duplicate for a stand-in, walk from a callback | counts without a lock; the head of a list read before its lock is taken; callbacks walk lists that change | records live as long as they are needed, lists are the runtime's arguments, reports name the right one |
| Stand-ins (`bufferOverflowDetect.c`, `universal_copy/`) | copies of buffers that cannot have a canary | copy in, launch, copy back | three waits in one call, copies without the launch's wait list, commands of other threads in between | the application cannot tell |
| Event map (`cl_interceptor.c`, `meta_data_lists/cl_event_lists.cpp`) | event handed out -> event of the kernel, with a reference count | insert, retain, release, ask for a profile | handles are used again; counts without a lock | an event leads to its own kernel's profile, nothing is freed twice |
| dlsym interceptor, utilities, error output, driver script, tests | none or start-up only | | | (not modelled) |

The wrappers call one another: a launch asks the queue cache for a queue, the
object records for what to check, the kernel cache for a checker kernel, and
enqueues through the data movement wrappers, for which it sets `canaryAccess`.
The runtime calls back (`verify_callback`) on threads of its own.

## Modules

| Module | Models | Used by |
|---|---|---|
| `OverflowReport` | what clARMOR promises: a launch is reported for what it did, all of it, and then the matter is closed | abstract specification of `KernelLaunch` |
| `KernelLaunch` | one action for each step of a launch: `EnqueueKernel`, `VerifyOnGpu` / `VerifyOnHost` / `VerifyNothing`, the commands `CopyCanary`, `CheckInPlace`, `MendCanary`, `FindCorruption`, `ReadBack`, `FinishMarker`, the callback `VerifyCallback`, and the host check `ReadCanary`, `ParseCanary`, `MendOnHost`, `HostNextPass`, `HostReturn` | `KernelLaunchInductive`, `KernelLaunchProofs`, `MCKernelLaunch` |
| `ContextQueues` | the queue cache | `ContextQueueProofs`, `MCContextQueues` |
| `CheckKernels` | the checker kernel cache | `CheckKernelProofs`, `MCCheckKernels` |
| `ImageCanaries` | one image, from its creation through stray writes, check and repair | `MCImageCanaries` |
| `MemObjects`, `MemStatistics` | records and statistics of memory objects | `MemObjectProofs`, `MCMemObjects` |
| `ApiBounds` | bounds checks of the data movement calls | `ApiBoundProofs`, `MCApiBounds` |
| `SvmMemory` | SVM allocation, reuse, free and map, and the walk of a check over all SVM | `SvmMemoryProofs`, `MCSvmMemory` |
| `KernelRecords` | records of kernels, their arguments and the stand-in kernels, under calls and callbacks | `KernelRecordProofs`, `MCKernelRecords` |
| `EventMap` | the map of events | `StandIns` |
| `CommandOrder` | what an application may expect of its commands: each works on the present content of its buffers, after what is ordered before it | abstract specification of `StandIns` |
| `StandIns` | launches with stand-ins and other commands, on queues of the runtime; composed with `EventMap` | `StandInProofs`, `MCStandIns` |

`StandIns` extends `EventMap`, because the step of a launch that enqueues the
kernel also maps its event.  Otherwise modules share no variables.
`KernelLaunch` takes from the others what they show: that there is a queue to
fill with, that a checker kernel looks at its own launch's objects, that the
copy of a canary holds the canary, that the canaries are in place when a buffer
comes into use.

How state is abstracted:

- In `KernelLaunch` a canary is the set of launches whose stray writes sit in
  it, so that "who is blamed" is a state predicate.  An in-order queue is the
  rule `QueueReady`: a command starts after all that was enqueued earlier, by
  `runTick` and `checkTick`, is finished.  The regions before and behind a
  buffer are one canary.
- In `ContextQueues`, `CheckKernels`, `MemObjects`, `SvmMemory`,
  `KernelRecords` and `EventMap` the steps of a wrapper between which another
  thread can get in are separate actions, and those under one lock are one
  action.
- `ImageCanaries` counts pixels in the image and bytes in the host's memory, and
  keeps for each pixel where its content came from.
- `KernelRecords` has the linked list node by node (`head`, `next`, `heap`), so
  that a node can be read after it was freed, and beside it what the runtime
  was told (`real`).  Where the code would read freed memory, fail for want of a
  record or loop, `wrong` says so and the model stops.
- In `StandIns` the content of a buffer is the sequence of commands that have
  worked on it.  A copy replaces a content; a lost update is then a command that
  is missing from the sequence.
- `ApiBounds` has the wrapping arithmetic of `size_t` and, beside it, the set of
  bytes or pixels that OpenCL says a call touches.

Operators named as mutants are plausible mistakes in the definition that follows
them; each property is known to fail with one of them.

## What is checked with TLC

Each run is `tlc -config <cfg> <module>`.

| Run | Configuration | Shows |
|---|---|---|
| `launch_copy` | `KernelLaunch_copy.cfg` | two threads, two launches, an in-order and an out-of-order queue, a buffer and an image, checks on copies or on the host as the detector chooses: `Blame`, `NothingMissed`, `CleanAtReturn`, `EvidenceKept`, and that `KernelLaunch` implements `OverflowReport` (`KeepsPromise`) |
| `launch_live` | `KernelLaunch_live.cfg` | one checker kernel per buffer, launches with SVM checked in place and the others on the host, one launch waiting for a user event: `EveryStrayReported`, `EveryLaunchCompletes`, and the inductive invariant of the proofs |
| `launch_threads` | `KernelLaunch_threads.cfg` | `Blame` is violated when two threads share a queue without synchronising |
| `launch_records` | `KernelRecords.cfg` | one thread and the callbacks of two launches, of which one waits for its check: `RecordKept`, `ArgsExact`, `NamesArgument` |
| `stand_ins` | `StandIns.cfg` | two threads, two launches and a write on two queues: `StandIns` implements `CommandOrder` (`StandInsHidden`), `EveryCallReturns`, `ProfilesOwn`, `EventsExact` |
| `queue_cache` | `ContextQueues.cfg` | `OneOwnQueuePerThread`, `EntryStable`, and `LegalQueue` in a context where no creation fails and no on-device queue is made, next to one where they do |
| `kernel_turns` | `CheckKernels.cfg` | with launches taking turns, `EveryObjectAnalysed`, `RightKernel`, `NoRebuild` |
| `image_canaries` | `ImageCanaries.cfg` | all sorts of image with a row pitch: `CopyExact`, `SizeHidden`, and for 1D, 2D and 3D images `CanaryIntact`, `HostDataKept`, `RightPlace` |
| `mem_track` | `MemObjects.cfg` | `NoStaleRecord`, `RecordTracks`, `NoDangling`, `StatsExact` |
| `api_bounds` | `ApiBounds.cfg` | `NothingOutside`, `NoFalseAlarm` |
| `api_pitched` | `ApiBounds_pitched.cfg` | `NothingOutside` is violated by a rectangle with pitches |
| `svm_memory` | `SvmMemory.cfg` | `Apart`, `FoundRight`, `CacheExact`, `CanariesReady`, `AllExamined` |

Bounds, and why they are enough:

- Launches: two.  A wrong report needs the launch that overflowed and one more
  whose check meets the damage; the proofs cover any number.  Two threads and
  two queues give every way for two launches to overlap.  Each run has at most
  two buffers, of different kinds.
- Queues: three handles for two contexts, so that one context has more than one
  queue; `MaxRefs = 2` lets a queue be retained once.
- Checker kernels: three handles, two slots, two contexts, three checks of up to
  two objects: a kernel is built, replaced and built again.
- Images: extents 1 to 2 include the special case 1 in each dimension.  The
  canary's width, height and depth are 2, 3 and 1, all different so that mixed-up
  dimensions show.
- Memory objects: three objects on two handles, so that a handle is used again
  while another object lives.  At most one creation fails.
- Data movement: arguments on both sides of every limit of buffers of up to 12
  bytes; `Modulus` 64 stands for 2^64.
- Kernel records: one kernel of two arguments, the least that makes a list with
  an order; two launches, so that the callback of one meets the call of the
  other; one of them on an NVIDIA platform (`Waiting`), where the call waits and
  runs the callback itself; one damaged buffer per launch; the application holds
  at most two references.  The callbacks are actors of their own, so that the
  interleavings are there with one thread; two threads on a kernel are a row of
  the table below.  The constraint `CountsApart` ends a behaviour when two actors
  have been in one count at once; as `races` only grows and each of the three
  properties speaks of the time before, nothing they say is lost by it.
- Stand-ins: one buffer with and one without a canary, so that a launch may use
  either or both; two launches and a write are enough for an update to get lost
  between a copy in and a copy back; one event handle, so that every new event
  is a handle used again.
- SVM: an address space of 8 bytes and canaries of one byte hold two small
  allocations or one large one, so that memory is reused at the same and at
  another size.

Deadlock checking is off where the application may simply stop calling (and in
`KernelLaunch`, `CheckKernels`, `KernelRecords` and `StandIns`, where every
launch or check is made once).

Some runs pass only because something does not happen that the code does not
rule out.  A property that holds under such a condition does not cover the hazard
the condition excludes.  Where it is a constant it can be dropped, and the table
of disagreements below says what happens then; the hazards in `PROJECT.json` name
it in their notes.

| Run | Condition | Excludes |
|---|---|---|
| `launch_copy`, `launch_live` | `~ExitOnOverflow`; the application orders launches whose checks meet | the exit that does not come at once, unrelated launches that meet in SVM |
| `queue_cache` | `LegalQueue` is about contexts in which creations succeed | failed creations |
| `kernel_turns` | `Serialised` | two threads using one checker kernel |
| `image_canaries` | a row pitch is given, no slice pitch (`RowGaps`, `SliceGaps`); arrays are `Uncovered` | default and slice pitches; the layers of arrays |
| `mem_track` | `Exclusive`; `StatsExact` is about objects counted alike | lost updates of a count; sub-buffers and internal host-pointer buffers |
| `api_bounds` | pixels of one byte, sums that do not wrap | wrapping limits, pixels taken for bytes |
| `svm_memory` | `FineAlone`, `CheckAlone`, `Frees`, `MapModes`, `OffsetModulus`, `Interior` | two threads in the unlocked lists, memory freed during a check, `clEnqueueSVMFree`, non-blocking maps, sizes of 2^32, maps of a part |
| `launch_records` | `Shared = {}`, `Awaited`; `CountsApart` and `Torn` in the properties | a kernel set up by two threads at once, kernels changed before the callback; two actors in a count, a stand-in taken apart under its callback |
| `stand_ins` | `Settled`, `~Overlapping`, `Away = {}`, `~SetLate`, `Unchecked = {}`, `Alone` | wait lists that the copies miss, commands between the copies, other contexts, events set too late, nothing to check, two releases at once |

No application can bring about `CountsApart` by itself: callbacks change counts
from threads of the runtime.  So it is no constant but part of what the properties
say.  What an application can do is in two theorems (`RecordsKeptByWaiting`,
`ArgumentsNamedByWaiting`).

Fairness (`launch_live`, and the same in `stand_ins` for calls, commands and the
user event): weak fairness of each thread's steps inside a
wrapper, of each launch's commands and callbacks, and of `SetUserEvent`.  The
code justifies the first: inside `kernelLaunchFunc` a thread only computes or
waits for commands.  OpenCL promises the second for commands that were flushed,
which the detector does.  The third is an assumption on the application, which
must set the events it makes its launches wait for.  No fairness is assumed of
new launches.

## What is proved

`tlapm` checks every proof; no step is left out.

**`KernelLaunchProofs`.**  `TypeCorrect` holds in every configuration.  The rest
assumes `Disciplined`:

1. `Ordering = "checked"`: the application orders launches whose *checked* sets
   meet, by in-order queues, events or waiting, and does not launch the second
   before the call for the first has returned;
2. `~ExitOnOverflow`: the detector carries on after a report;
3. under the one-kernel-per-buffer method there is at most one image.

Then, for any number of threads, launches, queues and buffers: `BlameCorrect`,
`NothingMissedCorrect`, `CleanAtReturnCorrect`, `EvidenceKeptCorrect`, and
`KeepsPromiseCorrect`, the refinement of `OverflowReport`.

None of these is inductive.  `Inductive` (in `KernelLaunchInductive`) adds why
they hold: two launches whose checks meet never overlap (`OrderInv`, `RunInv`);
so what sits in a canary belongs to a launch whose check is not over
(`CanaryInv`), and what a check reads is its own launch's (`SeenInv`); a stray
write stays in the canary until that check has read it (`StrayInv`), and from
there is carried to the result and the report (`JudgedInv`, `HostInv`,
`MendInv`).  One lemma per action shows that it is kept.

**`ContextQueueProofs`.**  `QueueTypeCorrect`, `OneOwnQueuePerThreadCorrect` and
`EntryStableCorrect` from `CacheInv`: a queue the detector made for a context
left an entry, so its maker will not miss that context again.
`LegalQueueCorrect` from `LegalInv`, which says the same of entries and of
queues about to be remembered as of those handed out.

**`CheckKernelProofs`.**  Assuming `Serialised` (the application makes its
launches one after another), `SharedInv`, at most one thread is inside a check
and the kernel's arguments are that check's, gives `KernelTypeCorrect`,
`EveryObjectAnalysedCorrect`, `RightKernelCorrect` and `NoRebuildCorrect`.

**`MemObjectProofs`.**  Assuming `Exclusive` (calls on one object are kept
apart): `RecordsFresh`, `RecordsTrack` and `NoRecordDangles`.  The three say
something of the moments between calls; `MemInv` adds what holds in the middle
of one.  Every call has its object to itself (`OneCall`); an object that exists
has its handle to itself (`OwnHandle`), which is what makes the reuse of handles
harmless; what is in the table exists and is not freed (`TableInv`); and
`CallAt` says, for each place in a call, how far the count, the runtime's count
and that of the main buffer are apart.

**`StandInProofs`.**  Assuming `Alone` (calls on one event are kept apart) and
nothing `Unchecked`: `ProfilesAreOwn` and `EventsAreExact`.  `EventInv` links the
map to the calls that launch: an entry names the launch its event was made for,
which is over or has passed the step that maps it, and is the only entry to name
it (`EventAt`, `OwnEvent`, `CallsInv`); the kernel's event exists as long as the
entry (`InnerInv`); `UseAt` has the counts in the middle of a call.

`StandInsAreHidden`, that `StandIns` implements `CommandOrder`, assumes instead that
the threads do not put work on one in-order queue without ordering it otherwise
(`~Overlapping`), that a launch with stand-ins is called when its wait list is
complete (`Settled`) and that no buffer is of another context (`Away = {}`); each of
the three is needed, as the table below shows.  A step of `CommandOrder`, the work of
a command on a buffer, is the step of the device that does it, or the copy back of a
stand-in, and is allowed only on the content the command should see.  So `HideInv`
follows the content through the copies.  Every step waiting on a queue belongs to a
command that was issued and has not worked there yet, and is there once (`QueueInv`);
a command completes when it has worked on all its buffers (`IssuedInv`); while a
launch has stand-ins, whatever else waits to use its buffers is ahead of its copies in
the same in-order queue (`LoneInv`); so the stand-in is a copy of the buffer until the
kernel has run, and the buffer with the launch's work from then until it is copied
back (`LaunchAt`).

**`SvmMemoryProofs`.**  Assuming `FineAlone` (no two threads are in the unlocked
lists at once) and that memory is freed with `clSVMFree`: `AllocationsApart`,
`RecordsFoundRight` and `ListsExact`, for any address space and any sizes.
`MemoryInv` follows a block of the runtime through all hands: those of the
application, of a thread that is bringing or returning it, of a check that made
a copy, of the free list.  It is in one only (`OwnInv`), large enough for what
is asked of it (`RoomInv`), apart from other blocks (`BlocksInv`), in the list
and the records that go with the hand (`FineInv`, `RecordsInv`), and what a
thread has found in the free list is still there when it takes it (`TakeInv`).
`CanariesStayReady` assumes besides that maps are blocking and that no offset of
a second canary wraps (`NoWrap`); `PoisonInv` adds that what is not poisoned yet
is in the fills that will be waited for, or in those of the map under way.
`EveryoneExamined` assumes `CheckAlone` instead: `WalkInv` says that the first
walk over the records has counted those it has passed, that the second lists as
many, and that what is listed is recorded until it is found, although the check
itself allocates and records copies meanwhile.

**`ApiBoundProofs`.**  `AlarmsAreTrue`: whatever is reported is an overflow of
the application's, and no check of the detector's own is refused.  It assumes
only `SmallObjects`, that extents are values of a `size_t` and that the canary is
no larger: a sum that wraps becomes smaller, never larger, and rows with a pitch
end no earlier than packed rows.  `CallsStayInside`: what is passed on is inside,
if no end of a range wraps (`NothingWraps`) and the call is one the checks work
out correctly (`Tellable`: packed rows, pixels of a byte, images of three
dimensions).  Without each of these conditions TLC finds a counterexample; three
of them are rows of the table below and one is the run `api_pitched`.  The
invariant, `ApiInv`, is that a thread's flag is set exactly while it checks.

**`KernelRecordProofs`.**  Counts are read and written without a lock, by threads
and by callbacks, so two actors may be in one count at once; then an update can be
lost, the record goes early, and who still has the pointer reads memory that was
freed.  The history `races` remembers that it has happened.  `RecordsKept` assumes
nothing: until it has (`CountsApart`), records are kept, for any number of threads,
kernels, launches, buffers and arguments.  A count that is one too low only shows
when the last but one of its holders lets go, so the invariant, `RecordInv`, counts
the holders.  `RefInv`: each thread and launch holds the references its place in the
call entitles it to (`UseInv`); a value about to be stored is one off the count,
and there is one such value at a time (`StoreInv`); a kernel without a record has
at most its first reference and no arguments (`AbsentInv`); every count is what
is owed (`CountInv`); and a stand-in kernel is needed by its launch or about to
go (`KeptInv`).  `NodeInv`: a kernel's list stays among its own nodes, so that
one call never removes another kernel's argument.  The list is followed by a
recursive function whose length argument runs over a set of numbers; the lemmas
about it (`TrailIs`, `TrailIn`, `StopIs`, `FindIn`) rest on an induction over that
set.  `OwnInv`: the memory of a stand-in buffer is there only while its launch
is.

`ArgumentsExact` assumes besides that no two threads set arguments of one kernel, or
launch it, at once (`Shared = {}`), which OpenCL asks of applications.  `ArgsExact`
is about the moments between calls; `ListInv` adds what holds inside `remove` and
`insert`.  One thread at a time sets arguments of a kernel, so the head it has read
before it takes the lock is still the head (`SetterInv`); and the list is a set of
nodes linked in the order of their indexes, with exactly the arguments set and their
values, but for the one being set (`ArgsAt`).  What a search and a walk of such a list
find is in the lemmas `SearchIs`, `FindSorted` and `ListedSorted`; that it stays
one when a node is taken out or put in, at the head, in the middle or at the end, in
`RemoveLists` and `InsertLists`.

`ArgumentsNamed` is about a launch whose report the application waits for, as long as
its stand-in, if it has one, has not been taken apart (`Torn`; `clFinish` waits for the
commands of a queue, not for callbacks).  `ReportInv` says of such a launch, from the
call to the last step of its callback, that the list the report walks, of the kernel or
of its stand-in, has all arguments of the launch in order, that their buffers exist, and
that the walk has not gone past the first node with the buffer it looks for
(`PursuedAt`).

`RecordsKeptByWaiting` and `ArgumentsNamedByWaiting` say when the exceptions do not
arise.  If every launch waits for its check and runs its callback itself, as the code
does on an NVIDIA platform (`Waiting = Launches`), and no two threads are in calls on
one kernel at once (`ThreadsApart`, which an application brings about with one thread
or with a lock for each kernel), then `races` stays empty, and `Kept` and
`NamesRegardless` hold without exception.  `Attended` is why: a callback that has yet
to end has its thread waiting for it, so whoever is in a count is a thread in a call or
the callback such a thread waits for, and two calls are on different kernels.  On other
platforms both fail, as two rows of the table below show.

Only model-checked:

- liveness (`EveryStrayReported`, `EveryLaunchCompletes`, `EveryCallReturns`):
  the prover has no fairness;
- `ImageCanaries`: five pieces of index arithmetic with products of unknowns and
  divisions, which the solver does not decide;
- `StatsExact`: sums over all objects, which wrap; what a sum over a set is takes an
  induction over data.

## Where code and documentation disagree

Two disagreements have runs of their own, `launch_threads` and `api_pitched`.
The others show when the constants of a run are changed as given; the property
then fails.

| Constants | Property | What happens |
|---|---|---|
| `launch_copy` with `SvmBufs = {s1, s2}` and no other buffers, `Ordering = "args"`, both queues in order | `Blame` | a kernel with an SVM argument is blamed for what an unrelated kernel did to other SVM (`bufferOverflowDetect.c` 143) |
| `launch_copy` with `ExitOnOverflow = TRUE`, one thread | `Blame` | nothing is repaired, and a later kernel is reported for the old damage (`gpu_check_utils.c` 418) |
| `launch_copy` with `Strategy = "single"`, `Images = {i1, i2}` | `Blame` | the overflow of any image is charged to the first (`single_buffer_cl_image.c` 53) |
| `launch_live` with `Strategy = "copy"`, `DeviceSelect = "device"`, `WaitsFirst = TRUE` | `EveryLaunchCompletes` | the repair of one launch waits on the cached queue behind another that waits for the application (`check_utils.c` 219) |
| `queue_cache` as it is | `OneOwnQueue` | two threads miss at once and both make a queue (`wrapper_utils.c` 62), although "we only create one per context" (`cl_interceptor.c` 416) |
| `queue_cache`, `LegalQueue` of rough contexts too | `LegalQueue` | a failed creation's null handle, or an on-device queue, is remembered (`cl_interceptor.c` 423, 491) |
| `kernel_turns` with `Serialised = FALSE` | `EveryObjectAnalysed`, `RightKernel` | threads overwrite each other's kernel arguments (`copy_canary_cl_buffer.c` 250) and kernels (`gpu_check_utils.c` 491) |
| `image_canaries` with `Uncovered = {}` | `CanaryIntact`, `RightPlace` | the layers of image arrays are left out of the fill at creation (`cl_interceptor.c` 1102) and of the place reported (`overflow_error.c` 134) |
| `image_canaries` with `RowGaps = {NoGap}` | `HostDataKept` | the default row pitch counts pixels where bytes are meant (`wrapper_utils.c` 110) |
| `image_canaries` with `RowGaps = {0}`, `SliceGaps = {0}` | `HostDataKept` | a slice pitch is multiplied by the row pitch (`wrapper_utils.c` 132) |
| `mem_track` with `Exclusive = FALSE`, `MaxRefs = 3` | `RecordTracks` | an update of a reference count is lost (`cl_interceptor.c` 1456) |
| `mem_track` as it is | `EveryObjectKnown` | images over the application's memory are recorded without their handle (`cl_interceptor.c` 1113) |
| `mem_track`, `StatsExact` of unbalanced objects too | `StatsExact` | a sub-buffer's release subtracts what no creation added (`cl_interceptor.c` 1503) |
| `api_bounds` with `Sorts = {"2D"}`, `DataSizes = {2}`, or `Offsets = {0, 60}` | `NothingOutside` | the canary is taken off dimensions that have none (`wrapper_utils.c` 327); pixels count as bytes (`cl_interceptor.c` 3101); offset plus size wraps (`wrapper_utils.c` 235) |
| `svm_memory` with `FineAlone = FALSE` | `Apart` | two threads find the same free region (`cl_workaround_lists.cpp` 91) |
| `svm_memory` as it is | `RecordedCanariesReady` | memory is recorded before its canaries are filled (`cl_interceptor.c` 1980) |
| `svm_memory` with `Frees = {"now", "enqueued"}` | `FreesOwnMemory` | `clEnqueueSVMFree` hands the runtime the application's pointer (`cl_interceptor.c` 2084) |
| `svm_memory` with `Interior = TRUE` | `MapCovers` | a map at an offset maps the start (`cl_interceptor.c` 2115) |
| `svm_memory` with `MapModes = {"nonblocking"}` | `CanariesReady` | the canary is restored before the map is carried out (`cl_interceptor.c` 2124) |
| `svm_memory` with `OffsetModulus = 4`, `Sizes = {1, 4}` | `CanariesReady` | the offset of the second canary wraps at 2^32 (`cl_interceptor.c` 1961) |
| `svm_memory` with `CheckAlone = FALSE` | `AllExamined` | a check lists memory that another thread frees before it is looked up (`cpu_check_cl_svm.c` 45) |
| `svm_memory` with `CheckAlone = FALSE`, `Frees = {}`, `CheckWays = {"copies"}`, `MaxAddress = 10` | `AllExamined` | two host checks list each other's temporary copies (`cpu_check_cl_svm.c` 68) |
| `launch_records` as it is | `Kept` | a call and a callback are in a kernel's count at once: an update is lost, and the record is read after it was freed (`cl_interceptor.c` 1633, 1663, 1664) |
| `launch_records` as it is | `NamesRegardless` | a stand-in's arguments are freed before the callback walks them (`bufferOverflowDetect.c` 300) |
| `launch_records` with `Awaited = {}` | `NamesEveryArgument` | the application sets an argument or releases a buffer before the callback (`overflow_error.c` 250); OpenCL does not tell it to wait |
| `launch_records` with `Threads = {t1, t2}`, `Shared = {k1}`, no launches | `ArgsExact` | `remove` reads the head before it takes the lock, and an argument is lost (`generic_lists.ipp` 72) |
| `stand_ins` with `Settled = FALSE` | `StandInsHidden` | the copy to a stand-in does not wait for the launch's wait list (`bufferOverflowDetect.c` 497) |
| `stand_ins` with `Overlapping = TRUE` | `StandInsHidden` | the copy back overwrites what another thread's command did in between (`bufferOverflowDetect.c` 607) |
| `stand_ins` with `Away = {h}` | `StandInsHidden` | the copy to a stand-in is on another queue than the one waited for (`cl_buffer_copy.c` 179); only if the runtime accepts a kernel argument of another context |
| `stand_ins` with `SetLate = TRUE` | `EveryCallReturns` | the call waits for a kernel that waits for an event the same thread sets later (`bufferOverflowDetect.c` 560) |
| `stand_ins` with `Unchecked = {l2}`, `Asking = {l1, l2, w1}` | `ProfilesOwn`, `EventsExact` | with nothing to check no event is returned, and what the caller's variable held is mapped (`bufferOverflowDetect.c` 251, `cl_interceptor.c` 2270) |
| `stand_ins` with `Alone = FALSE` | `EventsExact` | two threads release an event and both find its count zero (`cl_interceptor.c` 2538) |

## What is not modelled

- In `KernelLaunch`, the path for NVIDIA platforms, which waits for each check
  (`gpu_check_utils.c` 332-345; `KernelRecords` has it), and the `clFinish` calls of
  the timing statistics.
- In `SvmMemory`, the SVM that the default strategy of the device checks, on copies,
  allocates for the canaries of SVM (`create_svm_copies`, `copy_canary_cl_buffer.c`
  76-98): `clSVMAlloc` records it as if it were the application's, line 98 marks it
  `detector_internal_buffer`, for which the walks of other checks skip it
  (`bufferOverflowDetect.c` 155, 207), and `verify_callback` frees it on a thread of
  the runtime (`gpu_check_utils.c` 221).  Until line 98 another thread's check may
  list it; and a walk that stands at its record when the callback frees it goes on
  from memory that is gone.  The second needs no other thread of the application, so
  with this strategy `CheckAlone` is not something an application can bring about,
  and `AllExamined` is shown only for the strategies that are modelled: pointers
  (`create_svm_ptr_copies`) and host checks.
- Copies between two contexts through host memory, and from images to buffers
  (`universal_copy/`), and the events passed from one context to another
  (`utils/universal_event.c`): they are used only for a kernel argument of
  another context than its queue's, which OpenCL does not allow.  `StandIns` has
  the copies within one context.
- In `KernelRecords`: `clSetKernelArgSVMPointer`, the creation of kernels (they
  exist from the start), launches with SVM arguments, and the second callback of a
  launch that has both buffers and images: the code retains the kernel and sets a
  callback for each kind, the model for both at once.  In `StandIns`: the
  checks, which come between the kernel and the second wait and touch canaries
  only, and the images among stand-ins, which are copied like buffers.
- The kernel's own event when the caller asks for none: nothing releases it, and
  no property says so.
- The work-group size that `fixOclArgs` may replace.
- Map and unmap of buffers, the memory statistics of SVM, and `ref_count` of a
  cached queue, which no code that is compiled reads.
- The parallel comparison on the device: a checker kernel is modelled by its
  result.
- Text of reports, log files, backtraces, reading of environment variables, the
  `dlsym` table, the driver script, tests and benchmarks.

## Plan

All the modules planned are there, and every safety property of a passing run is
proved but those of `ImageCanaries` and `MemStatistics` named above.  Next for
`SvmMemory` are the copies made on the device, with the callback as an actor.  To prove
`ImageCanaries`, its index arithmetic would have to be restated as facts about rows
and slices that need no division.
