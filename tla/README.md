# FilterSln: verification

FilterSln is three DirectShow filters (`src/FilterSln`: a source of three bitmaps, a filter that flips the picture,
a filter that saves it to a file) on the DirectShow base classes (`src/SDK/BaseClasses`). The three filters are a few
hundred lines; what can go wrong in them, and in any other filter built on the same classes, is in the base classes:
threads, events, reference counts and protocols between filters. This directory models those, checks them with TLC and
proves the central results with TLAPS.

Contents: [system](#the-system), [modules](#modules), [runs](#runs), [fairness](#fairness),
[disagreements](#where-code-and-comments-disagree), [proofs](#proofs), [limits](#what-is-not-shown),
[not modelled](#not-modelled), [plan](#plan).

## The system

A filter graph is a chain of filters. Each filter has pins, each pin is connected to a pin of a neighbour, and each
connection shares one memory allocator. Samples flow downstream by calls of `IMemInputPin::Receive` on a *streaming
thread*, which belongs to the source; state changes (`Pause`, `Run`, `Stop`) and flushes come on the threads of the
application or of the graph manager; a clock thread signals events when a time has come.

| Part | State | Operations | What is hard | What makes it correct |
|---|---|---|---|---|
| **Shared allocator** `CBaseAllocator`, `CMemAllocator`, `CMediaSample` (`amfilter.cpp` 3230-3460, 4560-5330) | committed / decommit in progress / changed flags, counts, free list, semaphore and waiter count, reference counts | `GetBuffer`, `ReleaseBuffer`, sample `AddRef`/`Release`, `SetProperties`, `Commit`, `Decommit`, `Alloc`, destructor | waiting outside the lock; an unlocked "last reference" test; a decommit another thread completes later; half-failed allocation | no wakeup lost, each sample in one place, destroyed only when quiet, implements a buffer pool |
| **Media sample** (`amfilter.cpp` 3460-3870) | times, flags, length, type | the setters, `GetProperties`, `SetProperties` with a prefix, release | flags and fields are assigned separately; the sample is used again | what is read back is what was given; a returned sample has no flags and no type left |
| **Worker thread** `CAMThread` (`wxutil.cpp`) | handle, parameter and return word, a manual-reset and an auto-reset event, access lock | `Create`, `CallWorker`, `GetRequest`, `CheckRequest`, `Reply`, `Close` | one mailbox for all callers; order of the two events in `Reply`; a second worker started while the first exits | implements a synchronous call |
| **Push source** `CSource`, `CSourceStream`, `CBaseFilter`, `CMyOutputPin` (`source.cpp`, `amfilter.cpp`, `MyOutputPin.cpp`) | filter state; thread handle and allocator of each pin; frame count | `Pause`, `Run`, `Stop`, destructor; `ThreadProc`, `DoBufferProcessingLoop`, `FillBuffer` | two loops read the same commands; the worker may be blocked when told to stop; a start that fails half way | calls return, nothing runs after `Stop`, no sample leaks, frames in order |
| **Pull pin** `CPullPin` (`pullpin.cpp`) | range, thread state, requests out | `Active`, `Inactive`, `Seek`, `Connect`, `Disconnect`; worker `Process` | a worker blocked in the reader or downstream when a seek comes; the reader may refuse to flush, and `Disconnect` goes on all the same | the range is delivered in order and once, every sample comes home, calls return, no worker without its reader |
| **Transform filter** `CTransformFilter` with its input pin (`transfrm.cpp`) | state, flushing, run-time error, end-of-stream, skipped-sample flags, receive lock | `Receive`, `EndOfStream`, `BeginFlush`, `EndFlush`, `Stop`, `Pause`, `Run` | control calls meet a `Receive` in progress; order of the two halves of a flush | samples accounted for, quiet when stopped, flush and stop get through, one end of stream |
| **In-place transform** `CTransInPlaceFilter` (`transip.cpp`) | type and allocator of both sides, read-only, copy or not | connection of either side, reconnections, `NotifyAllocator`, `Receive` | each side's connection reconnects the other | the chain settles with one type, read-only data is copied, reconnections end |
| **Video transform** `CVideoTransformFilter` (`vtrans.cpp`) | lateness, key frame period, averages, `m_nWaitForKey` | `ShouldSkipFrame`, `Receive`, `AlterQuality`, `StartStreaming` | a skipped frame spoils those that build on it; frames without times, other types and failures come between | no frame that has times is decoded in pieces, a key frame is awaited |
| **Renderer** `CBaseRenderer` (`renbase.cpp`) | current sample, end-of-stream flags and timer, advise, render event, thread signal, complete event | `Receive` with its wait, `EndOfStream`, flushes, `Stop`, `Pause`, `Run`, timer callback, display change | streaming thread, control thread, clock and timer meet in flags under two locks | `EC_COMPLETE` once and last, states told truly, nobody stays blocked |
| **Video renderer** `CBaseVideoRenderer` (`renbase.cpp`) | averages of render, wait and frame times, throttle, statistics | `ShouldDrawSampleNow`, `ScheduleSample`, render, quality messages | control by averages of what it caused itself | the picture never hangs, the statistics show no jitter that was not there |
| **Rendered pin** `CRenderedInputPin` (`amextra.cpp`) | at end of stream, completion notified | `EndOfStream`, `Run`, `Active`, `EndFlush` | the end of the stream arrives as the filter starts to run | `EC_COMPLETE` once, not forgotten |
| **Output queue** `COutputQueue` (`outputq.cpp`) | list of samples and packets, batch, semaphore and wait mark, flush flags and event, deferred result | `Receive`, `SendAnyway`, `NewSegment`, `EOS`, `BeginFlush`, `EndFlush`, `Reset`, destructor, `ThreadProc` | an auto-reset event used for two purposes, reads without the lock, partly sent batches | order and ownership of samples, a flush leaves nothing, the worker is never forgotten |
| **Reference clock** `CBaseReferenceClock`, `CAMSchedule` (`refclock.cpp`, `schedule.cpp`) | private and last told time, sorted list of advises, cache of nodes, thread and event | `GetTime`, `SetTimeDelta`, `AdviseTime`, `AdvisePeriodic`, `Unadvise`, destructor, `AdviseThread` | the thread sleeps on what it read under the lock; corrections in either direction | never late, never twice, never spins, time does not go back |
| **Stream control** `CBaseStreamControl` (`strmctl.cpp`) | state, pending start and stop with cookies, flushing, event | `StartAt`, `StopAt`, `CheckStreamState`, `Flushing`, `NotifyFilterState` | a sample waits outside the lock for one auto-reset event | every cookie accounted for, samples discarded in time, nobody held |
| **Dynamic output pin** `CDynamicOutputPin` (`amfilter.cpp` 3887-4540) | block state and owner, unblock and stop events, users | `Block`, `StartUsingOutputPin`, `StopUsingOutputPin`, `ChangeMediaType`, `Active`, `Inactive`, flushes | waits leave the lock; a block takes effect when the streaming thread leaves | a blocked pin is unused, every `Block` returns, a stop frees the thread |
| **Deferred commands** `CCmdQueue`, `CDeferredCommand` (`ctlutil.cpp`) | two lists by time, pending advise, event, run offset | `New`, `Insert`, `Remove`, `Postpone`, `Cancel`, `Invoke`, `GetDueCommand`, `Run`, `EndRun`, `SetSyncSource` | no lock on a command; the advise is for what was first | in time order, run at most once, none that is due is missed |
| **Seeking** `CPosPassThru`, `CRendererPosPassThru`, `CSourceSeeking`, `CSourcePosition` (`ctlutil.cpp`) | start, stop and rate; media times of the renderer | `SetPositions`, `SetRate`, `put_*`, `GetPositions`, `RegisterMediaTime`, `EOS` | stored under the lock, put into effect outside it | what is stored last is in effect |
| **Pin connection** `CBasePin`, `CBaseOutputPin`, `CBaseInputPin`, transform pins | connected pin, type and allocator of each end, references | `Connect` with its attempts, `ReceiveConnection`, `DecideAllocator`, `NotifyAllocator`, `Disconnect`, `BreakConnect` | many steps that can each fail after earlier ones took references | all or nothing, references balance, formats agree along the chain |
| **Enumerators** `CEnumPins`, `CEnumMediaTypes` (`amfilter.cpp`) | version, position, pins given | `Next`, `Skip`, `Reset`, `Clone` | the pins change in the middle of a call, without a lock | no pin twice, none missed but with a call that fails |
| **Filter's references** `CBaseFilter` (`amfilter.cpp`) | clock (counted), graph and sink (not counted) | `SetSyncSource`, `GetSyncSource`, `JoinFilterGraph`, `StreamTime`, `NotifyEvent` | read by a worker while the application exchanges them | what is used is alive |
| **Lists** `CBaseList` (`wxlist.cpp`) | chained nodes, cache | the operations of `wxlist.h` | relinking between lists; `new` may fail half way through a copy | one chain both ways, does what the header promises |

## Modules

Each component has a module of its own; a *promise* states abstractly what the component owes the others, and a run
checks that it keeps it. Components meet through these: the source uses the call of `SyncCall` in place of `AMThread`
and a count of free samples in place of `MemAllocator`, as `BufferPool` allows; the pull pin uses `SyncCall` as well;
the deferred commands use a clock that promises what `AlarmService` says. `VideoGraph` composes `VideoTransform` with
`VideoRenderer`: the quality messages of the one are what the other's `AlterQuality` is called with.

Components that share no state are checked side by side in one run (`MC_Samples`, `MC_Ends`, `MC_Streaming`,
`MC_Control`, `MC_Objects`): a variable `which`, chosen at the beginning, says which component moves, and the others keep still. The
states are the sum of those of the components, not the product, and a property about one of them is written in the MC
module as it is, or guarded by `which`. A run that refutes a sentence of the source instantiates the one module alone.

| Component | Module | Checked in | Promise | Proofs |
|---|---|---|---|---|
| Shared allocator | `MemAllocator` | `MC_Samples`, `MemAllocator` | `BufferPool` | `MemAllocator_proofs` |
| Worker thread | `AMThread` | `MC_Streaming` | `SyncCall` | `Streaming_proofs` |
| Push source | `SourceFilter` | `MC_Ends`, `SourceFilter` | `FrameSource` | `Source_proofs`, `Ends_proofs` |
| Renderer, its end of stream | `Renderer` | `MC_Ends` | | `Ends_proofs` |
| Transform filter | `TransformFilter` | `MC_Samples`, `TransformFilter` | | `MemAllocator_proofs` |
| Output queue | `OutputQueue` | `MC_OutputQueue` | | `OutputQueue_proofs` |
| Reference clock | `RefClock` | `MC_RefClock` | `AlarmService` | `Control_proofs` |
| Pull pin, stream control | `PullPin`, `StreamControl` | `MC_Streaming` | | `Streaming_proofs` |
| Deferred commands, seeking, dynamic pin, in-place transform | `CmdQueue`, `Seeking`, `DynamicPin`, `TransInPlace` | `MC_Control` | | `Control_proofs` |
| Pin connection | `PinConnection` | `MC_Objects` | | `Objects_proofs` |
| Video transform and renderer | `VideoTransform`, `VideoRenderer`, `VideoGraph` | `MC_Objects` | | `Objects_proofs` |
| Lists | `BaseList`; `ListThreads` (several threads) | `MC_Objects` with `MC_Lists`; `ListThreads` | `PlainList` | `Lists_proofs` |
| Enumerators, rendered pin, media sample, references | `PinEnum`, `TypeEnum`, `RenderedPin`, `MediaSample`, `FilterLinks` | `MC_Objects` | | `Objects_proofs` |

Variables carry the names of the members and actions those of the methods; a method whose code leaves a lock, waits
or calls another object has one action per stretch between these points. Definitions under *Mutants* change the
definition after them the way a plausible mistake would; each property has been seen to fail under one of them.

**MemAllocator.** A critical section is one step; what `GetBuffer` (the wait, the sample's reference), `Release` (the
unlocked test, the overwrite), `ReleaseBuffer` (reading `m_pNotify`, dropping the allocator) and `Wake` do outside
is a step each. `Alloc` may fail before or after the old block is freed and after any number of samples was created.
Threads get references to the allocator and to samples only from one another, as COM clients must. After the
destructor, a thread that still touches the object goes to `crashed`.

**AMThread.** Every read or write of a word or an event is a step, so that the order of `ResetEvent` and `SetEvent`
in `Reply` and of the exchange in `Close` matters. The worker is any derived class that keeps to the protocol; it may
look at a request with `CheckRequest` any number of times before it replies. Clients keep to the one rule the header
states: whoever sends the exit command calls `Close`, and others do not call the object in between (`MayCall`).

**SourceFilter.** The application thread is in `op` at pin `c`, doing `step`; the worker of each pin is in one of the
waits of `ThreadProc` and `DoBufferProcessingLoop`. `CMySourceFilter` is the instance with one pin, one buffer and a
`FillBuffer` that never fails (`which = "own"`); the other takes any derived class: two pins, failing `FillBuffer` and
`OnThreadCreate`, pins that the filter sends commands to itself (`"any"`). `m_nCount` counts modulo `CountMod`.

**Renderer.** `m_InterfaceLock` is held through every control call, so one control thread is in `rOp`/`rStep`; the
streaming thread is in `spc`, and where it waits in `WaitForRenderTime` or takes a lock anew it is a step. The timer's
callback takes only `m_RendererLock`. The clock and the multimedia timer are external: an advise that has been asked
for fires at some time, also one that is being cancelled (`AdviseFires`); a timer fires once.

**TransformFilter.** One streaming thread in `spc`, one control thread in `op`/`step` (`m_csFilter` is held through
every control call and never taken by the streaming thread, so one control thread stands for all). The neighbours are
environment: upstream keeps to the rules of `IPin::BeginFlush`/`EndFlush`, downstream blocks when paused and keeps
samples, and the graph manager stops and starts downstream first. `skipped` and `pSample.old` are observers.

**OutputQueue.** The worker is in `wpc`, the streaming thread in `spc`, the control thread in `step`. `mode` holds
the constructor's arguments and how the owner uses the queue: whether it calls `Reset`, and which calls may be on
their way when a flush begins. Where the code reads `m_hr` or `m_bFlushing` without the lock the read is a step of
its own. `refs` (references the queue owes) and `era` (flushes completed downstream) are observers.

**RefClock.** A client call is one step (it holds the clock's or the schedule's lock); the advise thread reads the time
(`Look`), takes the lock and works off the list (`EnterAdvise`, `Fire`) and goes to sleep (`Plan`, `Sleeping`) in
steps, so an advise may be added, removed or corrected between any two. `Wake` is the event, `Tick` is `timeGetTime`,
which advances only while this thread, which has the highest priority, is asleep. A unit of reference time is half a
millisecond, so that the rounding of `Plan` to whole milliseconds is there: without the rounding up the thread would
plan waits of nothing (`NeverSpins`, the code's `ASSERT( llWait > 0 )`).

**PullPin.** One application thread holds `m_AccessLock` and is in `op`/`step`; the worker is in `pc`. The reader
answers requests in order, cancels those it holds when it is told to flush, and (with `Refuses`) may refuse; downstream
keeps samples and answers a `Receive` as it likes. `Active`, `Seek`, `Inactive` and `Disconnect` go through the same
`StopThread` or `PauseThread`, and go on as the code does when it fails: `Disconnect` lets go of the reader and the
allocator whether the worker has ended or not, and a `StartThread` whose `Commit` or `Create` fails leaves the pin
without a thread. `refused` is an observer: which call, if any, met a refusal since the worker began.

**StreamControl.** `Becomes` writes the command state back as a record, so that `CheckSampleTimes` and the calls it
makes are operators on such records; that they follow the table in the comment (`strmctl.cpp` 211-231) is proved for all
times. `CheckStreamState` is several steps: the flags, read without the lock, then the times, the
blocking wait and its end by the event or by the time.

**CmdQueue.** The queue's methods hold `m_Lock` and are one step each; nothing in `CDeferredCommand` takes a lock,
so `Cancel`, `Postpone` and `Invoke` are several. A worker fetches and invokes, an owner creates, cancels, postpones
and releases, the filter runs and stops, the clock fires the advise or fires it late. `crashed` is set when a command
without a queue calls it (`Postpone` after `Cancel`).

**Seeking.** An application's call goes down the chain in one step to the source, which stores the new values and, in
steps after it left the lock, tells the derived class. `inEffect` is what the derived class was told last; it may
refuse. `kind` is whether the source is a `CSourceSeeking` or a `CSourcePosition`.

**DynamicPin.** Applications block and unblock, synchronously and with an event; one streaming thread brackets its use
of the pin; the filter's thread activates, stops and flushes. A thread waiting in `StartUsingOutputPin` has left the
lock.

**TransInPlace.** A connection attempt is an operator from chains to sets of outcomes (`AndThen`, `OrElse` follow the
`hr` of the code); the reconnections that `CompleteConnect` asks the graph for are actions of their own, as the graph
does them later. Sources and sinks differ in types, allocators and whether they insist.

**VideoTransform, VideoRenderer, VideoGraph.** Times are milliseconds. Each member that is an average is a variable;
integer divisions are the code's. A frame may have no times, be a discontinuity or bring another input type; the
renderer may ask for another output format; there may be no output sample, `Transform` may refuse or fail, and a
derived class's `StartStreaming` may fail, which aborts playback. A source that was told of a failure is `"halted"`
until a flush or a restart, as the loops of `CSourceStream` and `CPullPin` are. `m_nWaitForKey`, which the constructor
leaves alone, begins with any value of `Garbage`. `broken`, `waited` and `orphan` are observers. The renderer's throttle and the statistics' square root are operators that `ASSUME`s
of `MC_Objects` check against the table in the comment and the definition of a root.

**PinConnection.** `link[l]` is one connection with both its ends and the references each holds; `call` is the
`Connect` in progress: which types are left to try, in which round (`m_bTryMyTypesFirst` and the other pin's list),
and the link as it was. Each attempt is `AttemptConnection` → `ReceiveConnection` → the input pin's allocator, then
the output pin's own. `Faults` decides which of the memory for a type, the derived classes' hooks, the negotiated size
and `NotifyAllocator` may fail. The three filters' checks are the constants: for the transform,
`CFlipFilter::CheckTransform` demands equal types.

**BaseList, PlainList, ListThreads.** Nodes with `prev`, `next` and `data`; an operation on one element is one step,
one that copies a list has a step per element, as `new` may answer NULL between two. `PlainList` has the same
operations on sequences, as the comments of `wxlist.h` state them; `CallKeepsPromise` says each step of the chains is
that operation on the sequences they represent. `ListThreads` is `AddTailI` statement by statement.

**PinEnum, TypeEnum, RenderedPin, MediaSample, FilterLinks.** Small modules for the objects every filter has. Where
the code takes no lock (the enumerators; `EndOfStream` unless its caller locks; `StreamTime`, "caller must lock"), each
read is a step; the constants `EndOfStreamLocks` and `CallerLocks` say whether the caller keeps the rule that the
comment gives it. A filter changes its pins and announces it in a later step, or never, as `CSource::AddPin` and
`RemovePin` do. Of an enumerator, `given` is what its caller has, `skipped` what it passed over, `lost` what a `Next`
that failed had got, and `unseen` that a change was kept from it; `failed` is the same for the types that a `Next`
found no memory for. A sample's times are `"given"` in this use or `"old"`: a release does not touch them.

## Runs

| Run | Instance | Bounds and why they are enough | Shows |
|---|---|---|---|
| `samples` | allocator: 3 threads, up to 2 samples; transform: 2 output samples, all results and faults; 285 668 states | Two threads can be blocked while a third returns a sample or decommits; with two samples one can be out while the other is home, and an allocation can fail half way. `MaxCredit` bounds the wakeups that `AM_GBF_NOWAIT` callers leave on the semaphore: one is enough for a waiter to be woken in vain. Downstream of the transform can keep one sample while another is under way, or keep both and block `GetBuffer`. One streaming thread is what `m_csReceive` admits. | `NoLostWakeup`; `AllocatorSafety` (every sample in one place, the fast release is exclusive, destroyed only when quiet, memory backs the samples); refinement of `BufferPool`; `WaitersGetOut`; `TransformSafety` (samples accounted for, quiet when stopped, a flush loses only old samples, skips reported, one end of stream), `StreamingPaired`, `NobodyIsStuck` |
| `ends` | the repository's source (1 pin, 1 buffer), any source (2 pins), the renderer; 53 151 states | The own filter has exactly one pin and asks for one buffer; `CountMod` 6 is two rounds of the three pictures. Of any filter, the second pin is what lets a `Pause` fail half way; one buffer is the hardest case for getting out of `GetBuffer`. Two advises: one is out while another is asked for. | `AllPathsReleaseTheSample`, `SourceSafety`, refinement of `FrameSource`, `SourceCallsReturn`; `RendererSafety` (`EC_COMPLETE` once, states told truly), `CompleteIsLast`, `RendererAnswers` |
| `queue` | 6 modes, 2 samples, 2 flushes, list of 2; 383 188 states | Batches of one, up to two and exactly two; two samples make a full and a partial batch; the second flush meets what the first left. `MaxList` bounds what is queued before a call. | `QueueSafety` (order and ownership, a flush leaves nothing, the worker is not forgotten); calls of the control thread return |
| `clock` | 2 clients, 2 times, 2 advises, 1 correction, cache of 1; 686 787 states | Two advises: one is inserted before, removed from or shunted behind the other; corrections of a unit below and above what wakes the thread, and backwards; the cache of one node overflows. | `ClockSafety` (the list is the clients', a one-shot rings once, the thread does not spin), `NeverLate`, refinement of `AlarmService`, `Served` |
| `streaming` | worker thread: 3 clients, 2 workers; pull pin: a file of 3 units, 2 samples, a reader that may refuse; stream control: 2 times, 2 samples, 2 commands; NSTATES states | One client in `Create` or `Close` while two compete for a call; a worker replaced while the old one still exits. The reader aligns to 2: the range begins off the alignment, the whole file ends off it. Of two samples one is out at the reader while the other is with downstream, or both are at one of them. Two times with samples of length two give every order of start, stop, beginning and end. | `ThreadSafety` (own answers, no command lost, one worker serves), refinement of `SyncCall`, `CallsReturn`; `PullSafety`; `ControlSafety`, `DiscardsInTime`; `EveryoneReturns`: every call of the pull pin returns, unless the reader refused to be flushed for it |
| `control` | 2 commands, 2 threads that seek 3 times, 2 applications and 4 calls on a pin, 5 connections or disconnections; 572 378 states | Two commands: one is first, then the other, in either list. Two seeks overlap and a third follows. One application blocks while another unblocks. Five calls make both sides of a transform, break one and make it anew with another peer. | `CmdSafety`, `SeekSafety`, `PinSafety`, `TipSafety`, `NobodyWaitsForever` |
| `objects` | 3 types and 2 links; 6 frames; 2 lists and 3 nodes; 2 pins and 2 enumerators; and one each of the others; 2 582 637 states | One type suits everybody, one only the upper link, one only the ends: so an attempt can succeed, fail early, and fail at the far end. Six frames are more than the key frame wait, of three here. Three nodes make a list with a first, a middle and a last. Of the enumerators one may be a clone of the other; they are symmetric, which is sound as the run checks no liveness. | `ReferencesBalance`, `ConnectionsAgree`, `ConnectIsAtomic`; `VideoSafety`; `ListSafety`, `DoesWhatItSays`; `NothingLostOrLeft`, `CompletesAndLinks` |

The other runs each refute a sentence of the source, see [below](#where-code-and-comments-disagree). Deadlock is checked
in `samples` and `queue`. In the others the system may stop: a source whose `Pause` failed hangs in
its destructor and a destroyed one does nothing (`ends`), a clock ends (`clock`), and the bounds on times, commands,
calls and frames let a behaviour come to its end.

In `queue`, the modes keep to `UsedWell`: an owner that calls `Reset` on a queue with a worker uses no flushing
optimization and has no `NewSegment` or `SendAnyway` under way at a flush. Otherwise the worker may pass the flush branch
once more than anybody waits for it, and `FlushLeavesNothing` fails (`queue_reset`); TLC finds it violated also when only
one of the three is allowed, so `UsedWell` asks no more than it must. An owner that never calls `Reset` is free in all.

Two constants keep a rule the comments give the callers, because without it a property fails, as it should:
`EndOfStreamLocks` (an `EndOfStream` that takes no lock loses `EC_COMPLETE` against `Run`) and `CallerLocks`
(`StreamTime` uses a clock that was released). The other instances admit what the code admits: a reader that refuses to
be flushed, changes of pins that nobody announces, a `Next` that finds no memory or too few pins, frames without times
or duration. What then is lost the property names: `WorkerHasReader` excepts a worker whose reader refused to be
flushed for `Disconnect`, `EveryoneReturns` a call the reader refused, `NothingMissed` the pins of a failed `Next` and
an enumerator that a change was kept from, `NothingDecodedInPieces` frames without times, `NothingHangs` a first frame
of no duration.

## Fairness

Weak fairness on the steps of a thread that is inside a call: the operating system runs threads that can run, and a
wait on a signalled object ends. No fairness on the beginning of a call: nobody need call anything. Besides that:

* `AMThread`: strong fairness of `SetReturnVal`. A worker may look at a request with `CheckRequest` and go on with its
  own work, but one that does so for ever breaks the protocol by itself.
* `SourceFilter`: downstream's `Receive` returns (it is part of a worker step), but the own source's downstream need
  never give back a sample it kept. In the instance of any source it does: there the derived filter sends `CMD_PAUSE`,
  `CMD_RUN` or `CMD_STOP` to a pin without a `Decommit` first (`source.h:139`), and the worker answers only when it
  gets out of `GetBuffer`.
* `MemAllocator`: a semaphore with a count lets a waiter through (`Wake`); which one is not assumed.
* `Renderer`: the streaming thread gets the lock it waits for although control calls take it again and again, and a
  timer that was set fires (strong fairness); the clock fires the advises it accepted.
* `TransformFilter`: the neighbours are not fair, so downstream may stay paused or keep its samples for ever.
* `OutputQueue`: the same; `CallsReturn` excepts `Reset` and the destructor, which the code makes wait for a paused
  downstream.
* `RefClock`: the advise thread is woken in time and runs, and `timeGetTime` goes on while it sleeps.
* `PullPin`: the worker and the caller run; downstream's `Receive` returns and samples come home while it flushes
  or runs. `StreamControl`: the streaming thread runs and stream time goes on.
* `CmdQueue`: the worker fetches and executes, the clock fires. `DynamicPin`: a thread that uses the pin leaves it
  (strong fairness, as it may change types in between); threads that are woken run. `TransInPlace`: the graph does the
  reconnections it was asked for.

## Where code and comments disagree

Each of these is a run that TLC ends with a counterexample:

* **`transform_resync`**: "Stop can be used to resync the graph state after something has gone bad"
  (`amfilter.cpp:532`). `CTransformFilter::Stop` clears `m_bRunTimeError` before it waits for `Receive`, which may set
  it again (`amfilter.cpp:3021`); the next run then refuses every sample.
* **`queue_reset`**: `m_evFlushComplete` is auto-reset and signalled on each pass through the flush branch and for each
  `RESET_PACKET`. A signal left over ends a `Reset` early; its packet is then served during the next flush, reopens
  `m_hr` and ends `EndFlush`'s wait too early; a sample from before the flush is delivered after it, against
  `outputq.cpp:488` and `529`.
* **`list_threads`**: "The class is thread safe in that separate threads may add and delete items in the list
  concurrently" (`wxlist.h:16`). No method takes a lock; two threads that add at once lose a node or a count.
* **`source_failing`**: `ASSERT(!ThreadExists())` before `CSourceStream::Active` creates its thread (`source.cpp:317`).
  When `Pause` fails on the second pin the state stays Stopped (`amfilter.cpp:575`), `Stop` skips the pins, and the next
  `Pause` finds the first pin's thread. (`SourceFilter!ToldToExit` is the same at the end: `~CAMThread` then waits for a
  worker that nobody told to exit, against `wxutil.h:196`.)
* **`release_buffer`**: two comments (`amfilter.cpp:3358`-`3366`, `4835`) say each issued sample holds a reference to the
  allocator until `ReleaseBuffer` is done. The code holds a single one, from `Commit` to the end of the decommit
  (`4917`). A thread in `ReleaseBuffer` that has left the lock holds nothing when another completes the decommit: the
  allocator may be gone when it reads `m_pNotify`.

Others are definitions in the modules that a run refutes when it is given them; they are stated there with the line they
come from, and no run of the project checks them:

* `OutputQueue!IdleMeansAllSent`: with exact batches `IsIdle` returns TRUE with samples on the list, against its
  comment and its own `ASSERT` (`outputq.cpp:771`, `784`, `789`).
* `CmdQueue!NoCrash`: `Postpone` after `Cancel` or `Invoke` goes through a null queue (`ctlutil.cpp:2063`), and `Invoke`
  beside a `Cancel` removes through one (`2126`).
* `PullPin!StartsWithoutThread`: the assertion of `source_failing` in `CPullPin::Active` (`pullpin.cpp:171`). `Inactive`
  does not look at the result of `StopThread`, which returns early when the reader refuses to be flushed.
* `CmdQueue!DueHandle`: the handle "will be signalled whenever there are deferred commands due for execution"
  (`ctlutil.h` 850-852). `SetTimeAdvise` resets the event first and asks for an advise only if the time has changed
  (`ctlutil.cpp` 2340, 2370), so a second command for a time that has come silences the first.
* `CmdQueue!AddRefed`: `GetCommandDueFor` "returns an AddRef'd object" (`ctlutil.cpp:2492`), but not on its last way
  out (`2536`-`2539`).
* `PinEnum!FailsOnlyAtFirst`: `ASSERT( cFetched==0 )` where `Next` finds a pin gone (`amfilter.cpp:1129`). It had got
  others; their references are lost, and no later call of the enumerator hands them out.
* `MediaSample!TimesAreGiven`: "Check a flag isn't being set for a property not being provided" (`amfilter.cpp:3764`).
  `SetProperties` checks this of the start time only; with a structure that ends before the times it takes the flag of
  the stop time, and `GetTime` answers with those of an earlier use.
* `VideoTransform!CommittedToKeyFrame`: "Once we start skipping, we cannot stop until we hit a key frame" (`vtrans.cpp`
  390-391). A frame without times is decoded in the middle of skipping ("Don't skip frames with no timestamps", 323).
* `VideoTransform!LatenessIsSane`: "Avoid overflow and silliness - more than 30 secs late is already silly"
  (`vtrans.cpp:446`). `AlterQuality` tests the old `m_itrLate` and then assigns the new, unbounded.
* `Seeking!SuccessIsReal`: `SetPositions` overwrites the answer of `ChangeStop` by that of `ChangeStart`
  (`ctlutil.cpp:1281`-`1287`): a seek may answer success without having changed the stop position.
* `TransInPlace!RestingStates`: the comment at `transip.cpp` 79-84 and 186-191 lists the allocators a chain comes to
  rest with; an input whose sink has been disconnected goes on using the sink's.
* `MediaSample!ActualFits`: `SetProperties` with a structure that ends before the size takes a length beyond the buffer.
* `Renderer!FlushedIsIntermediate`, `NoForgottenAdvise`: a flushed, paused renderer may answer `GetState` with S_OK, and
  an advise may stay with the clock after the sample it was for went away.

Seen while modelling, without a definition of their own:

* A queue without a worker and with loose batches of two keeps an incomplete batch, on which
  `ASSERT(m_nBatched == 0 || m_bBatchExact)` (`outputq.cpp:635`) of the next call fails.
* After a failed `OnThreadCreate` the thread's handle is never closed, so the assertion of `source_failing` fails on the
  next start of a filter with one pin too.
* `CSource::AddPin` and `RemovePin` never call `IncrementPinVersion`: an enumerator does not notice that its pins have
  changed until it is reset.
* The constructor of `CVideoTransformFilter` leaves `m_nWaitForKey` unassigned: a value that happens to be large
  withholds the first frames of a stream without key frames for longer than the thirty of the comment.
* A `StartStreaming` after which `CBaseFilter::Pause` fails has no `StopStreaming` (`transfrm.cpp:521`); the derived class
  is told to start again by the next `Pause`.
* `CBaseStreamControl`'s constructor leaves `m_bStopExtraSent`, `m_pSink` and `m_tRunStart` unset, and `ExecuteStart`
  uses `m_pSink` untested; a command for "now" drops its cookie.
* A command at time 0 gets no advise (`ctlutil.cpp:2374`); `GetDueCommand` spins while an outdated advise is signalled;
  `New` returns a pointer it does not count; the queue's destructor leaves the commands' `m_pQueue` dangling.
* `GetPositions` reads its pair without the lock. `EndFlush` of a dynamic pin resets the stop event also when the
  filter is being stopped; the type change's `Commit` can follow `Inactive`'s `Decommit`.
* An in-place transform that does not copy never announces a skipped sample as a discontinuity.
* `AddTail` of a list to itself does not end, `MoveToTail` to itself makes a cycle, and positions of another list are
  taken unchecked.
* `SetMediaTime` truncates the length to 32 bits; `JoinFilterGraph` that finds no memory for the name leaves `m_pGraph`
  set.
* `CMyFilter` copies `GetSize()` bytes and does not test `CreateFile` for `INVALID_HANDLE_VALUE`; `CFlipFilter` copies
  nothing of a top-down bitmap, whose height is negative (`FlipFilter.cpp:323`); `m_nCount` overflows after 2^31 frames
  (`MyOutputPin.cpp:220`).

## Proofs

The theorems hold for every value of the constants, under the named `ASSUME`s of the modules (finitely many threads;
bounds that are natural numbers; lists of types that are sequences of types).

**`MemAllocator_proofs`**, the allocator and the filter between two of them.
*Allocator*, any number of threads and samples.
`TypeCorrect` is `Spec => []TypeOK`, in three parts kept by different arguments (the pool's numbers, the counts, the
calls in progress).
`NoWakeupIsLost` is `Spec => []NoLostWakeup`: while a sample is free or the allocator is decommitted, the semaphore
holds a wakeup for each thread blocked in `GetBuffer`. `NoLostWakeup` is not inductive: it says nothing of a pool
that is empty and committed, from which the next `ReleaseBuffer` leads to a free sample. The invariant is
`WaitersAccounted` (each blocked thread has a count of the semaphore or is recorded in `m_lWaiting`) and
`RecordedOnlyWhenEmpty` (waiters are recorded only in a committed pool without free samples). When a sample comes back
or the pool is decommitted, `NotifySample` turns all the recorded waiters into counts, so the first holds with
`m_lWaiting = 0`. What each step does to the number of blocked threads is stated once, in `WaitingEnter`,
`WaitingLeave` and `WaitingSame`.

`AllocatorIsSafe` is `Spec => []AllocatorSafety`, all the run checks at every step. Its parts are proved together
because they lean on each other: a sample's last `Release` runs without the lock, so it is exclusive only if the count is
the number of holders (`RefInv`), which needs that a sample that is being taken or returned has none (`PlaceInv`); the
destructor empties the pool, so it must find nobody with a sample, which follows when the references to the allocator
are counted exactly (`LifeInv`: clients, calls that still have to release, and the allocator's own while it is committed
or decommitting) and a closed allocator has every sample home; and that a decommit is finished by the last sample, and
`Alloc` may trust `m_bChanged` after a failure, is `MemInv`.

`AllocatorIsPool` is the refinement `Spec => ImplementsPool`. With the invariant of `AllocatorIsSafe`, each step of the
allocator is a step of `BufferPool` or a stutter: the sample taken in `GetBuffer` is `Issue`, the one that goes back to
the list is `Return`, `Commit` is `Open` or `Provide`, `Decommit` closes the pool, and the last `ReleaseAllocator`
takes its buffers away; the calls of the lock, the semaphore, the references and the waiting are invisible. Two of the
steps need what is proved of the whole history: `Commit` replaces the buffers only when all are home, and the
destructor runs only when no client and no buffer is out (`NothingOut`).

*Transform filter*, any number of output samples, any results and faults: every safety property of the `samples`
run, one by one and together (`TransformIsSafe`). Except for the samples' sum none is inductive, and each has its own
strengthening: `WhereInv` says which lock goes with which step; `QuietInv` that a stopped filter has
neither a call of the streaming thread nor a committed allocator, so that `StopIsComplete` follows together with
`NoSampleLost`; `StreamingInv` that an active filter, or one about to commit, is streaming; `FlushInv` that downstream
flushes only inside this pin's flush, and that a call of the streaming thread met there began before it; `SkipInv`
that an unreported skip is remembered by the filter or by the output sample; `EosInv` that no end of stream has
reached downstream while another may still come. They rest on the assumptions about the neighbours in the module's
header: without upstream's rule for `EndFlush`, `FlushInv` does not hold.

**`Lists_proofs`**, any lists, nodes, objects and room in the caches. `ListsAssumption` says that nodes are finitely many
and numbered (`new` takes the least that is not allocated), that `NoNode` is not one, and that the room is a number.
`ListsAreSafe` is `ListsSpec => []ListSafety` and `ListsDoWhatTheySay` is `ListsSpec => DoesWhatItSays`; `ObjectsKeepLists`
in `Objects_proofs` carries both over to the specification of the run. What the run checks follows pointers, which says
nothing of what a step that changes a pointer does to the rest. The invariant, `ListInv`, therefore names the sequences
of nodes the pointers stand for: `ch[l]` for each list, `ca[l]` for each cache, each without a repetition (`Distinct`) and
linked as its ends, its count and every `next` and `prev` say (`Chained`, `Leads`), with every node in exactly one of
them or not allocated (`Apart`). `AlongIs` connects the two: what a walk along the pointers meets is that sequence.
Each way of relinking is one lemma about sequences (`InsertChained`, `RemoveChained`, `CutChained`, `JoinChained`,
`TurnChained`), and each operation one lemma that says which of them it is (`LinkTailKeeps`, ..., `MoveTailKeeps`,
`ReverseKeeps`). While a list is being copied, `Spliced` says that the list it goes to is the old one with the part
copied so far at the place asked for, in order, and `Progress` that the two pointers of the loop stand at the next
element to read and the place to write; a copy that fails at any element leaves just this.
For `DoesWhatItSays`, `Held` is the contents as a sequence of entries, and one lemma for each call (`AddedPromise`,
`RemovePromise`, `MoveTailPromise`, ...) shows that what it does to the chains is what `PlainList` does to the entries, and
that the entries of the other lists, positions and objects, stay as they are (`Elsewhere`). No theorem is by induction
over a recursive definition: `Along` is a recursive function, that it exists is `WalkExists`, and its value is found from
a least counterexample (`LeastOf`).

**`Objects_proofs`**, the objects side by side in `MC_Objects`.
*Pin connection*, any media types, lists and faults.
`ReferencesAlwaysBalance` is `Spec => []ReferencesBalance`: at every step of a connection, of its roll-back and of a
disconnection each pointer has one reference and each reference its pointer. `TypeCorrect` follows: no count is below
zero or above the number of pointers. The invariant `IInv` says that both links are typed and balanced, that a call in
progress is well-formed and, in `OutState`, which pointers the output pin has at each step of the call. Without the
latter the roll-back could not be shown to release what was taken and no more: `Release` of an allocator is right only
if the pin that is emptied held it. One lemma for each operation on a link says what it leaves behind; one for each
action that `IInv` is kept.
`ChainAlwaysAgrees` is `Spec => []ChainAgrees`: between calls the ends of a connection have one type and one allocator,
and the transform has one format on both sides. `ChainAgrees` says nothing of a call in progress; `AgreeInv` says for
each link what a connection under way may leave different (`LinkAgrees`: an end that is not connected, or the link that is
being attempted) and that the transform agrees with itself also in the midst of a call (`TransformAgrees`).
`ConnectionsAlwaysAgree` adds the types, as the run checks them.
`ConnectAlwaysAtomic` is `Spec => ConnectIsAtomic`: a Connect that fails leaves both pins and all references as it found
them, one that succeeds leaves one type and one allocator, and no call disturbs the pins of an active filter. `AtomicInv`
remembers what the call found: until the input pin accepts, its half is as it was; from then on it was free before and
its filter is stopped (`SoFar`). That the *references* are as before is not carried along: between two attempts the
output pin holds nothing, and `PointersDecide` shows that two balanced links with the same pointers are the same link.
*Rendered pin and references*, any clocks, where the callers hold the lock that the comments ask of them (`CallerLocks`,
`EndOfStreamLocks`; without it the properties fail).
`RefersAndCompletes` is `ObjectsSpec => []CompletesAndLinks`. `RenderedInv` says what `Run` and `EndOfStream` know of each
other at each of their steps: under the lock, what an `EndOfStream` has read of the state still holds when it acts, so
a running filter that has got everything has told the graph or is about to. `ClockInv` counts the references to each
clock: the application's, the filter's and the one `SetSyncSource` has taken and not yet stored. `GraphInv` says that
the graph is there while the filter notifies it.
*Enumerators and media sample*, any pins, enumerators, types and sizes, with changes of the pins that are announced or
not and memory that runs out or not.
`NothingIsLostOrLeft` is `ObjectsSpec => []NothingLostOrLeft`. `PinsInv` says that what an enumerator remembers in
`m_PinCache` is what it has handed out since its last reset, what it has got in this call and what a failed call took
along, each pin once, and that while it knows the filter's list (`PinsKnown`: its version is the filter's, no change is
waiting to be announced and none was kept from it) its count is right and every pin before its position is there or was
skipped. It holds between the two unlocked reads too, and for a clone. `TypesInv` is the same for media types, where
what is passed over without having been handed out is what there was no memory for; `SampleInv` says that the flag, the
pointer and the block of a sample's type go together, and that a sample that is not in use has none of them.
*Video transform and renderer*, any durations, times, number of frames and places of what is unusual (`At`).
`VideoIsSafe` is `ObjectsSpec => []VideoSafety`. `SkipsWhileBroken` says that a frame that others need is missing only
while the decoder is skipping, or the source has been told of a failure; `SkipFrameKeepsInv`, `DecodeKeepsInv` and
`FailKeepsInv` show that it leaves that state only at a key frame or a new start, also where frames without times are
decoded between. `DecoderInv` adds what the wait for a key frame means: while frames are awaited, `m_nWaitForKey` counts
down what the observer counts up, so that nothing can be delivered before the one is 0 or the other `KeyWait`.
`SumsInv` is what keeps the statistics from the root of a negative number: by Cauchy and Schwarz the square of a sum is
at most the sum of the squares times the number of values, and the number that were really added is one or two less
than the count of frames the code divides by (`RecordKeepsSums`, `SumsAreReal`). `PictureInv` says that `m_trLastDraw`
is no later than when the picture on the screen was drawn, or the next one will be; a drop is decided only within a
second of it. The first frame is never dropped, as `m_trRenderAvg` and `m_trDuration` are 0 until a frame was drawn.

**`Streaming_proofs`**, the threads that carry a stream.
*Worker thread*, any clients, workers and commands.
`CallIsSynchronous` is the refinement `Spec => ImplementsCall`: initial states map to initial states, and every step
is a step of `SyncCall` or a stutter. `AnswersAreOwn`, `CommandsAreKept` and `OneWorkerServes` are its safety
properties, together `ThreadIsSafe`, which is what the run checks. The invariant has one part per means of exclusion:
`LockInv` (who is between entering and leaving `m_AccessLock`), `CallInv` (at most one client has a command
outstanding), `JoinInv` (what `Close` waits for) and `ExchangeInv`, which describes the exchange phase by phase: a
request signalled (`Requested`), its event reset by the worker (`Withdrawn`), answered (`Completed`), and the object at
rest (`Quiet`, `Done`) each fix both events, where the worker is and the word that is about to be read.
`ReturnsOwnAnswer` alone is not inductive: it says nothing of a `Reply` whose client has not yet been woken.
*Stream control*, any times, samples, bounds and numbers of commands.
`ControlIsSafe` is `StreamingSpec => []ControlSafety`, `DiscardsNeverEarly` the action property `DiscardsInTime`. `Kept`
says of each cookie that it was notified as often as it must be (`Told`): once if it was given and is neither pending
nor taken back, else never; it is stated of the record that `ExecuteStart` and `ExecuteStop` change, so that
`StartKeeps` and `StopKeeps` carry it through `CheckSampleTimes` and a stop of the filter in whatever order the two take
effect, and `CommandKeepsInv` through each command. `Stated` is the same for the state a pending stop goes to. For the
second theorem the invariant says that a thread that is blocked waits for the time of its sample or for ever, so that
one that was not woken cannot be early. `TableIsFollowed` compares `CheckSampleTimes` with the table of its comment.
*Pull pin*, any ranges, duration, buffers and either kind of reader, with `Align <= 2`: a sample holds at least half of what
the reader aligns to. `SyncReadAligned` and `Request` are given whole samples one after the other (`pullpin.cpp`
349, 535), which are aligned only if a sample holds a multiple of the alignment; so the hypothesis admits every reader
the code can work with. A coarser one would be given a last sample that begins behind the end of the range, and be told
that it stops before it starts.
`PullIsSafe` is `StreamingSpec => []PullSafety`. `FlowInv` says that while the worker pulls, what was delivered, the sample
in its hand and those queued at the reader follow each other without a gap from `tStart` to `tCurrent` (`Line`, `Due`,
`Reached`): what goes to the reader is put behind (`LongerLine`) and what comes back is taken from the front
(`ShorterLine`), also where the loop runs a sample ahead (`QueueInv`). `AnswerInv` says that a worker that has answered
a command to stop has nothing queued and is on its way to rest, and so that the caller's `EndFlush`, which may end the
worker's own flush, ends it when there is nothing left to cancel: `PullSafety` alone says nothing of that moment and is
not inductive. `PoolInv` counts the samples. `ThreadInv` says that a thread has its reader and its committed allocator,
unless a `Disconnect` whose flush was refused let go of them: `Disconnect` releases after `StopThread`, and the step
between the two is where it matters.

**`Source_proofs`**, any pins, buffers and faults.
`SamplesAlwaysReleased` is `Spec => []AllPathsReleaseTheSample`: free samples, those with downstream and the one in
the worker's hands are all there are, at each step of each loop. `FramesStayInOrder` is the action property that the
numbers of filled samples follow each other. `PoolInv` adds to the first the types of the pool and which workers exist
(`HandleInv`): a sample could otherwise be lost with a worker that a failed start forgets.
`ActiveFilterStreams` is `Spec => []ActiveStreams`: between calls, each connected pin of an active filter has a worker
that was told to stream and a committed allocator. The invariant, `StreamInv`, says what each step of a call goes by
(`StepInv`), that only the pin a call is at has a command under way (`CallInv`), which pins a `Pause` has started so far
and which a `Stop` has not reached yet (`StartInv`, `StopInv`), and that the rest stream (`ActiveInv`).
`StopIsQuiet` and `SourceIsFrameSource` need an assumption on the constants, `StartsAllOrNothing`: `OnThreadCreate` does
not fail, and there is one pin or nothing fails. The repository's own filter is of this kind (one pin, and no hook of
its own). Without it they are false, as `ToldToExit` above shows: a `Pause` that fails at the second
pin leaves the first pin's worker behind, in a filter that says it is stopped. With it, `QuietInv` says that a worker
exists only from the pin a call has reached, which gives `StoppedIsQuiet` and `ToldToExit`; then every step is
one of `FrameSource` or a stutter.

**`Ends_proofs`**, the two ends of a graph that `MC_Ends` puts side by side.
*Sources.* `OwnIsFrameSource` states the refinement of `FrameSource` of the run's own specification, in which the source
is the repository's filter or any other. `SourcesAreSafe` is `StartsAllOrNothing => (EndsSpec => []SourceSafety)`. Of the
own source it follows from the theorems above, of the others from the same theorems for their constants: `Others`
instantiates `Source_proofs` with them, and `OthersBehave` shows, action by action, that it is the source that `MC_Ends`
means by `Any`. `StartsAllOrNothing` is about the own source alone; `Any` may fail anywhere.
*Renderer*, any faults and number of advises.
`RendererIsSafe` is `EndsSpec => []RendererSafety` and `NothingIsOvertaken` is `EndsSpec => CompleteIsLast`. Neither
is inductive. `OnceInv` says that a renderer that has sent EC_COMPLETE remembers it in `m_bEOSDelivered` until a `Stop`
begins to reset; `TimerInv` that the timer runs only when the end has come and no sample is in front of it; `ShowInv`
who may still answer "intermediate" (a paused renderer with nothing to show, or one whose streaming thread is about to
say that it has); and `FlushInv` that `BeginFlush` has thrown the sample away.

**`OutputQueue_proofs`**, any modes, calls, faults and bounds.
`WorkerIsNeverForgotten` is `Spec => []WorkerNotForgotten`: a worker blocked on its semaphore has announced its wait and
left no packet and no complete batch. In its invariant, `WakeInv`, `WaitInv` says that the announcement and the count of
the semaphore are one between them while the worker waits and none otherwise; `EntriesInv` what is on the list while it
waits and what a call brings; `DirectInv` that only a queue without a worker fills a batch on the caller's thread.
`QueueKeeps` is the core: whoever extends the list either turns the announcement into a count or has compared the list
with the batch size.
`SamplesStayInLine` is `Spec => [](TypeOK /\ SamplesInLine)`, with no condition on the modes: no sample is lost, repeated,
overtaken or released twice. Its invariant, `OwnInv`, does not look at the line as a whole but at the *sets* of samples in its
four places (taken out by the worker, in the batch, on the list, still with the call): each set is before the next,
each sequence is in order, a release is owed for exactly their union, and what is not on its way is behind the latest
sample received (`Held`). One lemma for each way samples move says that they move forward together or leave
(`HeldMoves`): `GetBatch` and `GetLast` take the front of the list (`FirstEnd`: the first entry that ends a batch cannot
make it too large), `FillBatch` the front of a call, `FreeSamples` all of the middle, and a batch that was received in
part was the front of the line. They rest on what `SamplesOf` returns (`SamplesOfIsTheSamples`). The model writes it
with a count of the samples so far, and not with `SelectSeq`, which the provers cannot unfold.
`QueueIsSafe` is `UsedWell(Modes) => (Spec => []QueueSafety)`. `FlushLeavesNothing` is not inductive: that `EndFlush` may
go on depends on what the event it waited for means. `FlushInv` says that during a flush `m_hr` refuses samples and, once
the event is set, nothing is left that belongs to an era (`Cleared`), since what a late call may still queue are packets
of no era (`StreamBrings`); `ResetInv` that the packet of `Reset` is last in the list, and gone when `Reset` returns;
and `EventInv`, the only part that needs `UsedWell`, that the event is set only for a `Reset` in progress or by a worker
that rests until the flush is over. `FreshInv` is the goal, for the list and for calls under way too.

**`Control_proofs`**, the four components side by side in `MC_Control`, and the clock that tells them when.
*Dynamic pin*, any applications, media types and numbers of calls.
`PinIsSafe` is `PinInit /\ [][PinNext]_pinVars => []PinSafety`: what `AssertValid` asserts holds at every step, a blocked
pin is not in use, and a change of type that succeeded is one of both pins. The only assumption (`NobodyIsZero`) is that
no thread is 0, which the code uses for "no caller". The invariant has three parts: `BlockInv` ties the state of the block to its
caller and to both events, `UseInv` the number of users to where the streaming thread is (a blocked pin has none, a
pending block has one who will complete it), and `TypesInv` says how far a change of type has come at each of its
stages. `PinSafety` alone is not inductive: it says nothing of `m_dwNumOutstandingOutputPinUsers`, which decides
whether `Block` completes at once.
*Seeking*, any threads, positions, rates and failures.
`SeekIsSafe` is `SeekInit /\ [][SeekNext]_seekVars => []SeekSafety`. For each part of what is stored `ToldInv` says that it
is in effect, that its last change failed, or that some thread still has it on its list; a seek that changes a part
puts it on the list in the same step, and `ChangeKeepsInv` shows that the head of a list can be taken off because what
is handed over is what is stored *now*, not what the seek stored. `TimeInv` says that a time the renderer has was
registered since the last reset: `EndOfStream` reads `m_bReset` outside the lock, but never clears it.
*Deferred commands*, any commands, times, offsets and numbers of calls.
`CommandsAreSafe` is `Spec => []CmdSafety`. `ListInv` says that each list is in order of time, has no command twice and only
commands of its own kind; `PostponeInv` that a command whose owner is in the midst of `Postpone` is on neither, so that
its time can be changed without disturbing an order; `RanInv` that a command that was executed has lost its queue or is
about to, so that `Invoke` does nothing the second time; and `AdviseInv` that `m_tCurrentAdvise` is the earliest command's
time. `CmdSafety` is not inductive: it says nothing of a command that has been fetched and may still be cancelled.
`SortedIsList` and `WithoutIsList` say what putting a command in line and taking it out leave, `AdviseIsRight` that
`SetTimeAdvise` remembers the right time also when it does not ask the clock again.
*In-place transform*, any number of calls, and the sources and sinks `MC_Control` defines; of these the proof uses only
that a source has an allocator of its own, a size it needs and at least one type, and a sink at least one type (`SourcesAre`, `SinksAre`).
`ChainIsSafe` is `Spec => []TipSafety`. The argument is that nothing has to be remembered about the far side: a
connection of the output always asks for the input again, so while both sides are connected and no such request is
pending, the last thing that decided was the source's choice, and `Decided` shows that a choice that succeeds settles
the chain from *whatever* the output's side was before (`Settled`: one allocator at the ends of each connection, two
different ones exactly where a filter that modifies has a read-only input, and buffers of the size the source needs on
both sides). `Notified` is its core, by the three ways through `NotifyAllocator`; `OutputDecided` says that the choice
of the output leaves the input's side alone. `TipSafety` is not inductive: `ChainSettles` says nothing while a
reconnection is pending, and nothing of the sizes of the buffers, without which a copy could lose a sample.
*Reference clock*, any clients, periods, times, drifts and numbers of calls. The assumption `ClockAssumption` says
that the numbers are numbers and that no client is called `"thread"` or `"none"`, the two other holders of the lock.
`ClockIsSafe` is `ClockSpec => []Safety` and `NeverOversleeps` is `ClockSpec => []NeverLate`. `Books` says that list, cookies and signals
agree: the list is in order of time and has one packet for each client that has an advise outstanding (`ScheduleInv`), under
the cookie that the client holds, below the next one (`CookieInv`). `LockInv` says who holds the lock at each step, `SpinInv` that the time
it works from is that of its last look, so that a wait that is rounded up ends later, and `Timely` how the thread comes to sleep no longer than it may: awake it has yet to look at the list (`AwakeInv`); asleep, it
has a packet added before the head still to be announced, its event set, or an end of its sleep that is not later than
the head's time by more than the corrections of the clock it was not woken for (`AsleepInv`). `ClockTimeInv` says that no time
told or worked from is ahead of the clock. `NeverLate` is not inductive: it says nothing while a client is in the midst of an insertion, and between
the thread's looking at the list and its going to sleep.
`ClockKeepsItsPromise` is the refinement `ClockSpec => KeepsItsPromise`: an insertion is `AlarmService`'s *Ask*, a removal its
*Cancel*, a firing its *Ring* and every step of the clock its *Advance*; the rest are stutters. The proofs rest on a few lemmas about
sequences: what `InsertAt` and `RemoveAt` leave where (`InsertAtProperties`, `RemoveAtProperties`), and that in a list in
order the packets before a time are the first so many (`BeforeSplits`, from `PrefixCount`: a set of positions closed
downwards is an initial segment).

## What is not shown

* Liveness (`WaitersGetOut`, `CallsReturn`, `SourceCallsReturn`, `NobodyIsStuck`, `RendererAnswers`, `Served`,
  `EveryoneReturns`, `NobodyWaitsForever`) is checked by TLC on the instances above and not proved, as temporal proofs
  under fairness are out of the prover's reach. Every invariant and every action property of the passing runs, and
  every refinement, is stated by a theorem; what `SourceSafety` says of the own source, `FrameSource` included, is
  proved where `StartsAllOrNothing` holds, and is not true of other filters.
* Counters that grow without bound are cut: frames modulo `CountMod`, flushes and samples of the queue by `MaxFlushes`
  and `MaxSamples`, the clock by `MaxSys`, cookies and corrections, calls and commands by `MaxCalls`, `MaxCommands`,
  `MaxPinCalls`, `MaxSeeks` and `MaxGraphCalls`. Overflow of the integers that hold them is out of reach.
* The contents of samples, of pictures and of media types.
* Windows' part: events, semaphores, timers and critical sections are modelled as their documentation describes, and
  `new` throws instead of returning NULL, as the build files fix (in `BaseList`, `PinConnection` and `TypeEnum`, whose
  code tests for NULL, it may answer NULL).

## Not modelled

| Part | Why not |
|---|---|
| Rows copied by `CFlipFilter`, file written by `CMyFilter` | no protocol depends on the bytes; the two filters are instances of `TransformFilter` and `PinConnection` |
| Dynamic type change while streaming in `CTransInPlaceFilter` (`transip.cpp`) | the branch needs a downstream allocator that attaches types to samples, which nothing here has |
| `CDynamicOutputPin::DynamicReconnect` | hands over to the graph's `IGraphConfig`, which is not in the repository |
| `CMsgThread`, `CQueue` (`wxutil.cpp`, `msgthrd.h`) | bounded queue over two semaphores, used by nothing here |
| `CSystemClock` (`sysclock.cpp`) | hands its calls on to the reference clock |
| Media types (`mtype.cpp`), formats, `amvideo.cpp` | data; `PinConnection` needs only whether types match |
| COM base, class factory, registration (`combase.cpp`, `dllentry.cpp`, `dllsetup.cpp`) | counts are modelled where they matter; the rest is the operating system's |
| Automation (`CBaseDispatch`, `CMediaControl`, ...) | translation of calls |
| Windows and video controls (`winutil.cpp`, `winctrl.cpp`, `videoctl.cpp`, `cprop.cpp`) | user interface over external calls |
| Persistence, 64-bit arithmetic, caches of `cache.h`, diagnostics, build files | pure I/O, arithmetic beyond TLC's integers, not instantiated, or without effect on behaviour |

## Plan

What the next extensions would be, most valuable first:

1. The dynamic type change of `CTransInPlaceFilter`, with a downstream pin that attaches types to samples.
2. `CQueue` and `CMsgThread`.
3. A composition of `SourceFilter`, `TransformFilter` and `Renderer` with the real calls between them, in which the
   blocking of one is the slowness of the next.
