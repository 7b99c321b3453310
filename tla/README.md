# Verification of the Intel Device Service for Chromium

The repository holds proofs of concept around Chromium. The largest,
`inteldeviceservice`, is a branch of Chromium 110 in which the renderers report
the load of their threads and the browser regulates the frequency of the
processor (or the power throttling of its renderer processes) by it. These
modules specify that service. Everything is translated from the source; paths
below are relative to `inteldeviceservice/dst/src` unless they start with `src/`.

## The system

### Inventory

| component | state | operations | what makes it correct |
|---|---|---|---|
| `frequencyLimiter` (`services/device/device_service/frequencylimiter.*`) | gear 0..100, remembered AC/DC frequency, measured maximum; the limits in the power scheme of the system | constructor, destructor, `GearDown(n)`, `GearUp(n)` | the applied limits follow the gear; no limit starves the machine, whatever writes fail and whenever the process dies; no unsigned subtraction wraps into a harmful limit |
| `DeviceServiceProviderImpl` (`device_service_provider_impl.*`) and the Windows platform provider | window start and peak, `isEco`, receivers, clients, listening file | `Bind`, disconnect handler, `AddListenerAndGetCurrentService`, `SubmitTaskCapacityHint`, `OnDeviceServiceChanged` | each window is decided by the peak of the accepted hints; only old hints are dropped; throttled processes are known; the platform listens while it has a receiver |
| `DeviceCapacity` (`third_party/blink/renderer/platform/scheduler/common/device_capacity.*`), one per thread | smoothed load, idle count, last tick and thread | `SetCapacity`, getters | the hints follow the load; idle threads are quiet but not silent |
| `ThreadLoadTracker` (`thread_load_tracker.*`) | time, window, run time, active or paused | `Pause`, `Resume`, `Reset`, `RecordTaskTime`, `RecordIdle` | run time is exact, every interval is reported once |
| `DeviceService` (`third_party/blink/renderer/modules/device_service`) and `LocalFrameMojoHandler::OnServiceChanged` | bound pipes, service value | `type()`, `onchange`, media queries, `OnServiceChanged` | a page knows the current service |
| `FakeDeviceServiceProvider` and the browser test | current service, clients | `SetCurrentServiceForTesting` | notifies every listener |
| `services/device/device_service.cc` | the provider, created lazily | `BindDeviceServiceProvider` | one provider for all receivers |
| media feature `device-service` (`core/css/media_*`) | none | parse, evaluate | not modelled |
| `RenderProcessHostImpl` (`content/browser/renderer_host/render_process_host_impl.cc`) | per host: launcher, channel and its queue, reference counts, listeners, clean-up flags, process lock; priority and its inputs; for all hosts: registry, spare, trackers of sites, limit | `Init`, `OnProcessLaunched`, `OnChannelConnected`, `ProcessDied`, `FastShutdownIfPossible`, `DelayProcessShutdown`, `Cleanup`; `UpdateProcessPriority`; `GetProcessHostForSiteInstance` and the spare's operations | nothing that was sent is lost or runs unprepared; no host leaks or comes back; the system agrees with the priority; no site gets a process that is locked to another one |
| `ChromeBrowserMainParts` (`chrome/browser/chrome_browser_main.*`) | stage, singleton, profiles initialised, IPF connection | the stages of start and end with their early returns | only the owner of the singleton has profiles; each profile is initialised once; IPF is disconnected by whoever connected it |
| the setting of the service: `about_flags.cc`, the switch, `browser_interface_binders.cc` and every reader of `--device-service` | stored choice, switches of the processes, what each reader made of it | store, start, launch, bind | all readers of a session agree |
| `content/child/runtime_features.cc` | the features of a renderer | `SetRuntimeFeaturesDefaultsAndUpdateFromArgs` | the settings that are to prevail do, whatever the order of the calls |
| `local_frame.*` | - | `GetDeviceService`, which forwards | not modelled |
| the tables `flag_descriptions.*`, `content_features.cc`, `*.json5`, `flag-metadata.json` and the entries of `about_flags.cc` | constants | - | not modelled: they have no behaviour |
| `src/freqreg` | an earlier copy of the limiter and a tool that prints what it does | - | not modelled |
| `src/dllloaddll`, `src/hwywasmenv`, `src/multi_video`, `src/icx`, build files | - | demonstrations and build descriptions | not modelled |

### How the parts interact

    thread                renderer process            |  browser process
    RecordTaskTime                                    |
      -> ThreadLoadTracker::Advance                   |
           -> DeviceCapacity::SetCapacity(load) --hint (mojo pipe per thread)--> DeviceServiceProviderImpl
                                                      |       -> frequencyLimiter::GearUp/GearDown -> power scheme
                                                      |       -> setEcoQos/setHighQos(process)
    page: navigator.deviceService, media queries <--reply, OnServiceChanged--/

Each renderer thread has its own pipe, so hints of different threads arrive in
any order, and carry `GetTickCount()` of their sender. The provider lives on one
sequence: its handlers do not interleave, and the limiter is called inside them.
The power scheme belongs to the system and outlives every process.

Around it, the browser process is started with `--device-service` by
chrome://flags or a command line (`ChromeBrowserMainParts`), connects to IPF if
that is the setting, and hands the switch to each renderer that a
`RenderProcessHostImpl` launches. A renderer sets its Blink features from its
command line (`runtime_features.cc`), its threads read the switch when their
load tracker is created, and its pages and threads reach the provider through
two binders, of which only the frame's looks at the setting.

### What is hard here

* hints of many threads share one window, one peak and one `isEco`;
* hints arrive late, and ticks wrap after 49.7 days;
* writes to the power scheme fail without anybody noticing, and a crash leaves
  limits behind;
* every process that loads the code writes the one power scheme, by up to six calls in a
  row and without a lock;
* members are used uninitialised (`last_capacity_`, all of `DeviceCapacity`);
* unsigned arithmetic at the floor and at an unmeasured frequency of 0;
* idle threads report rarely, so convergence depends on counters that nobody resets;
* a reply and a notification that use two pipes;
* a host that outlives its process: launches, deaths, clean-ups and callbacks in
  any order, with members that belong to the dead process;
* trackers and a spare that name hosts by id and are cleared by hand;
* early returns from a dozen stages of start-up, and two processes on one user
  data directory;
* one setting that many processes read at different times.

`PROJECT.json` lists each of these at its line ("hazards") with the properties
that watch it.

## The modules

| module | models | state and actions |
|---|---|---|
| `PowerScheme` | the active power scheme of the system, as `SetCoreMaxFrequency` writes it | `power`, the stored and the applied values; `isHybrid`; `faulty`, whether system calls may fail on this machine. `SetCoreMaxFrequency` and `SetLimits` return the set of schemes that a sequence of calls of one process can leave behind when each of them may fail and nobody else writes. |
| `FrequencyLimiter` | `frequencylimiter.{h,cc}`, the object of the process that regulates | `gear`, `ac`, `dc`, `maxFrequency` are the members; `Construct`, `GearDown` (step, bottom, ignored), `GearUp` (step, top, ignored), `Destroy`, `Crash`. A handler is one step. History: whether `GearUp` ever stopped below the top (`stepped`). |
| `SharedPowerScheme` | the objects of all processes that load the code (`device_service_provider_impl.cc:14`) on one power scheme | one action per call of the Windows API (`PowerWriteACValueIndex`, `PowerWriteDCValueIndex`, `PowerSetActiveScheme`, `CallFails`), so that the calls of several processes interleave; `BeginConstruct`, `BeginShift`, `BeginDestroy` start a sequence, `Killed` ends one anywhere. What a shift asks for is one of `GearLimits`. History: who wrote each value (`by`), and what the scheme was when a sequence began that nobody else has written into (`before`). |
| `FrequencyLimiterProofs` | theorems about these | |
| `DeviceServiceProvider` | `device_service_provider_impl.{h,cc}`, the Windows platform provider, the lazy creation in `device_service.cc` | one action per message: `Bind`, `OnReceiverConnectionError`, `AddListenerAndGetCurrentService`, `ClientDisconnected`, `SubmitTaskCapacityHint` (reject, accumulate, close the window); processes start and exit |
| `DeviceServiceProviderProofs` | theorems about it | |
| `CapacityWeight` | the smoothing of `SetCapacity` | an operator: the averages that rounding may give; used by the next and by `ThreadLoadTracker` |
| `DeviceCapacity` | `device_capacity.{h,cc}` | `SetCapacity` in its two outcomes, a sample and a sample lost because of the tick; the clock |
| `DeviceCapacityProofs` | theorems about it | |
| `ThreadLoadTracker` | `thread_load_tracker.{h,cc}` | a call queues what `Advance` is asked for; `Iterate` is one turn of its loop, `SetStateAndReset` the end of `Pause` and `Resume`; `Reset` |
| `ThreadLoadTrackerProofs` | theorems about it | |
| `CapacityPipeline` | the way from load to frequency | composes `DeviceCapacity`, `DeviceServiceProvider` and `FrequencyLimiter` by INSTANCE, with a pipe per thread and a clock |
| `Governor` | what the device service promises about frequency | an abstract specification that `CapacityPipeline` implements: one level and its limits, one peak; `Hear`, `Decide`, `Start`, `Serve`, `Age` |
| `CapacityPipelineProofs` | theorems about the pipeline, and that it implements `Governor` and `FrequencyLimiter` | |
| `DeviceServiceClient` | `device_service.cc` of Blink, `local_frame_mojo_handler.cc`, the fake provider | connection, reply and notifications on two pipes |
| `DeviceServiceClientProofs` | theorems about it | |
| `RenderProcessHost` | the life of one host | `host` (members), `renderer` (what the process was told); one action per call, a handler is one step but `ProcessDied`, whose observers call back before `ProcessDiedReturns` |
| `RenderProcessPriority` | the priority of its process | widgets, streams, workers, pending views, override; each event ends in `UpdateProcessPriority`, as in the code |
| `RenderProcessHostProofs` | theorems about the host and its priority | |
| `RenderProcessAllocation` | which host a site gets | the registry with all hosts, the spare, the trackers and the limit; `GetProcessHostForSiteInstance` split by the branch it returns from |
| `BrowserMain` | `chrome_browser_main.*` | several processes on one user data directory; one action per stage and per early return, and a crash anywhere |
| `DeviceServiceSetting` | `--device-service` from chrome://flags to its readers | store a choice, start and end the browser, launch renderers, create trackers, bind by either way |
| `RuntimeFeatures` | `runtime_features.cc` | `SetRuntimeFeaturesDefaultsAndUpdateFromArgs` call by call, for every choice of switches and `base::Feature`s |
| `BrowserProcessProofs` | theorems about the allocation, the start, the setting and the features, and about the parts together | |
| `MC...` | instances for TLC; `MCRenderer` joins the three modules of a renderer, `MCBrowserProcess` the six of the browser process, each part for itself | |

Conventions. A handler takes what it calls as a parameter (`actuation`, `hint`), so
that the composed module can pass it on in the same step. Variables named as
history exist only for the properties and are written only by `Next`-level
actions. An operator marked `mutant` is what a plausible mistake would have made
of the definition after it; it is used by nothing.

### Abstractions

* Frequencies are integers; the binary32 product in `GearDown`/`GearUp` is the
  constant `Scaled`, at most one below the exact quotient. The MC module gives
  it the values that binary32 arithmetic yields, exceptions included.
* A float load is an integer percentage of `Scale`; smoothing allows every integer
  that rounding may give. A NaN is a value of its own. Infinities are not modelled:
  they stay in their band as a NaN stays in Idle.
* `CalculateFrequency` is a choice of a frequency or 0 (failure).
* `GearDown` and `GearUp` take `int32_t`. A negative count would pass their tests
  (`frequencylimiter.cc:327`, `390`) and move the gear the other way; the service passes 10
  and 100 only, and the modules take counts to be natural numbers
  (`ConstantAssumption`).
* `FrequencyLimiter` takes the up to six `Power*` calls of a constructor, a shift or a
  destructor as one step, which is right only as long as no other process writes between
  them. That each sequence without such a write ends in one of the outcomes of that step is
  proved of `SharedPowerScheme` (`AloneIsAtomic`), and what holds otherwise is
  `LimitsHaveOwners` there. So `AppliedIsIntended`, `NeverStarved`, `StepsKeepLimits` and the
  whole of `CapacityPipeline` are about a machine on which one process loads the code. In
  `SharedPowerScheme` the values are data, not computed by a gear.
* Only differences of ticks matter, so `CapacityPipeline` ages them relative to now
  and everything older than `Horizon` is alike. This leaves out the wrap of the
  tick count, which `DeviceServiceProvider` covers.
* `DeviceServiceClient` starts from a binder that binds. In a session with the service disabled the
  binder of a frame drops the pipe instead (`browser_interface_binders.cc:584-587`), the
  connection is closed and the value stays what it was; that choice is
  `BindFromFrame` of `DeviceServiceSetting`, and `ConnectionIsAnswered` is about sessions in
  which the provider is bound.
* Windows' throttling of a process is the set `throttled`; setting it on a process
  that is gone has no effect.
* The IPF branch is left out: `ENABLE_IPF` is off by default, and with it
  `device_service_provider_impl.cc:140-142` has an `else` without an `if`.

* Renderers run in processes of their own (`run_renderer_in_process()` is false),
  `ShouldAllowNoLongerUsedProcessToExit` answers true, and the platform is Windows or
  another desktop: Android's importance is left out of the priority.
* In `RenderProcessHost` observers that are told of a death may call any method of the
  host, in any number and order, `Init` and `FastShutdownIfPossible` included. Tasks that are
  posted or come from a pipe (launches and their failures, the connection, channel errors, the end of
  a delay) wait until `ProcessDied` returns: no observer runs a nested loop. A fast shutdown from
  within `ProcessDied` fails its DCHECK (finding 6), where a build with DCHECKs stops, and so does the
  model: nothing is said of a build without DCHECKs after that point.
* `RenderProcessAllocation` has process locks by site with one home (partition and
  guest) per site; `content::BrowserMainLoop`, the singleton and the profile manager, which
  are not in the repository, are modelled from how `chrome_browser_main.cc` uses them.
* `RuntimeFeatures` has one feature of each treatment of the tables of
  `runtime_features.cc`; features of single platforms, scrollbars, FedCM and private
  state tokens, which repeat these treatments, are left out.

## What the runs check

| run | instance | shows |
|---|---|---|
| `limiter` | five settings (below) | `AppliedIsIntended`, `NeverStarved`, `StepsKeepLimits` of one object; `SharedSchemeSettles` of those of several processes |
| `provider` | 2 receivers, 2 processes, 1 client, three services | `OverloadNeverLost`, `PeakOfWindow`, `RejectedOnlyPast`, `IdleAloneNeverThrottles`, `ListeningMatchesReceivers` |
| `provider_qos_shared` | 2 processes, qos | violation: a process stays throttled while `isEco` is false |
| `provider_tick_wrap` | ticks that wrap | violation: new hints are rejected as past |
| `renderer` | three parts (below) | of a thread's hints `SilenceBounded`, `LastHintIsBand`, `ReactsToLoad`; of the tracker with the service off `RunTimeExact`, `AdvanceChecksHold`, `ReportsEveryInterval`, `ReportIsWindowAverage`; of a page `OnlyReplyIsStale`, `LastNoticeIsCurrent` and, under fairness, `ConnectionIsAnswered` |
| `pipeline` | 2 threads, the whole way to the limiter | `RejectedOnlyOvertaken` and, under fairness, `LoadSettles` (lasting idleness reaches the floor, lasting overload no limit) and `AcceptedOverloadReleases`; `GovernsAsPromised`, the refinement of `Governor` |
| `tracker_weighted` | the service on | violation: the reported load is not the average |
| `client_test` | one navigator, one frame | violation: an old reply overwrites the new service |
| `browser` | six parts (below) | `TypesOK` of all; `ChecksHold` of the host, its priority and the allocation; of the host `PagesRunInitialised`, `ReadyWhenBoth`, `NoLeak`, `DestroyedIsLast`, `NothingQueuedIsLost`; of the priority `PriorityIsWanted`, `ProcessAgrees`; of the allocation `LocksFit`, `SpareWithinLimit`, `TrackedExist`; of the start `EveryProfileInitialisedOnce`, `ProfilesOnlyOfOwner`, `IpfBalanced`; `OneSettingPerSession`; `SettingsPrevail` |
| `shutdown_delay` | one host and its processes | violation: a process is kept without an end to come |
| `reentry` | the same | violation: a fast shutdown enters `ProcessDied` while observers are told of a death |
| `features_unsupported` | one setting | violation: a feature stays on whose larger API, or support by the browser process, is off |

`limiter` chooses one of five settings at the start. The first three are about the one
object that regulates, with the values it computes. In "failing" every write and the
measurement may fail: no mixture is harmful, and a lost release is not retried. In
"service" the counts of the service are used and writes succeed: the scheme agrees with the
object and is a function of the gear, also after a crash and a restart. In "api" any
counts are used: nothing wraps. Shifting down raises limits only to the floor in all of
them. The other two are about the objects of several processes call by call: "shared" has
two processes on machines whose writes succeed (with E cores and without) and on one without
E cores whose calls may fail, "lossy" one process on a hybrid machine whose calls may fail.
They show both halves of `SharedSchemeSettles`: once no process is in the middle of a
sequence and no write can have failed, each of the four applied values is what
the process that wrote it asked for last, and 0 if that process has destroyed its
object (`LimitsHaveOwners`); a sequence that nobody else wrote into has one of the outcomes
of `SetLimits` (`AloneIsAtomic`). They also show what does not hold: the applied scheme may
be a mixture that no process asked for, P cores released by one and E cores limited by
another, or an AC limit without its DC limit, and stays so until the next sequence.

`renderer` chooses one of three parts, the modules `DeviceCapacity`, `ThreadLoadTracker` and
`DeviceServiceClient`, and leaves the others as they began; they have no state in common in
the models, so that the run is the sum of three. The pages may stop once everything is
answered, which the stutter `NothingComes` allows; any other deadlock would be reported.

`browser` chooses one of six parts and leaves the others as they began: `host`,
`priority`, `allocation`, `main`, `setting` and `features` are the modules above. They
have no state in common in the models (the code's are joined by calls whose results
the models leave free), so the run is the sum of six.

### Bounds and why they are enough

* `limiter`: 1500 is the lowest frequency that the code can measure (`ADL_TURBO` is
  added), 4400 the highest common one; gears change by the counts the service uses.
  "failing" uses steps of 30, which still take a machine through a gear above the
  floor, one at it and the bottom. The scheme holds at first one of `StoredLimits`. In
  "shared" two processes can each come between any two calls of the other, and a shift
  asks for the limits of one of two gears or none, so that a value tells who wrote it and
  when; a third process could only disturb in the same way. A sequence on a hybrid machine
  is six calls, on another three: failures are combined with interference on the short one and
  with the long one alone. The theorems have none of these bounds.
* `provider`: an interval of one tick and times 0..4 give two complete windows, in and
  out of order, with hints inside them. Receivers are symmetric. Garbage is taken
  below, inside and above the enumeration.
* `renderer`, capacity: thresholds and decay are those of the code in percent; the garbage in
  `weighted_capacity_` is a NaN, a load, or five times the highest load. The idle period is 4
  and the word 8: only that the one divides the other matters, and the theorem
  has the period as a parameter. Only "the same tick or another" matters to one object.
* `pipeline`: no smoothing (a decay of 100 per cent), so that each sample may be in any
  band; period 2, a delay of one tick, windows of one tick: a hint can be overtaken
  by one that closes the window and can be overtaken twice. A machine with E cores and
  one without, whose floor is four steps down; the theorems have no bound.
* `renderer`, tracker: two whole windows and parts of two more; every start and end of a task.
* `renderer`, client: one navigator, one frame and three changes, so that two notifications and a reply can be on their way.
* `browser`, host: two frames, two references of each kind and three queued messages:
  one of each to be dropped while the other keeps the host, and an introduction, a
  lock and a page in the queue. `shutdown_delay` and `reentry` use a host with one of each.
* `browser`, priority: two widgets (a hidden and a visible one in either order of
  address) and one of every other cause; the theorem has no bound.
* `browser`, allocation: four hosts for two instances, a site that needs its own
  process and a URL without one, one delay, a limit of up to two: enough for a spare,
  a mismatch, a process over the limit and one with a pending navigation. Instances
  are symmetric.
* `browser`, main: two processes and two profiles, an initial and another one;
  setting: two renderers; both have theorems without bounds. Features: all
  combinations of at most three switches and enabled or disabled features, since a
  rule relates at most three sources.

### Fairness

Only `CapacityPipeline` and `DeviceServiceClient` (in `MCRenderer` the fairness of its part) assume
any, all of it weak; the properties of the other modules are safety.
A message pipe delivers what was sent while its ends live (`Connect`, `Deliver`,
`AddListener...`, `ReceiveReply`, `ReceiveNotice`); the clock ticks; a renderer thread
keeps sampling, which its loop does at every task or reporting interval. No order
between pipes and no load is assumed. Pages are free to disconnect and services
free never to change.

## What is proved

tlapm checks these for all values of the constants that satisfy the assumptions
of the modules; the runs above evaluate those assumptions. Every invariant and every
action property that a passing run checks has a theorem.

* `FrequencyLimiterProofs`, for any counts, measured frequencies and roundings of the scaling
  (`ScaledAssumption`), failing writes included.
  * `TypeCorrect`: the gear stays in 0..100 and all numbers in uint32.
  * `LimiterInv` adds `MembersFollow` (what the gear, the frequencies and the measurement
    say of each other: the frequencies are not a function of the gear, as `GearDownBottom`
    reuses the last one and `DcAfterUp` may keep one) and `SchemeFollows` (what the scheme
    says of the members where writes succeed). From it follow
    `PolicyAsIntended` (`AppliedIsIntended`) and the
    action property `LimitsKeptByEveryStep` (`StepsKeepLimits`), whose case of a failed
    release needs no invariant of the scheme but that of the members.
  * `LimitsNeverStarve` (`NeverStarved`): soundness is a property of each value in the
    scheme, and so of every mixture that failed writes can leave (`SetCoreSound`,
    `SetLimitsSound`); `MembersFollow` says that what is written next is sound. Assumed of
    the first contents of the scheme is only that they do not starve the machine.
  * `SharedSchemeSettlesAlways` (`SharedSchemeSettles`), for any number of processes, any limits
    they ask for, and kills and failures between any two calls, from `SharedInv`. `Accounted`
    says of each value, stored or applied, that it is what its writer asked for last
    or that the writer is still in the sequence that will write it again; `Undisturbed`
    says how far along the outcomes of `SetLimits` the scheme is while a process that nobody
    disturbed is in its sequence.
* `DeviceServiceProviderProofs`, for any number of receivers, clients and processes, any
  window and any garbage. `HintOutcomes` reduces a hint to three relations (`Rejected`,
  `Accumulated`, `Closed`); every theorem goes over these and the other steps.
  * `ListensWhileBound`: `ListeningMatchesReceivers`, inductive as it stands.
  * `PeakIsMaximum` (`PeakOfWindow`) and `OverloadReleases` (`OverloadNeverLost`) from `PeakInv`:
    `last_capacity_` is in the window and an upper bound of it, and nothing was decided
    before the provider was created (`NothingBeforeCreation`; otherwise the garbage of
    the constructor would replace a peak).
  * `IdleSparesProcesses` (`IdleAloneNeverThrottles`) from `UnderBefore`, which adds that `isEco`
    itself goes back to a window at Under.
  * `RejectionsAreLate` (`RejectedOnlyPast`) from `UpdateIsReal`, assuming that ticks do not wrap;
    `provider_tick_wrap` shows what happens without that assumption.
* `DeviceCapacityProofs`, for any period that divides the word (64 and 2^32 in the code), any
  loads and any rounding `Weighed` allows.
  * `NeverSilentForLong` (`SilenceBounded`) from `SilenceCounted`: a thread was silent for
    less samples than `idle_count_` is past a multiple of the period. That the period
    divides the word enters through `NextRemainder`, when the counter wraps.
  * `HintsFollowLoad` (`LastHintIsBand`): what was sent last is known by `HintKnown`, and that a
    NaN, which never goes away, only ever reports idleness by `NaNKnown`.
  * `LoadIsFollowed` (`ReactsToLoad`), with the code's `kWeightDecay` of 0.15 and `Scale` at least
    100, that is for floats that tell hundredths apart. `SteadyInv` bounds, for each number of samples,
    what is left of the earlier weight (`Left`, a table of the powers of 0.85 rounded
    up) and what has come of the new load (`Gained`), with all that rounding may add, which
    is less than six units of `Scale`.
    The property is about weights that were loads when the load set in: garbage of any
    size fades by the same powers, but no number of samples suffices for all of it.
* `CapacityPipelineProofs`, for any number of threads, any loads, delays and windows.
  * `OnlyOvertakenAreLost` (`RejectedOnlyOvertaken`) from `PipesInv`: ticks do not fall along a
    pipe, and in the pipe of the thread that closed the last window none is before it.
    The lemmas say what appending, delivering and aging do to such a pipe.
  * `HintsDriveTheLimiter`: a refinement. Every step of the way is a step of `FrequencyLimiter` on a
    machine where writes succeed, or leaves the limiter alone.
  * `HintsKeepThePolicy` therefore takes over `PolicyAsIntended` and `LimitsNeverStarve`: hints of any
    threads, in any order, leave the machine at what the gear stands for and not below the
    floor. Its hypotheses are the assumptions of `FrequencyLimiter` about its constants.
  * `ServiceGoverns` (`GovernsAsPromised`): the other refinement, upwards. The mapping takes the gear
    for the level, `last_capacity_` for the peak, the applied scheme for the limits and
    the distance to `last_update_` for the age of the last decision. `Governing` says that the
    level alone decides what the object remembers and the scheme holds, although
    `GearDownBottom` reuses the last frequency and `GearDown` looks at the AC frequency and
    not at the gear (`UpToTop`, `DownByStep`); `Timely` bounds the age of hints. `StepGoverns` maps each
    step to a step of `Governor` or to none. Assumed is that the frequency of the machine
    was measured (`Measured`): without it the limits wrap (see `NeverStarved`).
* `ThreadLoadTrackerProofs`, for any interval and any length of the time line.
  `TrackerInv` says, for each shape the queue of pending `Advance` calls can have, what of the
  time ahead was recorded as task time (`Ahead`); with it `WindowGrows` shows that one turn
  of the loop adds to the run time as much as to the window. From it follow
  `RunTimeIsExact`, `AdvanceNeverFails`, `IntervalsReported`, `TrackerTypeCorrect` and, with the
  service off, `ReportsAverage`.
* `DeviceServiceClientProofs`, for any sets of objects, services and changes: `NoticesAreCurrent`
  (`LastNoticeIsCurrent`) and, if the feature is enabled, `StaleByReplyOnly` (`OnlyReplyIsStale`), from
  `ClientInv`: where an object stands with the provider (`Connected`), and that the last
  notification it has or had is the current service (`UpToDate`).
* `RenderProcessHostProofs`, the host, for any numbers of frames, messages and references:
  `PagesNeverEarly` (`PagesRunInitialised`), `ReadyExactly` (`ReadyWhenBoth`), `NothingLeaks` (`NoLeak`), the
  action properties `DestructionIsLast` (`DestroyedIsLast`) and `QueueIsDelivered`
  (`NothingQueuedIsLost`), `HostChecksNeverFail` (`HostChecksHold`: all CHECKs on these ways but the one of
  finding 6) and `HostTypeCorrect`. `HostInv` joins to the types
  what the flags say of each other (`Sound`: launcher, channel, readiness, clean-up), that
  a host that was used and is not needed any more waits for its observers to return
  (`Kept`), and that an open channel leads to a process that was introduced and locked
  (`Prepared`). `BecomeKeeps` and the lemmas after it treat
  one handler each.
* `RenderProcessHostProofs`, the priority, for any number of widgets, streams, workers and
  views: `ProcessesAgree` (`ProcessAgrees`) and `LaunchesAsSupposed` from `Agrees`, which every
  `UpdateProcessPriority` restores (`UpdateKeeps`): where nobody was told, nothing had
  changed that anybody is told of (`SilenceIsAgreement`). `PrioritiesAreWanted` (`PriorityIsWanted`) from
  `WantedInv`, which says that all counts and inputs are those of the widgets there are; the
  loop over the widgets, a recursive function in the model, is shown to yield the inputs
  of those that decide by induction on how many are still to come (`ScanDecides`).
* `BrowserProcessProofs`, the allocation, for any hosts, instances and sites, any homes, limits, and
  sites that need their own process: `LocksAlwaysFit` (`LocksFit`), `SpareFitsLimit`
  (`SpareWithinLimit`), `RegistriesAreCurrent` (`TrackedExist`), `AllocationNeverFails` and
  `AllocationTypeCorrect`. Of `AllocationInv`, `Base` holds at every point of a handler: whatever a
  registry lists exists, the spare is fresh, every occupied host has a lock that fits;
  `Idleness` (a host nobody used has no lock) is restored by the clean-up a handler ends
  with, so each call a handler makes has a lemma that says which of the two it keeps.
* `BrowserProcessProofs`, the start, for any number of processes and profiles: `OnlyOwnerHasProfiles`
  (`ProfilesOnlyOfOwner`), `IpfConnectionsEnd` (`IpfBalanced`), `ProfilesInitialisedOnce`
  (`EveryProfileInitialisedOnce`) and `MainTypeCorrect`. `BrowserInv` says of each process that it holds the
  singleton from the first stage that may have profiles (`OwnersBrowse`), how its
  IPF connection stands at each stage (`IpfFits`), and what the profile manager has
  done by then (`ManagersFit`); `OneMoves` reduces a step of one process to that
  process; `CallsBounded` bounds the calls per profile. `MainAssumption` says that the null
  values are not processes or profiles.
* `BrowserProcessProofs`, the setting and the features: `SessionsHaveOneSetting`
  (`OneSettingPerSession`), because a renderer lives within a browser process and has a copy
  of its switch (`SwitchIsCopied`), and the mode and the IPF connection follow the switch
  (`ModeIsOfProvider`); `SettingsAlwaysPrevail` (`SettingsPrevail`: five settings that
  comments of the code give the last word, two more are in finding 7), for any
  configuration, from `FeatureInv`, what each of the calls leaves for the next.
* `BrowserProcessProofs`, the parts together: each part of the `browser` run follows the
  specification of its module (`EveryPartIsRun`), whence `TypesAreKept` (`TypesOK`) and
  `ChecksAlwaysHold` (`ChecksHold`).

Model-checked only: liveness under fairness (`LoadSettles`, `AcceptedOverloadReleases`,
`ConnectionIsAnswered`), which tlapm cannot prove; and that the models' abstractions meet the
concrete numbers of the code (the binary32 products in `MCScaled`). The induction theorems of the
library take an operator as a parameter, which the installed provers cannot
instantiate; where an induction is needed it is done by the least counterexample (`Least` and
`SetInduction` in `RenderProcessHostProofs`, from the well-foundedness of the natural
numbers). No module declares a recursive operator.


## Findings

See `PROJECT.json` for the lines quoted.

1. QoS is kept per process but remembered in one flag (`EcoFlagCoversThrottled`).
2. After a wrap of the tick count all hints are dropped (`RejectedOnlyPast`).
3. With the service on, `ThreadLoadTracker` reports the smoothed load, not the
   average of its interval (`ReportIsWindowAverage`).
4. The reply to `AddListenerAndGetCurrentService` may overwrite a newer notification
   (`QuietKnowsCurrent`).
5. The end of a delayed shutdown is posted through weak pointers that the death of
   the process invalidates, while the count of delays stays with the host: the
   next process is kept without the limit in time (`EveryDelayEnds`).
6. `ProcessDied` "should not be" re-entered, and DCHECKs it, but `FastShutdownIfPossible` does not look
   whether observers are still being told of a death: if one of them launches the next
   process and it is shut down at once, the DCHECK fails (`NeverReentered`). Without DCHECKs
   the outer call would go on telling observers of a death after the inner one returned, with
   clean-ups no longer deferred. Clean-ups and failed launches cannot do it (`HostChecksHold`).
7. `runtime_features.cc` says at 608-609 that the Storage Access API ForSite "cannot be enabled
   unless the larger Storage Access API is also enabled", and at 587-588 the like of fenced frames and
   the browser process. Each is enforced only if a further `base::Feature` is on: with
   `--enable-blink-test-features`, or enabled explicitly, the feature stays on without
   (`DependentsNeedTheirBase`, whose two halves are violated by one setting each).

Other divergences and oddities that were met have no run:

* The IDL
  enumerates `kCPUComputeCapacity` while `ServiceToString` returns `CPUComputeCapacity` and
  the browser test expects `computeCapacity`; `DeviceServiceMediaFeatureEval`
  (`media_query_evaluator.cc:1277-1294`) does not look at the requested value.
* The flag's choice labelled "Enabled" (`flag_descriptions.cc:730`) adds no switch, and
  without one the provider's mode is 0, in which it does nothing.
* The binder of the process registry (`render_process_host_impl.cc:2325`) binds the
  provider without looking at the switch, unlike the frame's; that no provider exists
  in a disabled session rests on the load tracker alone (`OneSettingPerSession`).
* `shutdown_exit_code_` (3606) is not reset when a host gets another process, so
  that the death of that one is reported with the exit code of the former (4784).
* If `OnLocalStateLoaded` fails, IPF is connected all the same and the process ends
  without disconnecting it (`chrome_browser_main.cc:751-761`). `notify_result_` starts as
  `PROCESS_NONE`, so that a process that never asked for the singleton calls its
  `Cleanup()` (1903), which does nothing on Windows.
* `chrome_browser_main.h:76-79` says that true means that the command line will be handled;
  the task that would handle it is dropped if the process quits first.
* `render_process_host_impl.cc:1117` calls a `std::set` of pairs "sorted in the order of
  insertion"; it is sorted by site and process id.

## Not modelled, and how much is

By lines, most of the repository is data. `about_flags.cc` (9900 lines), of which all but
some 400 are entries and variations, and `flag_descriptions.cc` and `.h` (10400 lines of
strings) are 58 per cent of its implementation; `content_features.cc` and
`blink/common/features.cc` add constants. They have no state or control to model, so the
modelled share by lines stays low, although every part of the device service and the
control of the Chromium files around it is. Left out on purpose:

* tables and strings as above, metrics, tracing, logging and histograms;
* of `render_process_host_impl.cc` and `browser_interface_binders.cc` the creation of
  interfaces, several thousand lines of independent one-line binders without state;
  WebRTC event logs, audio, the in-process renderer;
* of `chrome_browser_main.cc` first-run preferences, metrics and other platforms;
* media queries (`core/css`), a pure upstream evaluation in which the service adds one
  comparison;
* the services of `services/device/device_service.cc` other than the provider;
* `freqreg`: an earlier copy of the limiter with a fixed maximum and another floor, and a
  tool that steps it once in each direction;
* IPF itself and the provider's IPF branch, which does not compile;
* `dllloaddll`, `hwywasmenv`, `multi_video`, `icx` and build files: demonstrations, build
  descriptions and scripts without state.

## Plan

Open, in this order:

1. Join `ThreadLoadTracker` with `DeviceCapacity`, whose sample its callback takes, and
   carry `HintsFollowLoad` over.
2. Join `RenderProcessHost` with `RenderProcessAllocation`, so that clean-ups are decided
   by reference counts in both.
