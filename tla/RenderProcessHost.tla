--------------------------- MODULE RenderProcessHost ---------------------------
(* The life of one RenderProcessHostImpl of the browser process               *)
(* (content/browser/renderer_host/render_process_host_impl.cc): the channel   *)
(* to its renderer, the launches of that renderer, what keeps the object      *)
(* alive, and its clean-up.  A host may outlive its process and be given a    *)
(* new one.  Everything runs on the UI thread; a handler is one step, but for *)
(* ProcessDied, whose observers may call back before it goes on               *)
(* (within_process_died_observer_): whatever is a method of the object may be *)
(* called then, what is posted or read from a pipe waits.  A build with DCHECKs *)
(* stops where ProcessDied is entered again; so does the model (reentered).   *)
(* Renderers run in processes of their own (run_renderer_in_process() is      *)
(* false).                                                                    *)
EXTENDS Naturals, Sequences, FiniteSets

CONSTANTS Frames,    \* RenderFrameHosts that may live in the host
          MaxRefs,   \* bound: references of one kind held at a time
          MaxQueue   \* bound: messages waiting in the channel

ASSUME HostAssumption ==
    /\ IsFiniteSet(Frames)
    /\ MaxRefs \in Nat \ {0}
    /\ MaxQueue \in Nat \ {0}

VARIABLES
    host,      \* the members of the object
    renderer   \* what the current (or next) process was told, and when

hostVars == <<host, renderer>>

\* Messages whose order matters: that observers prepared the process, that it
\* is locked to a site, and whatever makes it run page code.
Messages == {"Created", "Locked", "Page"}

HostObject ==
    [launcher : {"none", "starting", "started"},
     live : BOOLEAN,           \* IsInitializedAndNotDead()
     channel : {"none", "paused", "open"},
     queue : Seq(Messages),    \* sent while the channel is paused
     connected : BOOLEAN,
     ready : BOOLEAN,          \* sent_render_process_ready_
     keepAlive : 0..MaxRefs,
     workers : 0..MaxRefs,
     delays : 0..MaxRefs,      \* shutdown_delay_ref_count_
     timers : 0..MaxRefs,      \* posted CancelProcessShutdownDelay
     disabled : BOOLEAN,       \* are_ref_counts_disabled_
     frames : [Frames -> {"none", "gone", "live"}],
     view : BOOLEAN,           \* another listener: a view, a proxy
     within : BOOLEAN,         \* within_process_died_observer_
     again : BOOLEAN,          \* delayed_cleanup_needed_
     deleting : BOOLEAN,       \* deleting_soon_
     fast : BOOLEAN,           \* fast_shutdown_started_
     locked : BOOLEAN,         \* the process lock names a site
     used : BOOLEAN,           \* history: something once used it
     reentered : BOOLEAN,      \* history: a fast shutdown re-entered ProcessDied
     checked : BOOLEAN]        \* history: every other CHECK and DCHECK held

RendererView ==
    [told : SUBSET Messages,
     early : BOOLEAN,      \* history: page code ran unprepared
     seen : {"nothing", "ready", "exited", "destroyed"}]

HostTypeOK == host \in HostObject /\ renderer \in RendererView

-----------------------------------------------------------------------------
(* The channel.  A paused channel queues, an open one delivers at once.       *)

New == [launcher |-> "none", live |-> FALSE, channel |-> "paused",
        queue |-> <<>>, connected |-> FALSE, ready |-> FALSE, keepAlive |-> 0,
        workers |-> 0, delays |-> 0, timers |-> 0, disabled |-> FALSE,
        frames |-> [f \in Frames |-> "none"], view |-> FALSE,
        within |-> FALSE, again |-> FALSE, deleting |-> FALSE, fast |-> FALSE,
        locked |-> FALSE, used |-> FALSE, reentered |-> FALSE, checked |-> TRUE]

InitializeChannelProxy(h) ==
    [h EXCEPT !.channel = "paused", !.queue = <<>>,
              !.checked = @ /\ h.channel = "none"]

EnableSendQueue(h) ==
    IF h.channel = "none" THEN InitializeChannelProxy(h) ELSE h

\* Everything that posts to the object is cut off, and weak pointers to it die,
\* those in the posted ends of shutdown delays included.
ResetIPC(h) ==
    [h EXCEPT !.channel = "none", !.queue = <<>>, !.connected = FALSE,
              !.timers = 0]

\* What process r knows after message m: page code must find a process that was
\* prepared and, when its host is locked, knows that.
Told(r, m, locked) ==
    [r EXCEPT !.told = @ \union {m},
              !.early = @ \/ /\ m = "Page"
                             /\ \/ "Created" \notin r.told
                                \/ locked /\ "Locked" \notin r.told]

\* What r knows after the messages of the queue, in their order.
Delivered(r, queue, locked) ==
    LET Before(i) == r.told \union {queue[j] : j \in 1..(i - 1)}
    IN  [r EXCEPT
            !.told = @ \union {queue[i] : i \in DOMAIN queue},
            !.early = @ \/ \E i \in DOMAIN queue :
                              /\ queue[i] = "Page"
                              /\ \/ "Created" \notin Before(i)
                                 \/ locked /\ "Locked" \notin Before(i)]

Send(m) ==
    \/ /\ host.channel = "none"
       /\ UNCHANGED hostVars
    \/ /\ host.channel = "paused"
       /\ Len(host.queue) < MaxQueue
       /\ host' = [host EXCEPT !.queue = Append(@, m)]
       /\ UNCHANGED renderer
    \/ /\ host.channel = "open"
       /\ renderer' = Told(renderer, m, host.locked)
       /\ UNCHANGED host

-----------------------------------------------------------------------------
(* What keeps the object, and its end.                                        *)

AreAllRefCountsZero(h) == h.keepAlive = 0 /\ h.workers = 0 /\ h.delays = 0

HasListeners(h) == h.view \/ \E f \in Frames : h.frames[f] # "none"

HasOnlyNonLiveRenderFrameHosts(h) ==
    /\ \E f \in Frames : h.frames[f] # "none"
    /\ \A f \in Frames : h.frames[f] # "live"

\* ProcessDied up to the calls of its observers.  Among these are the frames.
Died(h) ==
    [ResetIPC(h) EXCEPT
        !.launcher = "none", !.live = FALSE, !.within = TRUE,
        !.frames = [f \in Frames |-> IF @[f] = "live" THEN "gone" ELSE @[f]],
        !.checked = @ /\ ~h.within /\ ~h.deleting]

Deleted(h) ==
    [ResetIPC(h) EXCEPT !.deleting = TRUE, !.checked = @ /\ ~h.deleting]

MustStay(h) ==
    \/ HasListeners(h) /\ ~HasOnlyNonLiveRenderFrameHosts(h)
    \/ ~AreAllRefCountsZero(h)

\* mutant: clean up also while observers are being told
NeverDeferred(h) == FALSE

Deferred(h) == h.within

\* mutant: a clean-up asked for by an observer is forgotten
CleanupForgotten(h) ==
    IF Deferred(h) \/ MustStay(h) THEN h ELSE Deleted(h)

Cleanup(h) ==
    IF Deferred(h) THEN [h EXCEPT !.again = TRUE]
    ELSE LET c == [h EXCEPT !.again = FALSE]
         IN  IF MustStay(c) THEN c
             ELSE IF ~HasOnlyNonLiveRenderFrameHosts(c) THEN Deleted(c)
             ELSE IF c.live THEN Died([c EXCEPT !.fast = TRUE])
             ELSE c

\* What observers were told last, given the object before and after a handler.
Seen(h, g) ==
    IF g.deleting /\ ~h.deleting THEN "destroyed"
    ELSE IF g.within /\ ~h.within THEN "exited"
    ELSE renderer.seen

Become(h) ==
    /\ host' = h
    /\ renderer' = [renderer EXCEPT !.seen = Seen(host, h)]

Callable == ~host.deleting

IncrementKeepAliveRefCount ==
    /\ Callable /\ ~host.disabled /\ host.keepAlive < MaxRefs
    /\ Become([host EXCEPT !.keepAlive = @ + 1, !.used = TRUE])

IncrementWorkerRefCount ==
    /\ Callable /\ ~host.disabled /\ host.workers < MaxRefs
    /\ Become([host EXCEPT !.workers = @ + 1, !.used = TRUE])

CleanupIfUnreferenced(h) == IF AreAllRefCountsZero(h) THEN Cleanup(h) ELSE h

DecrementKeepAliveRefCount ==
    /\ host.keepAlive > 0
    /\ Become(CleanupIfUnreferenced([host EXCEPT !.keepAlive = @ - 1]))

DecrementWorkerRefCount ==
    /\ host.workers > 0
    /\ Become(CleanupIfUnreferenced([host EXCEPT !.workers = @ - 1]))

DelayProcessShutdown ==
    /\ Callable /\ ~host.disabled /\ ~host.fast
    /\ host.delays < MaxRefs
    /\ Become([host EXCEPT !.delays = @ + 1, !.timers = @ + 1, !.used = TRUE])

\* mutant: also when the counts were disabled since
DelayedAlways(h) == TRUE

Delayed(h) == ~h.disabled

\* The posted end of a delay.
CancelProcessShutdownDelay ==
    /\ host.timers > 0 /\ ~host.within
    /\ LET h == [host EXCEPT !.timers = @ - 1]
       IN  Become(IF Delayed(h)
                  THEN CleanupIfUnreferenced([h EXCEPT !.delays = @ - 1])
                  ELSE h)

\* The browser context goes away.
DisableRefCounts ==
    /\ Callable /\ ~host.disabled
    /\ Become(Cleanup([host EXCEPT !.disabled = TRUE, !.keepAlive = 0,
                                   !.workers = 0, !.delays = 0, !.used = TRUE]))

AddFrame(f) ==
    /\ Callable /\ host.frames[f] = "none"
    /\ Become([host EXCEPT !.frames[f] = "gone", !.used = TRUE])

FrameBecomesLive(f) ==
    /\ Callable /\ host.live /\ host.frames[f] = "gone"
    /\ Become([host EXCEPT !.frames[f] = "live"])

RemoveFrame(f) ==
    /\ host.frames[f] # "none"
    /\ Become(Cleanup([host EXCEPT !.frames[f] = "none"]))

AddRoute ==
    /\ Callable /\ ~host.view
    /\ Become([host EXCEPT !.view = TRUE, !.used = TRUE])

RemoveRoute ==
    /\ host.view
    /\ Become(Cleanup([host EXCEPT !.view = FALSE]))

-----------------------------------------------------------------------------
(* Launches and deaths.                                                       *)

\* mutant: the channel is set up anew, whatever waits in it
LaunchingAfresh(h) ==
    [InitializeChannelProxy(h) EXCEPT !.launcher = "starting", !.live = TRUE,
                                      !.ready = FALSE, !.fast = FALSE]

\* mutant: the new process passes for ready as the last one was
LaunchingReady(h) ==
    [EnableSendQueue(h) EXCEPT !.launcher = "starting", !.live = TRUE,
                               !.fast = FALSE]

Launching(h) ==
    [EnableSendQueue(h) EXCEPT !.launcher = "starting", !.live = TRUE,
                               !.ready = FALSE, !.fast = FALSE]

\* RenderProcessHostImpl::Init(); it does nothing for a live process, and
\* nothing if the renderer's program is missing.
InitHost ==
    /\ Callable /\ ~host.live
    /\ host' = Launching(host)
    /\ renderer' = [renderer EXCEPT !.told = {}]

IsReady(h) == h.launcher = "started" /\ h.connected

\* RenderProcessReady, sent by whichever of launch and connection is last.
NoticeReady(h) ==
    IF IsReady(h) THEN [h EXCEPT !.ready = TRUE, !.checked = @ /\ ~h.ready] ELSE h

\* What the launched process is sent ahead of what waited in the channel.
Introduction(h) == IF h.locked THEN <<"Locked", "Created">> ELSE <<"Created">>

\* mutant: what waited in the channel overtakes the introduction
IntroducedLate(h) == h.queue \o Introduction(h)

Introduced(h) == Introduction(h) \o h.queue

\* mutant: a launch is handled although the object was cleaned up
MeetsLaunchAlways(h) == TRUE

MeetsLaunch(h) == ~h.deleting

OnProcessLaunched ==
    /\ host.launcher = "starting" /\ ~host.within
    /\ IF MeetsLaunch(host)
       THEN LET h == [host EXCEPT !.launcher = "started", !.channel = "open",
                                  !.queue = <<>>]
                r == Delivered(renderer, Introduced(host), host.locked)
            IN  /\ host' = NoticeReady(h)
                /\ renderer' = [r EXCEPT !.seen = IF IsReady(h) THEN "ready" ELSE @]
       ELSE /\ host' = [host EXCEPT !.launcher = "started"]
            /\ UNCHANGED renderer

OnProcessLaunchFailed ==
    /\ host.launcher = "starting" /\ ~host.within
    /\ Become(IF MeetsLaunch(host) THEN Died(host)
              ELSE [host EXCEPT !.launcher = "started"])

OnChannelConnected ==
    /\ host.channel # "none" /\ host.live /\ ~host.connected /\ ~host.within
    /\ LET h == [host EXCEPT !.connected = TRUE]
       IN  /\ host' = NoticeReady(h)
           /\ renderer' = [renderer EXCEPT !.seen = IF IsReady(h) THEN "ready" ELSE @]

\* The process crashed, was terminated by Shutdown(), or quit.
OnChannelError ==
    /\ host.channel # "none" /\ host.live /\ ~host.within
    /\ Become(Died(host))

\* Also while observers are told of a death, for a process that one of them
\* launched: then it gets no further than the DCHECK at the head of ProcessDied.
FastShutdownIfPossible ==
    /\ Callable /\ host.launcher # "none"
    /\ AreAllRefCountsZero(host)
    /\ LET h == [host EXCEPT !.fast = TRUE]
       IN  Become(IF host.within THEN [h EXCEPT !.reentered = TRUE] ELSE Died(h))

\* The rest of ProcessDied, after its observers were told.
ProcessDiedReturns ==
    /\ host.within
    /\ LET h == EnableSendQueue([host EXCEPT !.within = FALSE])
       IN  Become(IF h.again THEN Cleanup(h) ELSE h)

SetProcessLock ==
    /\ Callable /\ ~host.locked
    /\ host.channel = "paused" => Len(host.queue) < MaxQueue
    /\ host' = [host EXCEPT !.locked = TRUE,
                            !.queue = IF host.channel = "paused"
                                      THEN Append(@, "Locked") ELSE @]
    /\ renderer' = IF host.channel = "open" THEN Told(renderer, "Locked", TRUE)
                   ELSE renderer

SendPage == Callable /\ Send("Page")

-----------------------------------------------------------------------------
HostInit ==
    /\ host = New
    /\ renderer = [told |-> {}, early |-> FALSE, seen |-> "nothing"]

HostNext ==
    /\ ~host.reentered
    /\ \/ InitHost \/ OnProcessLaunched \/ OnProcessLaunchFailed
       \/ OnChannelConnected \/ OnChannelError \/ FastShutdownIfPossible
       \/ ProcessDiedReturns \/ SetProcessLock \/ SendPage
       \/ IncrementKeepAliveRefCount \/ DecrementKeepAliveRefCount
       \/ IncrementWorkerRefCount \/ DecrementWorkerRefCount
       \/ DelayProcessShutdown \/ CancelProcessShutdownDelay \/ DisableRefCounts
       \/ AddRoute \/ RemoveRoute
       \/ \E f \in Frames : AddFrame(f) \/ FrameBecomesLive(f) \/ RemoveFrame(f)

HostSpec == HostInit /\ [][HostNext]_hostVars
-----------------------------------------------------------------------------
\* The CHECKs and DCHECKs on the way of a launch, a death and a clean-up, but for
\* one, hold whatever order they are asked for in: the object is not deleted
\* twice, reports itself ready once per process, has no channel when it sets one
\* up, and its process does not die after its deletion nor, by a clean-up or a
\* failure, while it tells of the death of another.  A fast shutdown does enter
\* ProcessDied again: see NeverReentered.
HostChecksHold == host.checked

\* "It should not be possible for us to be called re-entrantly": no process is
\* shut down while observers are still being told of the death of another.
NeverReentered == ~host.reentered

\* "ExtensionService uses this notification to initialize the renderer process
\* with state that must be there before any JavaScript executes": page code
\* runs only in a process that was prepared and, when its host is locked, was
\* told so, also if the page was sent before the launch, to an earlier process
\* that died, or the lock changed in between.
PagesRunInitialised == ~renderer.early

\* Launch and connection come in either order; observers have been told that
\* the process is ready exactly when both have happened.
ReadyWhenBoth == host.live /\ ~host.deleting => (host.ready <=> IsReady(host))

\* An object that was used and that nobody needs any more is on its way out,
\* even if the last one to need it let go while observers were being told.
NoLeak ==
    ~host.within /\ host.used /\ ~HasListeners(host) /\ AreAllRefCountsZero(host)
        => host.deleting

\* "guarantee that the RenderProcessHostDestroyed observer callback is always
\* the last callback fired": no handler of a late launch, connection or death
\* tells observers anything afterwards.
DestroyedStays == renderer.seen = "destroyed" => renderer'.seen = "destroyed"
DestroyedIsLast == [][DestroyedStays]_hostVars

\* Messages sent to a host without a process "will eventually reach the new
\* process": what waits leaves the queue only by delivery to a launched process,
\* or with the death or the deletion of the one it was sent to.
WaitsForDelivery ==
    host.queue # <<>> /\ host'.queue = <<>> =>
        \/ host'.deleting
        \/ host.live /\ ~host'.live
        \/ /\ host.launcher = "starting" /\ host'.launcher = "started"
           /\ {host.queue[i] : i \in DOMAIN host.queue} \subseteq renderer'.told
NothingQueuedIsLost == [][WaitsForDelivery]_hostVars

\* "Don't delay shutdown longer than the maximum delay for renderer process,
\* enforced for security reasons": as long as the end of a live process is put
\* off, the posted end of a delay is still to come, also where the process is
\* not the host's first.
EveryDelayEnds == host.live /\ host.delays > 0 => host.timers > 0
================================================================================
