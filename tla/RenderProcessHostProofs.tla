----------------------- MODULE RenderProcessHostProofs -----------------------
(* Proofs about the life of a renderer process host and about the priority of *)
(* its process, for any number of frames, references, queued messages and     *)
(* widgets, in any order of launches, deaths, clean-ups and messages.         *)
EXTENDS RenderProcessHost, RenderProcessPriority, WellFoundedInduction, TLAPS

-----------------------------------------------------------------------------
(* The inductive invariant: what holds of the object between two handlers, of *)
(* the object at the moment a clean-up is asked for (all but Kept), and of    *)
(* the object together with what its process was told.                        *)

\* Once it is being deleted nothing refers to it and nothing reaches it.
Quiet(h) ==
    /\ ~h.within /\ h.timers = 0 /\ h.channel = "none"
    /\ ~HasListeners(h) /\ AreAllRefCountsZero(h)

\* A posted end of a delay finds a delay to end, unless the counts were
\* disabled; only a paused channel holds messages, only a live process has an
\* open one; a process is live from its launch to its death, and ready when it
\* was launched and has connected.
Sound(h) ==
    /\ h.checked
    /\ ~h.disabled => h.timers <= h.delays
    /\ h.channel # "paused" => h.queue = <<>>
    /\ h.channel = "open" => h.live
    /\ ~h.deleting => (h.live <=> h.launcher # "none")
    /\ ~h.deleting /\ h.live => (h.ready <=> IsReady(h))
    /\ h.deleting => Quiet(h)

\* An object that was used and is not needed waits for its observers to return.
Kept(h) ==
    ~h.deleting /\ h.used /\ ~HasListeners(h) /\ AreAllRefCountsZero(h)
        => h.within /\ h.again

\* An open channel leads to a process that was prepared.
Prepared(h, r) ==
    /\ ~r.early
    /\ h.channel = "open" =>
         "Created" \in r.told /\ (h.locked => "Locked" \in r.told)
    /\ r.seen = "destroyed" => h.deleting

HostInv == HostTypeOK /\ Sound(host) /\ Kept(host) /\ Prepared(host, renderer)

\* What a handler may turn the object h into that neither launches a process nor
\* sends anything.
Follows(h, g) ==
    /\ g \in HostObject /\ Sound(g) /\ Kept(g)
    /\ g.locked = h.locked
    /\ g.channel = "open" => h.channel = "open"
    /\ h.queue # <<>> /\ g.queue = <<>> => g.deleting \/ (h.live /\ ~g.live)
    /\ h.deleting => g.deleting

-----------------------------------------------------------------------------
(* The helpers.                                                               *)

LEMMA EmptyQueue == <<>> \in Seq(Messages)
OBVIOUS

LEMMA ResetIPCType ==
    ASSUME NEW h \in HostObject
    PROVE  ResetIPC(h) \in HostObject
<1>1. 0 \in 0..MaxRefs
  BY HostAssumption
<1> QED
  BY <1>1, EmptyQueue DEF ResetIPC, HostObject

LEMMA DiedType ==
    ASSUME NEW h \in HostObject
    PROVE  Died(h) \in HostObject
<1> DEFINE r == ResetIPC(h)
<1>1. r \in HostObject
  BY ResetIPCType
<1>2. [f \in Frames |-> IF r.frames[f] = "live" THEN "gone" ELSE r.frames[f]]
        \in [Frames -> {"none", "gone", "live"}]
  BY <1>1 DEF HostObject
<1>3. (r.checked /\ ~h.within /\ ~h.deleting) \in BOOLEAN
  OBVIOUS
<1>4. Died(h) = [r EXCEPT !.launcher = "none", !.live = FALSE, !.within = TRUE,
                   !.frames = [f \in Frames |-> IF r.frames[f] = "live" THEN "gone" ELSE r.frames[f]],
                   !.checked = r.checked /\ ~h.within /\ ~h.deleting]
  BY DEF Died
<1> HIDE DEF r
<1> QED
  BY <1>1, <1>2, <1>3, <1>4 DEF HostObject

LEMMA DiedFields ==
    ASSUME NEW h \in HostObject, NEW g, g = Died(h)
    PROVE  /\ g.launcher = "none" /\ ~g.live /\ g.channel = "none" /\ g.queue = <<>>
           /\ g.timers = 0 /\ g.within
           /\ g.checked = (h.checked /\ ~h.within /\ ~h.deleting)
           /\ \A f \in Frames : g.frames[f] = "none" <=> h.frames[f] = "none"
           /\ g.keepAlive = h.keepAlive /\ g.workers = h.workers /\ g.delays = h.delays
           /\ g.disabled = h.disabled /\ g.view = h.view /\ g.again = h.again
           /\ g.deleting = h.deleting /\ g.locked = h.locked /\ g.used = h.used
BY DEF Died, ResetIPC, HostObject

LEMMA DeletedType ==
    ASSUME NEW h \in HostObject
    PROVE  Deleted(h) \in HostObject
<1> DEFINE r == ResetIPC(h)
<1>1. r \in HostObject
  BY ResetIPCType
<1>2. (r.checked /\ ~h.deleting) \in BOOLEAN
  OBVIOUS
<1>3. Deleted(h) = [r EXCEPT !.deleting = TRUE, !.checked = r.checked /\ ~h.deleting]
  BY DEF Deleted
<1> HIDE DEF r
<1> QED
  BY <1>1, <1>2, <1>3 DEF HostObject

LEMMA DeletedFields ==
    ASSUME NEW h \in HostObject, NEW g, g = Deleted(h)
    PROVE  /\ g.channel = "none" /\ g.queue = <<>> /\ g.timers = 0 /\ g.deleting
           /\ g.checked = (h.checked /\ ~h.deleting)
           /\ g.frames = h.frames /\ g.view = h.view /\ g.within = h.within
           /\ g.keepAlive = h.keepAlive /\ g.workers = h.workers /\ g.delays = h.delays
           /\ g.disabled = h.disabled /\ g.locked = h.locked
BY DEF Deleted, ResetIPC, HostObject

-----------------------------------------------------------------------------
(* A death, a deletion and a clean-up.                                        *)

\* A live process whose object is needed, or that nothing used, may die.
LEMMA DiedFollows ==
    ASSUME NEW h \in HostObject, Sound(h), ~h.deleting, ~h.within, h.live,
           h.used => HasListeners(h) \/ ~AreAllRefCountsZero(h)
    PROVE  Follows(h, Died(h))
<1> DEFINE g == Died(h)
<1>1. g \in HostObject
  BY DiedType
<1>2. h.timers \in Nat /\ h.delays \in Nat
  BY HostAssumption DEF HostObject
<1> HIDE DEF g
<1>3. Sound(g)
  <2>1. /\ g.checked /\ g.timers = 0 /\ g.queue = <<>> /\ g.channel = "none"
        /\ ~g.live /\ g.launcher = "none" /\ ~g.deleting /\ g.delays = h.delays
    BY DiedFields DEF Sound, g
  <2> QED
    BY <1>2, <2>1 DEF Sound
<1>4. HasListeners(g) <=> HasListeners(h)
  BY DiedFields DEF HasListeners, g
<1>5. AreAllRefCountsZero(g) <=> AreAllRefCountsZero(h)
  BY DiedFields DEF AreAllRefCountsZero, g
<1>6. Kept(g)
  BY <1>4, <1>5, DiedFields DEF Kept, g
<1> QED
  BY <1>1, <1>3, <1>6, DiedFields DEF Follows, g

\* An object that nothing needs may be deleted.
LEMMA DeletedFollows ==
    ASSUME NEW h \in HostObject, Sound(h), ~h.deleting, ~h.within,
           ~HasListeners(h), AreAllRefCountsZero(h)
    PROVE  Follows(h, Deleted(h))
<1> DEFINE g == Deleted(h)
<1>1. g \in HostObject
  BY DeletedType
<1>2. h.delays = 0
  BY DEF AreAllRefCountsZero
<1> HIDE DEF g
<1>3. ~HasListeners(g) /\ AreAllRefCountsZero(g)
  BY DeletedFields DEF HasListeners, AreAllRefCountsZero, g
<1>4. Quiet(g)
  BY <1>3, DeletedFields DEF Quiet, g
<1>5. Sound(g)
  <2>1. /\ g.checked /\ g.timers = 0 /\ g.queue = <<>> /\ g.channel = "none"
        /\ g.deleting /\ g.delays = 0
    BY <1>2, DeletedFields DEF Sound, g
  <2> QED
    BY <1>4, <2>1 DEF Sound
<1> QED
  BY <1>1, <1>5, DeletedFields DEF Follows, Kept, g

\* Whoever asks for a clean-up, and whenever: what it leaves is sound, and an
\* object that is not needed any more is on its way out or will be.
LEMMA CleanupFollows ==
    ASSUME NEW h \in HostObject, Sound(h), ~h.deleting
    PROVE  Follows(h, Cleanup(h))
<1>1. CASE h.within
  <2> DEFINE g == [h EXCEPT !.again = TRUE]
  <2>1. Cleanup(h) = g
    BY <1>1 DEF Cleanup, Deferred
  <2>2. g \in HostObject
    BY DEF HostObject
  <2>3. /\ Sound(g) /\ g.within /\ g.again /\ g.locked = h.locked
        /\ g.channel = h.channel /\ g.queue = h.queue
    BY <1>1 DEF HostObject, Sound, IsReady
  <2> QED
    BY <2>1, <2>2, <2>3 DEF Follows, Kept
<1>2. CASE ~h.within
  <2> DEFINE c == [h EXCEPT !.again = FALSE]
  <2>1. c \in HostObject
    BY DEF HostObject
  <2>2. /\ c.locked = h.locked /\ c.channel = h.channel /\ c.queue = h.queue
        /\ c.live = h.live /\ c.deleting = h.deleting /\ c.within = h.within
        /\ c.frames = h.frames /\ c.view = h.view
        /\ Sound(c)
    BY DEF HostObject, Sound, IsReady
  <2>3. Cleanup(h) = IF MustStay(c) THEN c
                     ELSE IF ~HasOnlyNonLiveRenderFrameHosts(c) THEN Deleted(c)
                     ELSE IF c.live THEN Died([c EXCEPT !.fast = TRUE])
                     ELSE c
    BY <1>2 DEF Cleanup, Deferred
  <2>4. HasOnlyNonLiveRenderFrameHosts(c) => HasListeners(c)
    BY DEF HasOnlyNonLiveRenderFrameHosts, HasListeners
  <2> HIDE DEF c
  <2>5. CASE ~MustStay(c) /\ ~HasOnlyNonLiveRenderFrameHosts(c)
    <3>1. ~HasListeners(c) /\ AreAllRefCountsZero(c)
      BY <2>5 DEF MustStay
    <3>2. Follows(c, Deleted(c))
      BY <1>2, <2>1, <2>2, <3>1, DeletedFollows
    <3> QED
      BY <2>2, <2>3, <2>5, <3>2 DEF Follows
  <2>6. CASE ~MustStay(c) /\ HasOnlyNonLiveRenderFrameHosts(c) /\ c.live
    <3> DEFINE k == [c EXCEPT !.fast = TRUE]
    <3>1. k \in HostObject
      BY <2>1 DEF HostObject
    <3>2. /\ k.locked = c.locked /\ k.channel = c.channel /\ k.queue = c.queue
          /\ k.live = c.live /\ k.deleting = c.deleting /\ k.within = c.within
          /\ k.frames = c.frames /\ k.view = c.view
          /\ Sound(k)
      BY <2>1, <2>2 DEF HostObject, Sound, IsReady, Quiet, HasListeners, AreAllRefCountsZero
    <3>3. HasListeners(k)
      BY <2>4, <2>6, <3>2 DEF HasListeners
    <3> HIDE DEF k
    <3>4. Follows(k, Died(k))
      BY <1>2, <2>2, <2>6, <3>1, <3>2, <3>3, DiedFollows
    <3>5. Cleanup(h) = Died(k)
      BY <2>3, <2>6 DEF k
    <3> QED
      BY <2>2, <3>2, <3>4, <3>5 DEF Follows
  <2>7. CASE MustStay(c) \/ (HasOnlyNonLiveRenderFrameHosts(c) /\ ~c.live)
    <3>1. Cleanup(h) = c
      BY <2>3, <2>7
    <3>2. HasListeners(c) \/ ~AreAllRefCountsZero(c)
      BY <2>4, <2>7 DEF MustStay
    <3> QED
      BY <2>1, <2>2, <3>1, <3>2 DEF Follows, Kept
  <2> QED
    BY <2>5, <2>6, <2>7
<1> QED
  BY <1>1, <1>2

-----------------------------------------------------------------------------
(* The handlers.                                                              *)

\* What every step keeps, the invariant and the two action properties.
HostStep == HostInv' /\ DestroyedStays /\ WaitsForDelivery

LEMMA BecomeKeeps ==
    ASSUME HostInv, NEW h, Become(h), Follows(host, h)
    PROVE  HostStep
<1>1. host' = h /\ renderer' = [renderer EXCEPT !.seen = Seen(host, h)]
  BY DEF Become
<1>2. Seen(host, h) \in {"nothing", "ready", "exited", "destroyed"}
  BY DEF HostInv, HostTypeOK, RendererView, Seen
<1>3. HostTypeOK' /\ renderer'.told = renderer.told
      /\ renderer'.early = renderer.early /\ renderer'.seen = Seen(host, h)
  BY <1>1, <1>2 DEF HostInv, HostTypeOK, RendererView, Follows
<1>4. Sound(h) /\ Kept(h)
  BY DEF Follows
<1>5. Prepared(h, renderer')
  BY <1>3 DEF Prepared, HostInv, Follows, Seen
<1>6. DestroyedStays
  <2> SUFFICES ASSUME renderer.seen = "destroyed" PROVE Seen(host, h) = "destroyed"
    BY <1>3 DEF DestroyedStays
  <2>1. h.deleting
    BY DEF HostInv, Prepared, Follows
  <2> QED
    BY <2>1, <1>4 DEF Sound, Quiet, Seen
<1>7. WaitsForDelivery
  BY <1>1 DEF WaitsForDelivery, Follows
<1> QED
  BY <1>1, <1>3, <1>4, <1>5, <1>6, <1>7 DEF HostStep, HostInv

\* m is the object h after assignments that leave these members alone.
Alike(h, m) ==
    /\ m.locked = h.locked /\ m.channel = h.channel /\ m.queue = h.queue
    /\ m.live = h.live /\ ~h.deleting /\ ~m.deleting

LEMMA CleanupAlike ==
    ASSUME NEW h \in HostObject, NEW m \in HostObject, Sound(m), Alike(h, m)
    PROVE  Follows(h, Cleanup(m)) /\ Follows(h, CleanupIfUnreferenced(m))
<1>1. Follows(m, Cleanup(m))
  BY CleanupFollows DEF Alike
<1>2. Follows(h, Cleanup(m))
  BY <1>1 DEF Follows, Alike
<1>3. CASE AreAllRefCountsZero(m)
  BY <1>2, <1>3 DEF CleanupIfUnreferenced
<1>4. CASE ~AreAllRefCountsZero(m)
  <2>1. CleanupIfUnreferenced(m) = m
    BY <1>4 DEF CleanupIfUnreferenced
  <2> QED
    BY <1>2, <1>4, <2>1 DEF Follows, Alike, Kept
<1> QED
  BY <1>3, <1>4

LEMMA KeptAlike ==
    ASSUME NEW h \in HostObject, NEW m \in HostObject, Sound(m), Kept(m), Alike(h, m)
    PROVE  Follows(h, m)
BY DEF Follows, Alike

\* m is the object h after assignments to what may need it only.
SameProcess(h, m) ==
    /\ m.launcher = h.launcher /\ m.live = h.live /\ m.channel = h.channel
    /\ m.queue = h.queue /\ m.connected = h.connected /\ m.ready = h.ready
    /\ m.locked = h.locked /\ m.checked = h.checked
    /\ ~h.deleting /\ ~m.deleting

LEMMA SameProcessSound ==
    ASSUME NEW h \in HostObject, NEW m \in HostObject, Sound(h), SameProcess(h, m),
           ~m.disabled => m.timers <= m.delays
    PROVE  Sound(m) /\ Alike(h, m)
BY DEF SameProcess, Sound, Alike, IsReady

\* References that are taken: the object stays or becomes needed.
LEMMA Referenced ==
    ASSUME HostInv,
           \/ IncrementKeepAliveRefCount \/ IncrementWorkerRefCount
           \/ DelayProcessShutdown
    PROVE  HostStep
<1> DEFINE k == [host EXCEPT !.keepAlive = @ + 1, !.used = TRUE]
           w == [host EXCEPT !.workers = @ + 1, !.used = TRUE]
           d == [host EXCEPT !.delays = @ + 1, !.timers = @ + 1, !.used = TRUE]
<1>0. /\ host \in HostObject /\ Sound(host)
      /\ MaxRefs \in Nat /\ host.keepAlive \in Nat /\ host.workers \in Nat
      /\ host.delays \in Nat /\ host.timers \in Nat
  BY HostAssumption DEF HostInv, HostTypeOK, HostObject
<1>1. CASE IncrementKeepAliveRefCount
  <2>1. ~host.deleting /\ host.keepAlive < MaxRefs /\ Become(k)
    BY <1>1 DEF IncrementKeepAliveRefCount, Callable
  <2>2. k \in HostObject
    <3>1. host.keepAlive + 1 \in 0..MaxRefs
      BY <1>0, <2>1
    <3> QED
      BY <1>0, <3>1 DEF HostObject
  <2>3. /\ SameProcess(host, k) /\ k.keepAlive = host.keepAlive + 1
        /\ k.disabled = host.disabled /\ k.timers = host.timers /\ k.delays = host.delays
    BY <1>0, <2>1 DEF HostObject, SameProcess
  <2>4. Kept(k)
    BY <1>0, <2>3 DEF Kept, AreAllRefCountsZero
  <2> HIDE DEF k
  <2>5. ~k.disabled => k.timers <= k.delays
    BY <1>0, <2>1, <2>3 DEF Sound
  <2>6. Sound(k) /\ Alike(host, k)
    BY <1>0, <2>2, <2>3, <2>5, SameProcessSound
  <2> QED
    BY <1>0, <2>1, <2>2, <2>4, <2>6, KeptAlike, BecomeKeeps
<1>2. CASE IncrementWorkerRefCount
  <2>1. ~host.deleting /\ host.workers < MaxRefs /\ Become(w)
    BY <1>2 DEF IncrementWorkerRefCount, Callable
  <2>2. w \in HostObject
    <3>1. host.workers + 1 \in 0..MaxRefs
      BY <1>0, <2>1
    <3> QED
      BY <1>0, <3>1 DEF HostObject
  <2>3. /\ SameProcess(host, w) /\ w.workers = host.workers + 1
        /\ w.disabled = host.disabled /\ w.timers = host.timers /\ w.delays = host.delays
    BY <1>0, <2>1 DEF HostObject, SameProcess
  <2>4. Kept(w)
    BY <1>0, <2>3 DEF Kept, AreAllRefCountsZero
  <2> HIDE DEF w
  <2>5. ~w.disabled => w.timers <= w.delays
    BY <1>0, <2>1, <2>3 DEF Sound
  <2>6. Sound(w) /\ Alike(host, w)
    BY <1>0, <2>2, <2>3, <2>5, SameProcessSound
  <2> QED
    BY <1>0, <2>1, <2>2, <2>4, <2>6, KeptAlike, BecomeKeeps
<1>3. CASE DelayProcessShutdown
  <2>1. /\ ~host.deleting /\ ~host.disabled /\ host.delays < MaxRefs /\ Become(d)
        /\ host.timers <= host.delays
    BY <1>0, <1>3 DEF DelayProcessShutdown, Callable, Sound
  <2>2. d \in HostObject
    <3>1. host.delays + 1 \in 0..MaxRefs /\ host.timers + 1 \in 0..MaxRefs
      BY <1>0, <2>1
    <3> QED
      BY <1>0, <3>1 DEF HostObject
  <2>3. /\ SameProcess(host, d) /\ d.delays = host.delays + 1
        /\ d.timers = host.timers + 1
    BY <1>0, <2>1 DEF HostObject, SameProcess
  <2>4. Kept(d)
    BY <1>0, <2>3 DEF Kept, AreAllRefCountsZero
  <2> HIDE DEF d
  <2>5. ~d.disabled => d.timers <= d.delays
    BY <1>0, <2>1, <2>3 DEF Sound
  <2>6. Sound(d) /\ Alike(host, d)
    BY <1>0, <2>2, <2>3, <2>5, SameProcessSound
  <2> QED
    BY <1>0, <2>1, <2>2, <2>4, <2>6, KeptAlike, BecomeKeeps
<1> QED
  BY <1>1, <1>2, <1>3

\* References that are let go.
LEMMA Dereferenced ==
    ASSUME HostInv,
           \/ DecrementKeepAliveRefCount \/ DecrementWorkerRefCount
           \/ CancelProcessShutdownDelay \/ DisableRefCounts
    PROVE  HostStep
<1>0. /\ host \in HostObject /\ Sound(host) /\ Kept(host)
      /\ MaxRefs \in Nat /\ host.keepAlive \in 0..MaxRefs /\ host.workers \in 0..MaxRefs
      /\ host.delays \in 0..MaxRefs /\ host.timers \in 0..MaxRefs
  BY HostAssumption DEF HostInv, HostTypeOK, HostObject
<1>1. CASE DecrementKeepAliveRefCount
  <2> DEFINE m == [host EXCEPT !.keepAlive = @ - 1]
  <2>1. host.keepAlive > 0 /\ Become(CleanupIfUnreferenced(m))
    BY <1>1 DEF DecrementKeepAliveRefCount
  <2>2. ~host.deleting
    BY <1>0, <2>1 DEF Sound, Quiet, AreAllRefCountsZero
  <2>3. m \in HostObject
    <3>1. host.keepAlive - 1 \in 0..MaxRefs
      BY <1>0, <2>1
    <3> QED
      BY <1>0, <3>1 DEF HostObject
  <2>4. SameProcess(host, m) /\ (~m.disabled => m.timers <= m.delays)
    BY <1>0, <2>2 DEF HostObject, SameProcess, Sound
  <2> HIDE DEF m
  <2> QED
    BY <1>0, <2>1, <2>3, <2>4, SameProcessSound, CleanupAlike, BecomeKeeps
<1>2. CASE DecrementWorkerRefCount
  <2> DEFINE m == [host EXCEPT !.workers = @ - 1]
  <2>1. host.workers > 0 /\ Become(CleanupIfUnreferenced(m))
    BY <1>2 DEF DecrementWorkerRefCount
  <2>2. ~host.deleting
    BY <1>0, <2>1 DEF Sound, Quiet, AreAllRefCountsZero
  <2>3. m \in HostObject
    <3>1. host.workers - 1 \in 0..MaxRefs
      BY <1>0, <2>1
    <3> QED
      BY <1>0, <3>1 DEF HostObject
  <2>4. SameProcess(host, m) /\ (~m.disabled => m.timers <= m.delays)
    BY <1>0, <2>2 DEF HostObject, SameProcess, Sound
  <2> HIDE DEF m
  <2> QED
    BY <1>0, <2>1, <2>3, <2>4, SameProcessSound, CleanupAlike, BecomeKeeps
<1>3. CASE CancelProcessShutdownDelay
  <2> DEFINE h == [host EXCEPT !.timers = @ - 1]
             m == [h EXCEPT !.delays = @ - 1]
  <2>1. /\ host.timers > 0 /\ ~host.within
        /\ Become(IF Delayed(h) THEN CleanupIfUnreferenced(m) ELSE h)
    BY <1>3 DEF CancelProcessShutdownDelay
  <2>2. ~host.deleting
    BY <1>0, <2>1 DEF Sound, Quiet
  <2>3. h \in HostObject
    <3>1. host.timers - 1 \in 0..MaxRefs
      BY <1>0, <2>1
    <3> QED
      BY <1>0, <3>1 DEF HostObject
  <2>4. /\ SameProcess(host, h) /\ h.disabled = host.disabled /\ h.delays = host.delays
        /\ h.timers = host.timers - 1 /\ h.keepAlive = host.keepAlive
        /\ h.workers = host.workers /\ h.frames = host.frames /\ h.view = host.view
        /\ h.used = host.used /\ h.within = host.within
    BY <1>0, <2>2 DEF HostObject, SameProcess
  <2>5. ~host.disabled => host.timers <= host.delays
    BY <1>0 DEF Sound
  <2> HIDE DEF h
  <2>6. CASE Delayed(h)
    <3>1. m \in HostObject
      <4>1. h.delays - 1 \in 0..MaxRefs
        BY <1>0, <2>1, <2>4, <2>5, <2>6 DEF Delayed
      <4> QED
        BY <2>3, <4>1 DEF HostObject
    <3>2. /\ SameProcess(host, m) /\ m.disabled = h.disabled /\ m.timers = h.timers
          /\ m.delays = h.delays - 1
      BY <2>3, <2>4 DEF HostObject, SameProcess
    <3>3. ~m.disabled => m.timers <= m.delays
      BY <1>0, <2>4, <2>5, <3>2
    <3> HIDE DEF m
    <3> QED
      BY <1>0, <2>1, <2>6, <3>1, <3>2, <3>3, SameProcessSound, CleanupAlike, BecomeKeeps
  <2>7. CASE ~Delayed(h)
    <3>1. Sound(h) /\ Alike(host, h)
      BY <1>0, <2>3, <2>4, <2>7, SameProcessSound DEF Delayed
    <3>2. Kept(h)
      BY <1>0, <2>1, <2>4, <2>2 DEF Kept, HasListeners, AreAllRefCountsZero
    <3> QED
      BY <1>0, <2>1, <2>3, <2>7, <3>1, <3>2, KeptAlike, BecomeKeeps
  <2> QED
    BY <2>6, <2>7
<1>4. CASE DisableRefCounts
  <2> DEFINE m == [host EXCEPT !.disabled = TRUE, !.keepAlive = 0, !.workers = 0,
                               !.delays = 0, !.used = TRUE]
  <2>1. ~host.deleting /\ Become(Cleanup(m))
    BY <1>4 DEF DisableRefCounts, Callable
  <2>2. m \in HostObject
    <3>1. 0 \in 0..MaxRefs
      BY <1>0
    <3> QED
      BY <1>0, <3>1 DEF HostObject
  <2>3. SameProcess(host, m) /\ m.disabled
    BY <1>0, <2>1 DEF HostObject, SameProcess
  <2> HIDE DEF m
  <2> QED
    BY <1>0, <2>1, <2>2, <2>3, SameProcessSound, CleanupAlike, BecomeKeeps
<1> QED
  BY <1>1, <1>2, <1>3, <1>4

\* Listeners come and go.
LEMMA Listened ==
    ASSUME HostInv,
           \/ AddRoute \/ RemoveRoute
           \/ \E f \in Frames : AddFrame(f) \/ FrameBecomesLive(f) \/ RemoveFrame(f)
    PROVE  HostStep
<1>0. host \in HostObject /\ Sound(host) /\ Kept(host)
  BY DEF HostInv, HostTypeOK
<1>1. CASE AddRoute
  <2> DEFINE m == [host EXCEPT !.view = TRUE, !.used = TRUE]
  <2>1. ~host.deleting /\ Become(m)
    BY <1>1 DEF AddRoute, Callable
  <2>2. m \in HostObject
    BY <1>0 DEF HostObject
  <2>3. SameProcess(host, m) /\ (~m.disabled => m.timers <= m.delays) /\ m.view
    BY <1>0, <2>1 DEF HostObject, SameProcess, Sound
  <2> HIDE DEF m
  <2>4. Kept(m)
    BY <2>3 DEF Kept, HasListeners
  <2> QED
    BY <1>0, <2>1, <2>2, <2>3, <2>4, SameProcessSound, KeptAlike, BecomeKeeps
<1>2. CASE RemoveRoute
  <2> DEFINE m == [host EXCEPT !.view = FALSE]
  <2>1. host.view /\ Become(Cleanup(m))
    BY <1>2 DEF RemoveRoute
  <2>2. ~host.deleting
    BY <1>0, <2>1 DEF Sound, Quiet, HasListeners
  <2>3. m \in HostObject
    BY <1>0 DEF HostObject
  <2>4. SameProcess(host, m) /\ (~m.disabled => m.timers <= m.delays)
    BY <1>0, <2>2 DEF HostObject, SameProcess, Sound
  <2> HIDE DEF m
  <2> QED
    BY <1>0, <2>1, <2>3, <2>4, SameProcessSound, CleanupAlike, BecomeKeeps
<1>3. ASSUME NEW f \in Frames, AddFrame(f) PROVE HostStep
  <2> DEFINE m == [host EXCEPT !.frames[f] = "gone", !.used = TRUE]
  <2>1. ~host.deleting /\ Become(m)
    BY <1>3 DEF AddFrame, Callable
  <2>2. m \in HostObject
    BY <1>0 DEF HostObject
  <2>3. /\ SameProcess(host, m) /\ (~m.disabled => m.timers <= m.delays)
        /\ m.frames[f] = "gone"
    BY <1>0, <2>1 DEF HostObject, SameProcess, Sound
  <2> HIDE DEF m
  <2>4. Kept(m)
    BY <2>3 DEF Kept, HasListeners
  <2> QED
    BY <1>0, <2>1, <2>2, <2>3, <2>4, SameProcessSound, KeptAlike, BecomeKeeps
<1>4. ASSUME NEW f \in Frames, FrameBecomesLive(f) PROVE HostStep
  <2> DEFINE m == [host EXCEPT !.frames[f] = "live"]
  <2>1. ~host.deleting /\ Become(m)
    BY <1>4 DEF FrameBecomesLive, Callable
  <2>2. m \in HostObject
    BY <1>0 DEF HostObject
  <2>3. /\ SameProcess(host, m) /\ (~m.disabled => m.timers <= m.delays)
        /\ m.frames[f] = "live"
    BY <1>0, <2>1 DEF HostObject, SameProcess, Sound
  <2> HIDE DEF m
  <2>4. Kept(m)
    BY <2>3 DEF Kept, HasListeners
  <2> QED
    BY <1>0, <2>1, <2>2, <2>3, <2>4, SameProcessSound, KeptAlike, BecomeKeeps
<1>5. ASSUME NEW f \in Frames, RemoveFrame(f) PROVE HostStep
  <2> DEFINE m == [host EXCEPT !.frames[f] = "none"]
  <2>1. host.frames[f] # "none" /\ Become(Cleanup(m))
    BY <1>5 DEF RemoveFrame
  <2>2. ~host.deleting
    BY <1>0, <2>1 DEF Sound, Quiet, HasListeners
  <2>3. m \in HostObject
    BY <1>0 DEF HostObject
  <2>4. SameProcess(host, m) /\ (~m.disabled => m.timers <= m.delays)
    BY <1>0, <2>2 DEF HostObject, SameProcess, Sound
  <2> HIDE DEF m
  <2> QED
    BY <1>0, <2>1, <2>3, <2>4, SameProcessSound, CleanupAlike, BecomeKeeps
<1> QED
  BY <1>1, <1>2, <1>3, <1>4, <1>5

-----------------------------------------------------------------------------
(* Launches and deaths.                                                       *)

LEMMA EnabledFields ==
    ASSUME NEW h \in HostObject, Sound(h), NEW e, e = EnableSendQueue(h)
    PROVE  /\ e \in HostObject
           /\ e.channel = IF h.channel = "none" THEN "paused" ELSE h.channel
           /\ e.queue = h.queue /\ e.checked
           /\ e.launcher = h.launcher /\ e.live = h.live /\ e.connected = h.connected
           /\ e.ready = h.ready /\ e.keepAlive = h.keepAlive /\ e.workers = h.workers
           /\ e.delays = h.delays /\ e.timers = h.timers /\ e.disabled = h.disabled
           /\ e.frames = h.frames /\ e.view = h.view /\ e.within = h.within
           /\ e.again = h.again /\ e.deleting = h.deleting /\ e.locked = h.locked
           /\ e.used = h.used
<1>1. CASE h.channel = "none"
  <2>1. e = [h EXCEPT !.channel = "paused", !.queue = <<>>, !.checked = TRUE]
    BY <1>1 DEF EnableSendQueue, InitializeChannelProxy, Sound
  <2>2. h.queue = <<>>
    BY <1>1 DEF Sound
  <2>3. e \in HostObject
    BY <2>1, EmptyQueue DEF HostObject
  <2> QED
    BY <1>1, <2>1, <2>2, <2>3 DEF HostObject
<1>2. CASE h.channel # "none"
  BY <1>2 DEF EnableSendQueue, Sound
<1> QED
  BY <1>1, <1>2

\* A host without a process is launched: what waits in the channel stays there.
LEMMA Launched ==
    ASSUME HostInv, InitHost
    PROVE  HostStep
<1> DEFINE e == EnableSendQueue(host)
           h == [e EXCEPT !.launcher = "starting", !.live = TRUE,
                          !.ready = FALSE, !.fast = FALSE]
<1>0. host \in HostObject /\ Sound(host) /\ Kept(host)
  BY DEF HostInv, HostTypeOK
<1>1. /\ ~host.deleting /\ ~host.live /\ host' = h
      /\ renderer' = [renderer EXCEPT !.told = {}]
  BY DEF InitHost, Callable, Launching
<1>2. e \in HostObject /\ e.channel = "paused" /\ e.queue = host.queue /\ e.checked
      /\ ~e.deleting /\ e.locked = host.locked /\ e.used = host.used
      /\ e.timers = host.timers /\ e.delays = host.delays /\ e.disabled = host.disabled
      /\ e.frames = host.frames /\ e.view = host.view /\ e.within = host.within
      /\ e.again = host.again /\ e.keepAlive = host.keepAlive /\ e.workers = host.workers
  <2>1. host.channel \in {"none", "paused"}
    BY <1>0, <1>1 DEF Sound, HostObject
  <2> QED
    BY <1>0, <1>1, <2>1, EnabledFields
<1> HIDE DEF e
<1>3. h \in HostObject
  BY <1>2 DEF HostObject
<1>4. /\ h.launcher = "starting" /\ h.live /\ ~h.ready /\ h.channel = "paused"
      /\ h.queue = host.queue /\ h.checked /\ ~h.deleting /\ h.used = host.used
      /\ h.timers = host.timers /\ h.delays = host.delays /\ h.disabled = host.disabled
      /\ h.frames = host.frames /\ h.view = host.view /\ h.within = host.within
      /\ h.again = host.again /\ h.keepAlive = host.keepAlive /\ h.workers = host.workers
  BY <1>2 DEF HostObject
<1> HIDE DEF h
<1>5. Sound(h)
  BY <1>0, <1>4 DEF Sound, IsReady
<1>6. Kept(h)
  BY <1>0, <1>1, <1>4 DEF Kept, HasListeners, AreAllRefCountsZero
<1>7. renderer' \in RendererView /\ renderer'.early = renderer.early
      /\ renderer'.seen = renderer.seen
  BY <1>1 DEF HostInv, HostTypeOK, RendererView
<1>8. Prepared(h, renderer')
  BY <1>1, <1>4, <1>7 DEF Prepared, HostInv
<1> QED
  BY <1>1, <1>3, <1>4, <1>5, <1>6, <1>7, <1>8
     DEF HostStep, HostInv, HostTypeOK, DestroyedStays, WaitsForDelivery

\* The introduction comes before whatever waited, so no page finds the process
\* unprepared, and all that waited is delivered.
LEMMA IntroducedFirst ==
    ASSUME NEW h \in HostObject, NEW r \in RendererView,
           NEW d, d = Delivered(r, Introduced(h), h.locked)
    PROVE  /\ d \in RendererView
           /\ d.early = r.early /\ d.seen = r.seen
           /\ "Created" \in d.told /\ (h.locked => "Locked" \in d.told)
           /\ {h.queue[i] : i \in DOMAIN h.queue} \subseteq d.told
<1> DEFINE s == Introduction(h)
           q == Introduced(h)
           Before(i) == r.told \union {q[j] : j \in 1..(i - 1)}
           Unprepared(i) == /\ q[i] = "Page"
                            /\ \/ "Created" \notin Before(i)
                               \/ h.locked /\ "Locked" \notin Before(i)
<1>1. /\ s \in Seq(Messages) /\ h.queue \in Seq(Messages)
      /\ q = s \o h.queue
      /\ Len(s) \in 1..2 /\ s[Len(s)] = "Created"
      /\ h.locked => Len(s) = 2 /\ s[1] = "Locked"
      /\ \A i \in 1..Len(s) : s[i] # "Page"
  <2>1. h.queue \in Seq(Messages) /\ q = s \o h.queue
    BY DEF Introduced, HostObject
  <2>2. CASE h.locked
    <3>1. s = <<"Locked", "Created">>
      BY <2>2 DEF Introduction
    <3> HIDE DEF s
    <3>2. s \in Seq(Messages) /\ Len(s) = 2 /\ s[1] = "Locked" /\ s[2] = "Created"
      BY <3>1 DEF Messages
    <3> QED
      BY <2>1, <3>2
  <2>3. CASE ~h.locked
    <3>1. s = <<"Created">>
      BY <2>3 DEF Introduction
    <3> HIDE DEF s
    <3>2. s \in Seq(Messages) /\ Len(s) = 1 /\ s[1] = "Created"
      BY <3>1 DEF Messages
    <3> QED
      BY <2>1, <2>3, <3>2
  <2> QED
    BY <2>2, <2>3
<1> HIDE DEF s
<1>2. /\ q \in Seq(Messages) /\ DOMAIN q = 1..(Len(s) + Len(h.queue))
      /\ \A i \in 1..Len(s) : i \in DOMAIN q /\ q[i] = s[i]
      /\ \A i \in 1..Len(h.queue) : Len(s) + i \in DOMAIN q /\ q[Len(s) + i] = h.queue[i]
  BY <1>1
<1> HIDE DEF q
<1>3. ASSUME NEW i \in DOMAIN q PROVE ~Unprepared(i)
  <2>0. i \in Nat /\ i >= 1 /\ Len(s) \in Nat /\ Len(s) >= 1
    BY <1>1, <1>2
  <2>1. CASE i <= Len(s)
    <3>1. i \in 1..Len(s)
      BY <2>0, <2>1
    <3> QED
      BY <1>1, <1>2, <3>1
  <2>2. CASE i > Len(s)
    <3>1. Len(s) \in 1..(i - 1) /\ Len(s) \in 1..Len(s) /\ 1 \in 1..(i - 1)
          /\ 1 \in 1..Len(s)
      BY <2>0, <2>2
    <3>2. q[Len(s)] = "Created" /\ (h.locked => q[1] = "Locked")
      BY <1>1, <1>2, <3>1
    <3> QED
      BY <3>1, <3>2
  <2> QED
    BY <2>0, <2>1, <2>2
<1>4. d = [r EXCEPT !.told = r.told \union {q[i] : i \in DOMAIN q},
                    !.early = r.early \/ \E i \in DOMAIN q : Unprepared(i)]
  BY DEF Delivered, q
<1>5. (r.early \/ \E i \in DOMAIN q : Unprepared(i)) = r.early
  BY <1>3 DEF RendererView
<1>6. r.told \union {q[i] : i \in DOMAIN q} \in SUBSET Messages
  BY <1>2 DEF RendererView
<1> HIDE DEF Unprepared, Before
<1>7. d = [r EXCEPT !.told = r.told \union {q[i] : i \in DOMAIN q}, !.early = r.early]
  BY <1>4, <1>5
<1>8. d \in RendererView /\ d.early = r.early /\ d.seen = r.seen
      /\ d.told = r.told \union {q[i] : i \in DOMAIN q}
  BY <1>6, <1>7 DEF RendererView
<1>9. "Created" \in d.told /\ (h.locked => "Locked" \in d.told)
  BY <1>1, <1>2, <1>8
<1>10. {h.queue[i] : i \in DOMAIN h.queue} \subseteq d.told
  <2>1. ASSUME NEW i \in DOMAIN h.queue PROVE h.queue[i] \in d.told
    <3>1. i \in 1..Len(h.queue)
      BY <1>1
    <3> QED
      BY <1>2, <1>8, <3>1
  <2> QED
    BY <2>1
<1> QED
  BY <1>8, <1>9, <1>10

\* The launch is answered, also where the object is being deleted.
LEMMA LaunchAnswered ==
    ASSUME HostInv, OnProcessLaunched
    PROVE  HostStep
<1> DEFINE h == [host EXCEPT !.launcher = "started", !.channel = "open", !.queue = <<>>]
           late == [host EXCEPT !.launcher = "started"]
           r == Delivered(renderer, Introduced(host), host.locked)
<1>0. /\ host \in HostObject /\ Sound(host) /\ Kept(host)
      /\ renderer \in RendererView /\ Prepared(host, renderer)
      /\ host.launcher = "starting" /\ ~host.within
  BY DEF HostInv, HostTypeOK, OnProcessLaunched
<1>1. CASE ~host.deleting
  <2>1. /\ host' = NoticeReady(h)
        /\ renderer' = [r EXCEPT !.seen = IF IsReady(h) THEN "ready" ELSE @]
    BY <1>1 DEF OnProcessLaunched, MeetsLaunch
  <2>2. host.live /\ ~host.ready
    BY <1>0, <1>1 DEF Sound, IsReady
  <2>3. /\ h \in HostObject /\ h.launcher = "started" /\ h.channel = "open"
        /\ h.queue = <<>> /\ h.live /\ ~h.ready /\ h.checked /\ ~h.deleting
        /\ h.timers = host.timers /\ h.delays = host.delays
        /\ h.disabled = host.disabled /\ h.frames = host.frames /\ h.view = host.view
        /\ h.within = host.within /\ h.again = host.again /\ h.used = host.used
        /\ h.keepAlive = host.keepAlive /\ h.workers = host.workers
        /\ h.locked = host.locked
    BY <1>0, <1>1, <2>2, EmptyQueue DEF HostObject, Sound
  <2> HIDE DEF h
  <2> DEFINE g == NoticeReady(h)
  <2>4. /\ g \in HostObject /\ g.launcher = "started" /\ g.channel = "open"
        /\ g.queue = <<>> /\ g.live /\ (g.ready <=> IsReady(h)) /\ g.checked
        /\ g.connected = h.connected /\ ~g.deleting
        /\ g.timers = h.timers /\ g.delays = h.delays
        /\ g.disabled = h.disabled /\ g.frames = h.frames /\ g.view = h.view
        /\ g.within = h.within /\ g.again = h.again /\ g.used = h.used
        /\ g.keepAlive = h.keepAlive /\ g.workers = h.workers
        /\ g.locked = h.locked
    <3>1. CASE IsReady(h)
      <4>1. g = [h EXCEPT !.ready = TRUE, !.checked = TRUE]
        BY <2>3, <3>1 DEF NoticeReady
      <4>2. g \in HostObject
        BY <2>3, <4>1 DEF HostObject
      <4> QED
        BY <2>3, <3>1, <4>1, <4>2 DEF HostObject
    <3>2. CASE ~IsReady(h)
      BY <2>3, <3>2 DEF NoticeReady
    <3> QED
      BY <3>1, <3>2
  <2> HIDE DEF g
  <2>5. Sound(g)
    BY <1>0, <2>3, <2>4 DEF Sound, IsReady
  <2>6. Kept(g)
    BY <1>0, <1>1, <2>3, <2>4 DEF Kept, HasListeners, AreAllRefCountsZero
  <2>7. /\ r \in RendererView /\ r.early = renderer.early /\ r.seen = renderer.seen
        /\ "Created" \in r.told /\ (host.locked => "Locked" \in r.told)
        /\ {host.queue[i] : i \in DOMAIN host.queue} \subseteq r.told
    BY <1>0, IntroducedFirst
  <2> HIDE DEF r
  <2>8. /\ renderer' \in RendererView /\ renderer'.early = r.early
        /\ renderer'.told = r.told
        /\ renderer'.seen = IF IsReady(h) THEN "ready" ELSE r.seen
    BY <2>1, <2>7 DEF RendererView
  <2>9. ~(renderer.seen = "destroyed")
    BY <1>0, <1>1 DEF Prepared
  <2>10. Prepared(g, renderer')
    BY <1>0, <2>3, <2>4, <2>7, <2>8, <2>9 DEF Prepared
  <2>11. WaitsForDelivery
    BY <1>0, <2>1, <2>4, <2>7, <2>8 DEF WaitsForDelivery, g
  <2> QED
    BY <2>1, <2>4, <2>5, <2>6, <2>8, <2>9, <2>10, <2>11
       DEF HostStep, HostInv, HostTypeOK, DestroyedStays, g
<1>2. CASE host.deleting
  <2>1. host' = late /\ renderer' = renderer
    BY <1>2 DEF OnProcessLaunched, MeetsLaunch
  <2>2. /\ late \in HostObject /\ late.channel = host.channel /\ late.queue = host.queue
        /\ late.deleting /\ late.checked = host.checked /\ late.timers = host.timers
        /\ late.disabled = host.disabled /\ late.delays = host.delays
        /\ late.live = host.live /\ late.within = host.within
        /\ late.frames = host.frames /\ late.view = host.view
        /\ late.keepAlive = host.keepAlive /\ late.workers = host.workers
        /\ late.locked = host.locked
    BY <1>0, <1>2 DEF HostObject
  <2> HIDE DEF late
  <2>3. Sound(late)
    BY <1>0, <1>2, <2>2 DEF Sound, Quiet, HasListeners, AreAllRefCountsZero
  <2>4. Kept(late) /\ Prepared(late, renderer)
    BY <1>0, <2>2 DEF Kept, Prepared
  <2> QED
    BY <1>0, <2>1, <2>2, <2>3, <2>4
       DEF HostStep, HostInv, HostTypeOK, DestroyedStays, WaitsForDelivery
<1> QED
  BY <1>1, <1>2

\* The connection comes, before or after the answer to the launch.
LEMMA Connected ==
    ASSUME HostInv, OnChannelConnected
    PROVE  HostStep
<1> DEFINE h == [host EXCEPT !.connected = TRUE]
           g == NoticeReady(h)
<1>0. /\ host \in HostObject /\ Sound(host) /\ Kept(host)
      /\ renderer \in RendererView /\ Prepared(host, renderer)
      /\ host.channel # "none" /\ host.live /\ ~host.connected /\ ~host.within
      /\ host' = g
      /\ renderer' = [renderer EXCEPT !.seen = IF IsReady(h) THEN "ready" ELSE @]
  BY DEF HostInv, HostTypeOK, OnChannelConnected
<1>1. ~host.deleting /\ ~host.ready
  BY <1>0 DEF Sound, Quiet, IsReady
<1>2. h \in HostObject /\ h.connected
      /\ ~h.ready /\ h.checked /\ h.timers = host.timers /\ h.delays = host.delays
      /\ h.disabled = host.disabled /\ h.frames = host.frames /\ h.view = host.view
      /\ h.within = host.within /\ h.again = host.again /\ h.used = host.used
      /\ h.keepAlive = host.keepAlive /\ h.workers = host.workers
      /\ h.launcher = host.launcher /\ h.live /\ h.channel = host.channel
      /\ h.queue = host.queue /\ h.locked = host.locked /\ ~h.deleting
  BY <1>0, <1>1 DEF HostObject, Sound
<1> HIDE DEF h
<1>3. /\ g \in HostObject /\ (g.ready <=> IsReady(h)) /\ g.checked /\ g.connected
      /\ g.timers = h.timers /\ g.delays = h.delays /\ g.disabled = h.disabled
      /\ g.frames = h.frames /\ g.view = h.view /\ g.within = h.within
      /\ g.again = h.again /\ g.used = h.used /\ g.keepAlive = h.keepAlive
      /\ g.workers = h.workers /\ g.launcher = h.launcher /\ g.live
      /\ g.channel = h.channel /\ g.queue = h.queue /\ g.locked = h.locked
      /\ ~g.deleting
  <2>1. CASE IsReady(h)
    <3>1. g = [h EXCEPT !.ready = TRUE, !.checked = TRUE]
      BY <1>2, <2>1 DEF NoticeReady
    <3> QED
      BY <1>2, <2>1, <3>1 DEF HostObject
  <2>2. CASE ~IsReady(h)
    BY <1>2, <2>2 DEF NoticeReady
  <2> QED
    BY <2>1, <2>2
<1> HIDE DEF g
<1>4. Sound(g)
  BY <1>0, <1>1, <1>2, <1>3 DEF Sound, IsReady
<1>5. Kept(g)
  BY <1>0, <1>1, <1>2, <1>3 DEF Kept, HasListeners, AreAllRefCountsZero
<1>6. /\ renderer' \in RendererView /\ renderer'.early = renderer.early
      /\ renderer'.told = renderer.told
      /\ renderer'.seen = IF IsReady(h) THEN "ready" ELSE renderer.seen
  BY <1>0 DEF RendererView
<1>7. ~(renderer.seen = "destroyed")
  BY <1>0, <1>1 DEF Prepared
<1>8. Prepared(g, renderer')
  BY <1>0, <1>2, <1>3, <1>6, <1>7 DEF Prepared
<1> QED
  BY <1>0, <1>2, <1>3, <1>4, <1>5, <1>6, <1>7, <1>8
     DEF HostStep, HostInv, HostTypeOK, DestroyedStays, WaitsForDelivery

\* The process dies, or its launch fails, or it is shut down.
LEMMA Dies ==
    ASSUME HostInv, OnProcessLaunchFailed \/ OnChannelError \/ FastShutdownIfPossible
    PROVE  HostStep
<1>0. host \in HostObject /\ Sound(host) /\ Kept(host)
  BY DEF HostInv, HostTypeOK
<1>1. ASSUME ~host.deleting, ~host.within, host.live, Become(Died(host))
      PROVE  HostStep
  <2>1. Follows(host, Died(host))
    BY <1>0, <1>1, DiedFollows DEF Kept
  <2> QED
    BY <1>1, <2>1, BecomeKeeps
<1>2. CASE OnProcessLaunchFailed
  <2>1. CASE ~host.deleting
    <3>1. host.live /\ ~host.within /\ Become(Died(host))
      BY <1>0, <1>2, <2>1 DEF OnProcessLaunchFailed, MeetsLaunch, Sound
    <3> QED
      BY <1>1, <2>1, <3>1
  <2>2. CASE host.deleting
    <3> DEFINE late == [host EXCEPT !.launcher = "started"]
    <3>1. Become(late)
      BY <1>2, <2>2 DEF OnProcessLaunchFailed, MeetsLaunch
    <3>2. /\ late \in HostObject /\ late.channel = host.channel
          /\ late.queue = host.queue
          /\ late.deleting /\ late.checked = host.checked /\ late.timers = host.timers
          /\ late.disabled = host.disabled /\ late.delays = host.delays
          /\ late.live = host.live /\ late.within = host.within
          /\ late.frames = host.frames /\ late.view = host.view
          /\ late.keepAlive = host.keepAlive /\ late.workers = host.workers
          /\ late.locked = host.locked
      BY <1>0, <2>2 DEF HostObject
    <3> HIDE DEF late
    <3>3. Sound(late)
      BY <1>0, <2>2, <3>2 DEF Sound, Quiet, HasListeners, AreAllRefCountsZero
    <3>4. Follows(host, late)
      BY <3>2, <3>3 DEF Follows, Kept
    <3> QED
      BY <3>1, <3>4, BecomeKeeps
  <2> QED
    BY <2>1, <2>2
<1>3. CASE OnChannelError
  <2>1. ~host.deleting
    BY <1>0, <1>3 DEF OnChannelError, Sound, Quiet
  <2> QED
    BY <1>1, <1>3, <2>1 DEF OnChannelError
<1>4. CASE FastShutdownIfPossible
  <2> DEFINE m == [host EXCEPT !.fast = TRUE]
  <2>1. ~host.deleting /\ host.live
        /\ Become(IF host.within THEN [m EXCEPT !.reentered = TRUE] ELSE Died(m))
    BY <1>0, <1>4 DEF FastShutdownIfPossible, Callable, Sound
  <2>2. m \in HostObject
    BY <1>0 DEF HostObject
  <2>3. /\ SameProcess(host, m) /\ m.within = host.within /\ m.used = host.used
        /\ m.again = host.again /\ m.frames = host.frames /\ m.view = host.view
        /\ m.keepAlive = host.keepAlive /\ m.workers = host.workers
        /\ m.delays = host.delays /\ (~m.disabled => m.timers <= m.delays)
    BY <1>0, <2>1 DEF HostObject, SameProcess, Sound
  <2> HIDE DEF m
  <2>4. Sound(m) /\ Alike(host, m)
    BY <1>0, <2>2, <2>3, SameProcessSound
  <2>5. Kept(m)
    BY <1>0, <2>3 DEF Kept, HasListeners, AreAllRefCountsZero, SameProcess
  <2>6. CASE host.within
    <3> DEFINE g == [m EXCEPT !.reentered = TRUE]
    <3>1. g \in HostObject
      BY <2>2 DEF HostObject
    <3>2. /\ SameProcess(host, g) /\ g.within = m.within /\ g.used = m.used
          /\ g.again = m.again /\ g.frames = m.frames /\ g.view = m.view
          /\ g.keepAlive = m.keepAlive /\ g.workers = m.workers
          /\ g.delays = m.delays /\ (~g.disabled => g.timers <= g.delays)
      BY <2>2, <2>3 DEF HostObject, SameProcess
    <3> HIDE DEF g
    <3>3. Sound(g) /\ Alike(host, g)
      BY <1>0, <3>1, <3>2, SameProcessSound
    <3>4. Kept(g)
      BY <2>3, <2>5, <3>2 DEF Kept, HasListeners, AreAllRefCountsZero, SameProcess
    <3>5. Become(g)
      BY <2>1, <2>6 DEF g
    <3> QED
      BY <1>0, <3>1, <3>3, <3>4, <3>5, KeptAlike, BecomeKeeps
  <2>7. CASE ~host.within
    <3>1. m.used => HasListeners(m) \/ ~AreAllRefCountsZero(m)
      BY <2>1, <2>3, <2>5, <2>7 DEF Kept, SameProcess
    <3>2. Follows(m, Died(m))
      BY <2>1, <2>2, <2>3, <2>4, <2>7, <3>1, DiedFollows DEF Alike
    <3>3. Follows(host, Died(m))
      BY <2>4, <3>2 DEF Follows, Alike
    <3> QED
      BY <2>1, <2>7, <3>3, BecomeKeeps
  <2> QED
    BY <2>6, <2>7
<1> QED
  BY <1>2, <1>3, <1>4

\* The observers of a death return: the object can be launched anew, or is
\* cleaned up if one of them asked for it.
LEMMA DeathTold ==
    ASSUME HostInv, ProcessDiedReturns
    PROVE  HostStep
<1> DEFINE e == [host EXCEPT !.within = FALSE]
           h == EnableSendQueue(e)
<1>0. host \in HostObject /\ Sound(host) /\ Kept(host) /\ host.within
      /\ Become(IF h.again THEN Cleanup(h) ELSE h)
  BY DEF HostInv, HostTypeOK, ProcessDiedReturns
<1>1. ~host.deleting
  BY <1>0 DEF Sound, Quiet
<1>2. /\ e \in HostObject /\ SameProcess(host, e) /\ e.timers = host.timers
      /\ e.delays = host.delays /\ e.disabled = host.disabled
      /\ e.frames = host.frames /\ e.view = host.view /\ e.again = host.again
      /\ e.used = host.used /\ e.keepAlive = host.keepAlive /\ e.workers = host.workers
  BY <1>0, <1>1 DEF HostObject, SameProcess
<1> HIDE DEF e
<1>3. Sound(e)
  BY <1>0, <1>2, SameProcessSound DEF Sound
<1>4. /\ h \in HostObject
      /\ h.channel = IF e.channel = "none" THEN "paused" ELSE e.channel
      /\ h.queue = e.queue /\ h.checked /\ h.launcher = e.launcher /\ h.live = e.live
      /\ h.connected = e.connected /\ h.ready = e.ready /\ h.keepAlive = e.keepAlive
      /\ h.workers = e.workers /\ h.delays = e.delays /\ h.timers = e.timers
      /\ h.disabled = e.disabled /\ h.frames = e.frames /\ h.view = e.view
      /\ h.again = e.again /\ h.deleting = e.deleting /\ h.locked = e.locked
      /\ h.used = e.used
  BY <1>2, <1>3, EnabledFields
<1> HIDE DEF h
<1>5. Sound(h)
  BY <1>2, <1>3, <1>4 DEF Sound, IsReady, SameProcess
<1>6. CASE h.again
  <2>1. Follows(h, Cleanup(h))
    BY <1>2, <1>4, <1>5, CleanupFollows DEF SameProcess
  <2>2. Follows(host, Cleanup(h))
    BY <1>1, <1>2, <1>4, <2>1 DEF Follows, SameProcess
  <2> QED
    BY <1>0, <1>6, <2>2, BecomeKeeps
<1>7. CASE ~h.again
  <2>1. Kept(h)
    BY <1>0, <1>1, <1>2, <1>4, <1>7 DEF Kept, HasListeners, AreAllRefCountsZero
  <2>2. Follows(host, h)
    BY <1>1, <1>2, <1>4, <1>5, <2>1 DEF Follows, SameProcess
  <2> QED
    BY <1>0, <1>7, <2>2, BecomeKeeps
<1> QED
  BY <1>6, <1>7

\* A message is sent: queued, delivered to a prepared process, or dropped.
LEMMA TellsOne ==
    ASSUME NEW r \in RendererView, NEW m \in Messages, NEW locked \in BOOLEAN
    PROVE  /\ Told(r, m, locked) \in RendererView
           /\ Told(r, m, locked).told = r.told \union {m}
           /\ Told(r, m, locked).seen = r.seen
           /\ m = "Page" /\ "Created" \in r.told /\ (locked => "Locked" \in r.told) =>
                Told(r, m, locked).early = r.early
           /\ m # "Page" => Told(r, m, locked).early = r.early
<1> DEFINE e == r.early \/ /\ m = "Page"
                           /\ \/ "Created" \notin r.told
                              \/ locked /\ "Locked" \notin r.told
<1>1. Told(r, m, locked) = [r EXCEPT !.told = r.told \union {m}, !.early = e]
  BY DEF Told
<1>2. e \in BOOLEAN /\ (r.told \union {m}) \in SUBSET Messages
  BY DEF RendererView
<1>3. m = "Page" /\ "Created" \in r.told /\ (locked => "Locked" \in r.told) => e = r.early
  BY DEF RendererView
<1>4. m # "Page" => e = r.early
  BY DEF RendererView
<1> HIDE DEF e
<1> QED
  BY <1>1, <1>2, <1>3, <1>4 DEF RendererView

LEMMA PageSent ==
    ASSUME HostInv, SendPage
    PROVE  HostStep
<1>0. /\ host \in HostObject /\ Sound(host) /\ Kept(host) /\ ~host.deleting
      /\ renderer \in RendererView /\ Prepared(host, renderer) /\ Send("Page")
  BY DEF HostInv, HostTypeOK, SendPage, Callable
<1>1. CASE host.channel = "none"
  <2>1. UNCHANGED hostVars
    BY <1>0, <1>1 DEF Send
  <2> QED
    BY <2>1 DEF hostVars, HostStep, HostInv, HostTypeOK, DestroyedStays, WaitsForDelivery
<1>2. CASE host.channel = "paused"
  <2> DEFINE h == [host EXCEPT !.queue = Append(@, "Page")]
  <2>1. host' = h /\ renderer' = renderer
    BY <1>0, <1>2 DEF Send
  <2>2. host.queue \in Seq(Messages) /\ "Page" \in Messages
    BY <1>0 DEF HostObject, Messages
  <2>3. Append(host.queue, "Page") \in Seq(Messages) /\ Append(host.queue, "Page") # <<>>
    BY <2>2
  <2>4. /\ h \in HostObject /\ h.queue # <<>>
        /\ h.channel = "paused" /\ h.checked /\ h.disabled = host.disabled
        /\ h.timers = host.timers /\ h.delays = host.delays /\ h.live = host.live
        /\ h.launcher = host.launcher /\ h.connected = host.connected
        /\ h.ready = host.ready /\ ~h.deleting /\ h.used = host.used
        /\ h.within = host.within /\ h.again = host.again /\ h.frames = host.frames
        /\ h.view = host.view /\ h.keepAlive = host.keepAlive
        /\ h.workers = host.workers /\ h.locked = host.locked
    BY <1>0, <1>2, <2>3 DEF HostObject, Sound
  <2> HIDE DEF h
  <2>5. Sound(h)
    BY <1>0, <2>4 DEF Sound, IsReady
  <2>6. Kept(h) /\ Prepared(h, renderer)
    BY <1>0, <2>4 DEF Kept, Prepared, HasListeners, AreAllRefCountsZero
  <2> QED
    BY <1>0, <2>1, <2>4, <2>5, <2>6
       DEF HostStep, HostInv, HostTypeOK, DestroyedStays, WaitsForDelivery
<1>3. CASE host.channel = "open"
  <2>1. host' = host /\ renderer' = Told(renderer, "Page", host.locked)
    BY <1>0, <1>3 DEF Send
  <2>2. /\ renderer' \in RendererView /\ renderer'.told = renderer.told \union {"Page"}
        /\ renderer'.seen = renderer.seen /\ renderer'.early = renderer.early
    BY <1>0, <1>3, <2>1, TellsOne DEF Prepared, HostObject, Messages
  <2>3. Prepared(host, renderer')
    BY <1>0, <2>2 DEF Prepared
  <2> QED
    BY <1>0, <2>1, <2>2, <2>3
       DEF HostStep, HostInv, HostTypeOK, DestroyedStays, WaitsForDelivery
<1> QED
  BY <1>0, <1>1, <1>2, <1>3 DEF HostObject

\* The host is locked to a site: a process that is there is told, one that is
\* to come will be.
LEMMA LockSet ==
    ASSUME HostInv, SetProcessLock
    PROVE  HostStep
<1> DEFINE q == IF host.channel = "paused" THEN Append(host.queue, "Locked")
                ELSE host.queue
           h == [host EXCEPT !.locked = TRUE, !.queue = q]
<1>0. /\ host \in HostObject /\ Sound(host) /\ Kept(host) /\ ~host.deleting
      /\ renderer \in RendererView /\ Prepared(host, renderer)
      /\ host' = h
      /\ renderer' = IF host.channel = "open" THEN Told(renderer, "Locked", TRUE)
                     ELSE renderer
  BY DEF HostInv, HostTypeOK, SetProcessLock, Callable
<1>1. /\ q \in Seq(Messages) /\ (host.queue # <<>> => q # <<>>)
      /\ (host.channel # "paused" => q = <<>>)
  <2>1. host.queue \in Seq(Messages) /\ "Locked" \in Messages
    BY <1>0 DEF HostObject, Messages
  <2>2. Append(host.queue, "Locked") \in Seq(Messages) /\ Append(host.queue, "Locked") # <<>>
    BY <2>1
  <2> QED
    BY <1>0, <2>1, <2>2 DEF Sound
<1> HIDE DEF q
<1>2. /\ h \in HostObject /\ h.queue = q /\ h.locked
      /\ h.channel = host.channel /\ h.checked /\ h.disabled = host.disabled
      /\ h.timers = host.timers /\ h.delays = host.delays /\ h.live = host.live
      /\ h.launcher = host.launcher /\ h.connected = host.connected
      /\ h.ready = host.ready /\ ~h.deleting /\ h.used = host.used
      /\ h.within = host.within /\ h.again = host.again /\ h.frames = host.frames
      /\ h.view = host.view /\ h.keepAlive = host.keepAlive
      /\ h.workers = host.workers
  BY <1>0, <1>1 DEF HostObject, Sound
<1> HIDE DEF h
<1>3. Sound(h)
  BY <1>0, <1>1, <1>2 DEF Sound, IsReady
<1>4. Kept(h)
  BY <1>0, <1>2 DEF Kept, HasListeners, AreAllRefCountsZero
<1>5. /\ renderer' \in RendererView /\ renderer'.seen = renderer.seen
      /\ renderer'.early = renderer.early /\ renderer.told \subseteq renderer'.told
      /\ host.channel = "open" => "Locked" \in renderer'.told
  <2>1. "Locked" \in Messages /\ "Locked" # "Page" /\ TRUE \in BOOLEAN
    BY DEF Messages
  <2> QED
    BY <1>0, <2>1, TellsOne
<1>6. Prepared(h, renderer')
  BY <1>0, <1>2, <1>5 DEF Prepared
<1> QED
  BY <1>0, <1>1, <1>2, <1>3, <1>4, <1>5, <1>6
     DEF HostStep, HostInv, HostTypeOK, DestroyedStays, WaitsForDelivery

-----------------------------------------------------------------------------
LEMMA HostInvInit == HostInit => HostInv
<1> SUFFICES ASSUME HostInit PROVE HostInv
  OBVIOUS
<1>1. host = New /\ renderer = [told |-> {}, early |-> FALSE, seen |-> "nothing"]
  BY DEF HostInit
<1>2. 0 \in 0..MaxRefs /\ <<>> \in Seq(Messages)
  BY HostAssumption
<1>3. New \in HostObject
  BY <1>2 DEF New, HostObject
<1>4. Sound(New) /\ Kept(New) /\ Prepared(New, renderer)
  BY <1>1 DEF New, Sound, Kept, Prepared
<1> QED
  BY <1>1, <1>3, <1>4 DEF HostInv, HostTypeOK, RendererView

LEMMA HostInvNext == HostInv /\ [HostNext]_hostVars => HostStep
<1> SUFFICES ASSUME HostInv, [HostNext]_hostVars PROVE HostStep
  OBVIOUS
<1>1. CASE UNCHANGED hostVars
  BY <1>1 DEF hostVars, HostStep, HostInv, HostTypeOK, DestroyedStays, WaitsForDelivery
<1> QED
  BY <1>1, Launched, LaunchAnswered, Connected, Dies, DeathTold, LockSet, PageSent,
     Referenced, Dereferenced, Listened DEF HostNext

LEMMA HostInvariant == HostSpec => []HostInv
<1>1. HostInv /\ [HostNext]_hostVars => HostInv'
  BY HostInvNext DEF HostStep
<1> QED
  BY <1>1, HostInvInit, PTL DEF HostSpec

\* Reference counts, queues and all other members keep their types, for any
\* number of frames and any bounds.
THEOREM HostTypeCorrect == HostSpec => []HostTypeOK
<1>1. HostInv => HostTypeOK
  BY DEF HostInv
<1> QED
  BY <1>1, HostInvariant, PTL

\* But for the DCHECK that a fast shutdown may meet, no CHECK on the way of a
\* launch, a death or a clean-up fails: the object is not deleted twice, reports
\* itself ready once for each process, and neither a clean-up nor a failure makes
\* its process die while it tells of the death of another.
THEOREM HostChecksNeverFail == HostSpec => []HostChecksHold
<1>1. HostInv => HostChecksHold
  BY DEF HostInv, Sound, HostChecksHold
<1> QED
  BY <1>1, HostInvariant, PTL

\* Page code runs only in processes that were prepared and know their lock,
\* whenever it was sent and whenever the lock was set.
THEOREM PagesNeverEarly == HostSpec => []PagesRunInitialised
<1>1. HostInv => PagesRunInitialised
  BY DEF HostInv, Prepared, PagesRunInitialised
<1> QED
  BY <1>1, HostInvariant, PTL

\* A process counts as ready exactly when it was launched and has connected, in
\* either order.
THEOREM ReadyExactly == HostSpec => []ReadyWhenBoth
<1>1. HostInv => ReadyWhenBoth
  BY DEF HostInv, Sound, ReadyWhenBoth
<1> QED
  BY <1>1, HostInvariant, PTL

\* Whoever lets go of the object last, and when, it is cleaned up.
THEOREM NothingLeaks == HostSpec => []NoLeak
<1>1. HostInv => NoLeak
  BY DEF HostInv, Kept, NoLeak
<1> QED
  BY <1>1, HostInvariant, PTL

\* Once observers were told of the destruction they are told nothing more.
THEOREM DestructionIsLast == HostSpec => DestroyedIsLast
<1>1. HostInv /\ [HostNext]_hostVars => [DestroyedStays]_hostVars
  BY HostInvNext DEF HostStep
<1> QED
  BY <1>1, HostInvariant, PTL DEF HostSpec, DestroyedIsLast

\* What is queued for a process to come reaches it, unless it is deleted or the
\* process dies that it was meant for.
THEOREM QueueIsDelivered == HostSpec => NothingQueuedIsLost
<1>1. HostInv /\ [HostNext]_hostVars => [WaitsForDelivery]_hostVars
  BY HostInvNext DEF HostStep
<1> QED
  BY <1>1, HostInvariant, PTL DEF HostSpec, NothingQueuedIsLost
-----------------------------------------------------------------------------
(* The priority of a process (RenderProcessPriority), for any number of widgets.*)

\* The records, whatever is in them: which widgets there are plays no part.
IsPriority(p) ==
    p = [visible |-> p.visible, media |-> p.media, worker |-> p.worker,
         depth |-> p.depth, intersects |-> p.intersects, boost |-> p.boost]

IsMembers(m) ==
    /\ m = [inputs |-> m.inputs, media |-> m.media, workers |-> m.workers,
            pending |-> m.pending, override |-> m.override, always |-> m.always,
            priority |-> m.priority, checked |-> m.checked]
    /\ IsPriority(m.priority)

IsProcess(q) ==
    q = [launcher |-> q.launcher, lowered |-> q.lowered, told |-> q.told, odd |-> q.odd]

\* What a host's priority_ and the process have to do with each other: a process
\* that is still to come will be what the launcher makes of it, and one that is
\* there was told of the last change.
Agrees(m, q) ==
    /\ q.launcher # "started" => m.priority.visible = ~kLaunchingProcessIsBackgrounded
    /\ q.launcher = "started" /\ ~q.odd =>
         /\ q.lowered = is_background(m.priority)
         /\ q.told = State(m.priority)

PriorityInv ==
    /\ IsMembers(members) /\ IsProcess(process)
    /\ Agrees(members, process)
    /\ members.checked

LEMMA PriorityOf ==
    ASSUME NEW v, NEW e, NEW w, NEW d, NEW i, NEW b
    PROVE  LET p == [visible |-> v, media |-> e, worker |-> w, depth |-> d,
                     intersects |-> i, boost |-> b]
           IN  IsPriority(p) /\ p.visible = v
BY DEF IsPriority

\* A record with other members is one of these again.
LEMMA MembersOf ==
    ASSUME NEW i, NEW e, NEW w, NEW n, NEW o, NEW a, NEW p, IsPriority(p), NEW c
    PROVE  LET m == [inputs |-> i, media |-> e, workers |-> w, pending |-> n,
                     override |-> o, always |-> a, priority |-> p, checked |-> c]
           IN  IsMembers(m) /\ m.priority = p /\ m.checked = c
BY DEF IsMembers

LEMMA ChangeKeeps ==
    ASSUME NEW m, IsMembers(m), NEW x
    PROVE  \A n \in {[m EXCEPT !.inputs = x], [m EXCEPT !.media = x],
                     [m EXCEPT !.workers = x],
                     [m EXCEPT !.pending = x], [m EXCEPT !.override = x]} :
               IsMembers(n) /\ n.priority = m.priority /\ n.checked = m.checked
<1>1. [m EXCEPT !.inputs = x] =
       [inputs |-> x, media |-> m.media, workers |-> m.workers, pending |-> m.pending,
        override |-> m.override, always |-> m.always, priority |-> m.priority,
        checked |-> m.checked]
  BY DEF IsMembers
<1>2. [m EXCEPT !.media = x] =
       [inputs |-> m.inputs, media |-> x, workers |-> m.workers, pending |-> m.pending,
        override |-> m.override, always |-> m.always, priority |-> m.priority,
        checked |-> m.checked]
  BY DEF IsMembers
<1>3. [m EXCEPT !.workers = x] =
       [inputs |-> m.inputs, media |-> m.media, workers |-> x, pending |-> m.pending,
        override |-> m.override, always |-> m.always, priority |-> m.priority,
        checked |-> m.checked]
  BY DEF IsMembers
<1>4. [m EXCEPT !.pending = x] =
       [inputs |-> m.inputs, media |-> m.media, workers |-> m.workers, pending |-> x,
        override |-> m.override, always |-> m.always, priority |-> m.priority,
        checked |-> m.checked]
  BY DEF IsMembers
<1>5. [m EXCEPT !.override = x] =
       [inputs |-> m.inputs, media |-> m.media, workers |-> m.workers, pending |-> m.pending,
        override |-> x, always |-> m.always, priority |-> m.priority,
        checked |-> m.checked]
  BY DEF IsMembers
<1>6. IsPriority(m.priority)
  BY DEF IsMembers
<1> QED
  BY <1>1, <1>2, <1>3, <1>4, <1>5, <1>6, MembersOf

LEMMA ComputedIsPriority == \A m : IsPriority(Computed(m))
BY DEF IsPriority, Computed, Overridden

\* Where nothing was told nothing had changed that anybody is told of.
LEMMA SilenceIsAgreement ==
    ASSUME NEW old, NEW new, ~Tells(old, new)
    PROVE  State(old) = State(new)
BY DEF Tells, State, is_background

\* The update repairs what the new members changed: m may differ from members in
\* everything but the priority and the history.
LEMMA UpdateKeeps ==
    ASSUME NEW m, IsMembers(m), m.checked, NEW q, IsProcess(q),
           q.launcher = "started" => Agrees(m, q),
           UpdateProcessPriority(m, q)
    PROVE  PriorityInv'
<1>1. CASE q.launcher # "started"
  <2>1. members' = [m EXCEPT !.priority = Reset(m.priority)] /\ process' = q
    BY <1>1 DEF UpdateProcessPriority
  <2>2. IsPriority(Reset(m.priority)) /\ Reset(m.priority).visible = ~kLaunchingProcessIsBackgrounded
    <3>1. Reset(m.priority) =
            [visible |-> ~kLaunchingProcessIsBackgrounded, media |-> m.priority.media,
             worker |-> m.priority.worker, depth |-> m.priority.depth,
             intersects |-> m.priority.intersects, boost |-> TRUE]
      <4> DEFINE r == m.priority
                 visible == ~kLaunchingProcessIsBackgrounded
      <4>1. r = [visible |-> r.visible, media |-> r.media, worker |-> r.worker,
                 depth |-> r.depth, intersects |-> r.intersects, boost |-> r.boost]
        BY DEF IsMembers, IsPriority
      <4>2. Reset(r) = [r EXCEPT !.visible = visible, !.boost = TRUE]
        BY DEF Reset
      <4> HIDE DEF r, visible
      <4> DEFINE shown == [visible |-> visible, media |-> r.media, worker |-> r.worker,
                           depth |-> r.depth, intersects |-> r.intersects,
                           boost |-> r.boost]
      <4>3. [r EXCEPT !.visible = visible] = shown
        BY <4>1
      <4>4. [r EXCEPT !.visible = visible, !.boost = TRUE] = [shown EXCEPT !.boost = TRUE]
        <5> HIDE DEF shown
        <5> QED
          BY <4>3
      <4> QED
        BY <4>2, <4>4 DEF r, visible
    <3> QED
      BY <3>1, PriorityOf
  <2> DEFINE p == Reset(m.priority)
  <2> HIDE DEF p
  <2>3. members' = [m EXCEPT !.priority = p]
    BY <2>1 DEF p
  <2>4. IsMembers(members') /\ members'.priority = p /\ members'.checked
    <3>1. members' = [inputs |-> m.inputs, media |-> m.media, workers |-> m.workers,
                      pending |-> m.pending, override |-> m.override,
                      always |-> m.always, priority |-> p, checked |-> m.checked]
      BY <2>3 DEF IsMembers
    <3>2. IsPriority(p)
      BY <2>2 DEF p
    <3> QED
      BY <3>1, <3>2, MembersOf
  <2> QED
    BY <1>1, <2>1, <2>2, <2>4 DEF PriorityInv, Agrees, p
<1>2. CASE q.launcher = "started" /\ Computed(m) = m.priority
  BY <1>2 DEF UpdateProcessPriority, PriorityInv
<1>3. CASE q.launcher = "started" /\ Computed(m) # m.priority
  <2> DEFINE p == Computed(m)
  <2>1. /\ members' = [m EXCEPT !.priority = p]
        /\ process' = [q EXCEPT
              !.lowered = is_background(p),
              !.told = IF Tells(m.priority, p) THEN State(p) ELSE q.told]
    BY <1>3 DEF UpdateProcessPriority
  <2>2. IsPriority(p)
    BY ComputedIsPriority
  <2> HIDE DEF p
  <2>3. IsMembers(members') /\ members'.priority = p /\ members'.checked
    BY <2>1, <2>2 DEF IsMembers
  <2>4. /\ IsProcess(process')
        /\ process'.launcher = "started" /\ process'.odd = q.odd
        /\ process'.lowered = is_background(p)
        /\ process'.told = IF Tells(m.priority, p) THEN State(p) ELSE q.told
    BY <1>3, <2>1 DEF IsProcess
  <2>5. ~q.odd => process'.told = State(p)
    BY <1>3, <2>4, SilenceIsAgreement DEF Agrees
  <2> QED
    BY <2>3, <2>4, <2>5 DEF PriorityInv, Agrees
<1> QED
  BY <1>1, <1>2, <1>3

\* An event that changes members other than the priority, and updates it.
LEMMA EventKeeps ==
    ASSUME PriorityInv, NEW m, IsMembers(m), m.priority = members.priority,
           m.checked = members.checked,
           \/ UpdateProcessPriority(m, process)
           \/ members' = m /\ process' = process
    PROVE  PriorityInv'
<1>1. Agrees(m, process) /\ IsProcess(process) /\ m.checked
  BY DEF PriorityInv, Agrees
<1>2. CASE UpdateProcessPriority(m, process)
  BY <1>1, <1>2, UpdateKeeps
<1>3. CASE members' = m /\ process' = process
  BY <1>1, <1>3 DEF PriorityInv
<1> QED
  BY <1>2, <1>3

LEMMA PriorityInvNext == PriorityInv /\ [PriorityNext]_priorityVars => PriorityInv'
<1> SUFFICES ASSUME PriorityInv, [PriorityNext]_priorityVars PROVE PriorityInv'
  OBVIOUS
<1>1. \A m : /\ IsMembers(m) /\ m.priority = members.priority
             /\ m.checked = members.checked
             /\ \/ UpdateProcessPriority(m, process)
                \/ members' = m /\ process' = process
             => PriorityInv'
  BY EventKeeps
<1>2. \A x : LET m == [members EXCEPT !.inputs = x]
             IN  IsMembers(m) /\ m.priority = members.priority /\ m.checked = members.checked
  BY ChangeKeeps DEF PriorityInv
<1>3. \A x : LET m == [members EXCEPT !.media = x]
             IN  IsMembers(m) /\ m.priority = members.priority /\ m.checked = members.checked
  BY ChangeKeeps DEF PriorityInv
<1>4. \A x : LET m == [members EXCEPT !.workers = x]
             IN  IsMembers(m) /\ m.priority = members.priority /\ m.checked = members.checked
  BY ChangeKeeps DEF PriorityInv
<1>5. \A x : LET m == [members EXCEPT !.pending = x]
             IN  IsMembers(m) /\ m.priority = members.priority /\ m.checked = members.checked
  BY ChangeKeeps DEF PriorityInv
<1>6. \A x : LET m == [members EXCEPT !.override = x]
             IN  IsMembers(m) /\ m.priority = members.priority /\ m.checked = members.checked
  BY ChangeKeeps DEF PriorityInv
<1>7. CASE UNCHANGED <<members, process>>
  BY <1>7 DEF PriorityInv
<1>8. CASE UpdateProcessPriorityInputs
  <2> DEFINE inputs == InputsOf(clients')
  <2>1. CASE inputs # members.inputs
    BY <1>1, <1>2, <1>8, <2>1 DEF UpdateProcessPriorityInputs
  <2>2. CASE inputs = members.inputs
    BY <1>7, <1>8, <2>2 DEF UpdateProcessPriorityInputs
  <2> QED
    BY <2>1, <2>2
<1>9. CASE OnMediaStreamAdded \/ OnMediaStreamRemoved
  BY <1>1, <1>3, <1>9 DEF OnMediaStreamAdded, OnMediaStreamRemoved, Updated
<1>10. CASE OnForegroundServiceWorkerAdded \/ OnForegroundServiceWorkerRemoved
  BY <1>1, <1>4, <1>10 DEF OnForegroundServiceWorkerAdded,
                           OnForegroundServiceWorkerRemoved, Updated
<1>11. CASE AddPendingView \/ RemovePendingView
  BY <1>1, <1>5, <1>11 DEF AddPendingView, RemovePendingView, Updated
<1>12. ASSUME NEW to, SetPriorityOverride(to) PROVE PriorityInv'
  BY <1>1, <1>6, <1>12 DEF SetPriorityOverride, Updated
<1>13. CASE ClearPriorityOverride
  BY <1>1, <1>6, <1>13 DEF ClearPriorityOverride, Updated
<1>14. CASE LaunchProcess
  <2>1. /\ process.launcher = "none" /\ members' = members
        /\ process' = [process EXCEPT !.launcher = "starting"]
    BY <1>14 DEF LaunchProcess
  <2>2. IsProcess(process') /\ process'.launcher = "starting"
    BY <2>1 DEF PriorityInv, IsProcess
  <2> QED
    BY <2>1, <2>2 DEF PriorityInv, Agrees
<1>15. ASSUME NEW backgrounded \in BOOLEAN, OnProcessLaunchedAs(backgrounded)
       PROVE  PriorityInv'
  <2> DEFINE m == [members EXCEPT
                     !.priority.visible = ~backgrounded,
                     !.checked = @ /\ kLaunchingProcessIsBackgrounded = ~members.priority.visible]
             q == [launcher |-> "started", lowered |-> backgrounded,
                   told |-> [background |-> kLaunchingProcessIsBackgrounded,
                             visible |-> ~kLaunchingProcessIsBackgrounded],
                   odd |-> backgrounded # kLaunchingProcessIsBackgrounded]
  <2>1. /\ process.launcher = "starting"
        /\ \/ UpdateProcessPriority(m, q)
           \/ members' = m /\ process' = q
    BY <1>15 DEF OnProcessLaunchedAs
  <2>2. members.priority.visible = TRUE
    BY <2>1 DEF PriorityInv, Agrees, kLaunchingProcessIsBackgrounded
  <2>3. IsMembers(m) /\ m.checked /\ m.priority.visible = ~backgrounded
    <3> DEFINE p == [members.priority EXCEPT !.visible = ~backgrounded]
               checked == /\ members.checked
                          /\ kLaunchingProcessIsBackgrounded = ~members.priority.visible
    <3>1. IsPriority(p) /\ p.visible = ~backgrounded
      BY DEF PriorityInv, IsMembers, IsPriority
    <3>2. m = [inputs |-> members.inputs, media |-> members.media,
               workers |-> members.workers, pending |-> members.pending,
               override |-> members.override, always |-> members.always,
               priority |-> p, checked |-> checked]
      <4>1. m = [members EXCEPT !.priority = p, !.checked = checked]
        BY DEF PriorityInv, IsMembers
      <4> HIDE DEF m, p, checked
      <4> QED
        BY <4>1 DEF PriorityInv, IsMembers
    <3>3. checked
      BY <2>2 DEF PriorityInv, kLaunchingProcessIsBackgrounded
    <3> HIDE DEF m, p, checked
    <3> QED
      BY <3>1, <3>2, <3>3, MembersOf
  <2>4. IsProcess(q) /\ q.launcher = "started"
    BY DEF IsProcess
  <2>5. Agrees(m, q)
    BY <2>3 DEF Agrees, State, is_background, kLaunchingProcessIsBackgrounded
  <2> HIDE DEF m, q
  <2>6. CASE UpdateProcessPriority(m, q)
    BY <2>3, <2>4, <2>5, <2>6, UpdateKeeps
  <2>7. CASE members' = m /\ process' = q
    BY <2>3, <2>4, <2>5, <2>7 DEF PriorityInv
  <2> QED
    BY <2>1, <2>6, <2>7
<1>16. CASE ProcessDied
  <2>1. IsProcess(NoProcess) /\ NoProcess.launcher # "started"
    BY DEF NoProcess, IsProcess
  <2> QED
    BY <1>16, <2>1, UpdateKeeps DEF ProcessDied, PriorityInv
<1>17. CASE UNCHANGED priorityVars
  BY <1>7, <1>17 DEF priorityVars
<1> QED
  BY <1>8, <1>9, <1>10, <1>11, <1>12, <1>13, <1>14, <1>15, <1>16, <1>17
     DEF PriorityNext, AddOrUpdateClient, RemovePriorityClient

LEMMA PriorityInvInit == PriorityInit => PriorityInv
BY DEF PriorityInit, PriorityInv, IsMembers, IsPriority, IsProcess, Agrees, NoProcess

\* For any number of widgets, streams, workers and pending views: the system and
\* the renderer, which are told of differences only, take the process for what
\* its host says it is, across any sequence of launches and deaths.
THEOREM ProcessesAgree == PrioritySpec => []ProcessAgrees
<1>1. PriorityInv => ProcessAgrees
  BY DEF PriorityInv, Agrees, ProcessAgrees
<1> QED
  BY <1>1, PriorityInvInit, PriorityInvNext, PTL DEF PrioritySpec

\* The DCHECK of OnProcessLaunched: no event while a process is starting changes
\* how visible it is supposed to be when it is launched.
THEOREM LaunchesAsSupposed == PrioritySpec => []LaunchCheckHolds
<1>1. PriorityInv => LaunchCheckHolds
  BY DEF PriorityInv, LaunchCheckHolds
<1> QED
  BY <1>1, PriorityInvInit, PriorityInvNext, PTL DEF PrioritySpec

-----------------------------------------------------------------------------
(* The loop over the widgets, for any number of them.  Induction is over a set *)
(* of numbers: the least number outside it would be the successor of one in it.   *)

\* Every set of numbers has a least one.
LEMMA Least ==
    ASSUME NEW T, T \subseteq Nat, T # {}
    PROVE  \E x \in T : \A y \in T : x <= y
<1>1. IsWellFoundedOn(OpToRel(<, Nat), Nat)
  BY NatLessThanWellFounded
<1> DEFINE R == OpToRel(<, Nat)
<1>2. \A x, y \in Nat : x < y => <<x, y>> \in R
  BY DEF OpToRel
<1> HIDE DEF R
<1>3. IsWellFoundedOn(R, Nat)
  BY <1>1 DEF R
<1>4. PICK x \in T : \A y \in T : ~(<<y, x>> \in R)
  BY <1>3, WFMin
<1>5. \A y \in T : ~(y < x)
  BY <1>2, <1>4
<1>6. \A y \in T : x <= y
  BY <1>5
<1> QED
  BY <1>6

\* Induction, over a set of numbers instead of a predicate.
LEMMA SetInduction ==
    ASSUME NEW S, 0 \in S, \A n \in Nat : n \in S => n + 1 \in S
    PROVE  Nat \subseteq S
<1> DEFINE T == Nat \ S
<1>1. SUFFICES ASSUME T # {} PROVE FALSE
  OBVIOUS
<1>2. PICK x \in T : \A y \in T : x <= y
  BY <1>1, Least
<1> QED
  BY <1>2

-----------------------------------------------------------------------------
\* What the loop over the widgets has seen after the first n of them.
SeenIn(cs, n) == {c \in DOMAIN cs : c <= n}
ShownIn(cs, n) == {c \in SeenIn(cs, n) : ~cs[c].is_hidden}
DecidingIn(cs, n) == IF ShownIn(cs, n) # {} THEN ShownIn(cs, n) ELSE SeenIn(cs, n)

Widgets(cs) == DOMAIN cs \subseteq Clients /\ \A c \in DOMAIN cs : cs[c] \in ClientPriority

\* The loop stands at the lowest depth of the widgets that decide.
Decided(inputs, cs, n) ==
    /\ inputs \in [visible : 0..n, depth : 0..MaxDepth, intersects : BOOLEAN]
    /\ inputs.visible > 0 <=> ShownIn(cs, n) # {}
    /\ inputs.depth = MaxDepth \/ \E c \in DecidingIn(cs, n) : cs[c].frame_depth = inputs.depth
    /\ \A c \in DecidingIn(cs, n) : cs[c].frame_depth >= inputs.depth
    /\ inputs.intersects <=> \E c \in DecidingIn(cs, n) : cs[c].intersects

IsScan(f, cs, n) ==
    f = [i \in 0..n |-> IF i = 0 THEN NoWidgets
                        ELSE IF i \notin DOMAIN cs THEN f[i - 1]
                        ELSE Taken(f[i - 1], cs[i])]

LEMMA ScanExists ==
    ASSUME NEW cs
    PROVE  \A n \in Nat : \E f : IsScan(f, cs, n)
<1> DEFINE S == {n \in Nat : \E f : IsScan(f, cs, n)}
<1>1. 0 \in S
  <2> DEFINE f == [i \in 0..0 |-> NoWidgets]
  <2>1. \A i \in 0..0 : i = 0
    OBVIOUS
  <2>2. IsScan(f, cs, 0)
    BY <2>1 DEF IsScan
  <2> QED
    BY <2>2
<1>2. ASSUME NEW n \in Nat, n \in S PROVE n + 1 \in S
  <2>1. PICK f : IsScan(f, cs, n)
    BY <1>2
  <2> DEFINE last == IF n + 1 \notin DOMAIN cs THEN f[n] ELSE Taken(f[n], cs[n + 1])
             g == [i \in 0..(n + 1) |-> IF i = n + 1 THEN last ELSE f[i]]
             step(h, i) == IF i = 0 THEN NoWidgets
                           ELSE IF i \notin DOMAIN cs THEN h[i - 1]
                           ELSE Taken(h[i - 1], cs[i])
  <2>2. ASSUME NEW i \in 0..(n + 1) PROVE g[i] = step(g, i)
    <3>1. CASE i = n + 1
      <4>1. i # 0 /\ i - 1 = n /\ n \in 0..(n + 1) /\ n # n + 1
        BY <3>1
      <4>2. g[i - 1] = f[n]
        BY <4>1
      <4> QED
        BY <3>1, <4>1, <4>2
    <3>2. CASE i # n + 1
      <4>1. i \in 0..n
        BY <3>2
      <4>2. f[i] = step(f, i)
        BY <2>1, <4>1 DEF IsScan
      <4>3. i # 0 => i - 1 \in 0..(n + 1) /\ i - 1 # n + 1
        BY <4>1
      <4>4. i # 0 => g[i - 1] = f[i - 1]
        BY <4>3
      <4>5. step(g, i) = step(f, i)
        BY <4>4
      <4> QED
        BY <3>2, <4>2, <4>5
    <3> QED
      BY <3>1, <3>2
  <2>3. g = [i \in 0..(n + 1) |-> step(g, i)]
    <3>1. g = [i \in 0..(n + 1) |-> g[i]]
      OBVIOUS
    <3> HIDE DEF g
    <3>2. [i \in 0..(n + 1) |-> g[i]] = [i \in 0..(n + 1) |-> step(g, i)]
      BY <2>2
    <3> QED
      BY <3>1, <3>2
  <2> HIDE DEF g
  <2>4. IsScan(g, cs, n + 1)
    BY <2>3 DEF IsScan
  <2> QED
    BY <2>4
<1> HIDE DEF S
<1>3. Nat \subseteq S
  BY <1>1, <1>2, SetInduction
<1> QED
  BY <1>3 DEF S

LEMMA InputsAreScanned ==
    ASSUME NEW cs
    PROVE  \E f : IsScan(f, cs, NumClients) /\ InputsOf(cs) = f[NumClients]
<1> DEFINE f == CHOOSE g : IsScan(g, cs, NumClients)
<1>1. \E g : IsScan(g, cs, NumClients)
  BY ScanExists, PriorityAssumption
<1>2. IsScan(f, cs, NumClients)
  BY <1>1
<1>3. InputsOf(cs) = f[NumClients]
  BY DEF InputsOf, IsScan
<1> QED
  BY <1>2, <1>3

\* One turn of the loop.
LEMMA TakenDecides ==
    ASSUME NEW cs, Widgets(cs), NEW n \in Nat, n + 1 \in DOMAIN cs,
           NEW inputs, Decided(inputs, cs, n)
    PROVE  Decided(Taken(inputs, cs[n + 1]), cs, n + 1)
<1> DEFINE c == n + 1
           w == cs[c]
           r == Taken(inputs, w)
<1>1. w \in ClientPriority /\ MaxDepth \in Nat /\ DOMAIN cs \subseteq Nat
  BY PriorityAssumption DEF Widgets, Clients
<1>2. /\ SeenIn(cs, c) = SeenIn(cs, n) \union {c}
      /\ ShownIn(cs, c) = ShownIn(cs, n) \union (IF w.is_hidden THEN {} ELSE {c})
  <2>1. SeenIn(cs, c) = SeenIn(cs, n) \union {c}
    BY <1>1 DEF SeenIn
  <2> QED
    BY <2>1 DEF ShownIn
<1>3. /\ inputs.visible \in 0..n /\ inputs.depth \in 0..MaxDepth /\ inputs.intersects \in BOOLEAN
      /\ inputs = [visible |-> inputs.visible, depth |-> inputs.depth,
                   intersects |-> inputs.intersects]
  BY DEF Decided
<1>4. w.is_hidden \in BOOLEAN /\ w.frame_depth \in 0..MaxDepth /\ w.intersects \in BOOLEAN
  BY <1>1 DEF ClientPriority
<1> DEFINE d == Smaller(inputs.depth, w.frame_depth)
           x == inputs.intersects \/ w.intersects
<1>5. /\ d \in 0..MaxDepth /\ x \in BOOLEAN
      /\ d = inputs.depth \/ d = w.frame_depth
      /\ d <= inputs.depth /\ d <= w.frame_depth
  BY <1>1, <1>3, <1>4 DEF Smaller
<1>6. Merged(inputs, w) = [visible |-> inputs.visible, depth |-> d, intersects |-> x]
  <2>1. Merged(inputs, w) = [inputs EXCEPT !.depth = d, !.intersects = x]
    BY DEF Merged
  <2> HIDE DEF d, x
  <2> QED
    BY <1>3, <2>1
<1>7. x <=> inputs.intersects \/ w.intersects
  OBVIOUS
<1> HIDE DEF d, x
<1>8. ASSUME NEW v \in 0..c, NEW e \in 0..MaxDepth, NEW y \in BOOLEAN,
             r = [visible |-> v, depth |-> e, intersects |-> y],
             v > 0 <=> ShownIn(cs, c) # {},
             e = MaxDepth \/ \E k \in DecidingIn(cs, c) : cs[k].frame_depth = e,
             \A k \in DecidingIn(cs, c) : cs[k].frame_depth >= e,
             y <=> \E k \in DecidingIn(cs, c) : cs[k].intersects
      PROVE  Decided(r, cs, c)
  <2>1. r \in [visible : 0..c, depth : 0..MaxDepth, intersects : BOOLEAN]
    BY <1>8
  <2>2. r.visible = v /\ r.depth = e /\ r.intersects = y
    BY <1>8
  <2> HIDE DEF r, c
  <2> QED
    BY <1>8, <2>1, <2>2 DEF Decided
<1>9. /\ inputs.visible > 0 <=> ShownIn(cs, n) # {}
      /\ inputs.depth = MaxDepth \/ \E k \in DecidingIn(cs, n) : cs[k].frame_depth = inputs.depth
      /\ \A k \in DecidingIn(cs, n) : cs[k].frame_depth >= inputs.depth
      /\ inputs.intersects <=> \E k \in DecidingIn(cs, n) : cs[k].intersects
  BY DEF Decided
<1>10. \A k \in DecidingIn(cs, n) : cs[k].frame_depth \in Nat
  BY <1>1 DEF DecidingIn, ShownIn, SeenIn, Widgets, ClientPriority
<1>11. ASSUME DecidingIn(cs, c) = DecidingIn(cs, n) \union {c}
       PROVE  /\ d = MaxDepth \/ \E k \in DecidingIn(cs, c) : cs[k].frame_depth = d
              /\ \A k \in DecidingIn(cs, c) : cs[k].frame_depth >= d
              /\ x <=> \E k \in DecidingIn(cs, c) : cs[k].intersects
  <2> HIDE DEF c
  <2>1. d = MaxDepth \/ \E k \in DecidingIn(cs, c) : cs[k].frame_depth = d
    BY <1>5, <1>9, <1>11
  <2>2. \A k \in DecidingIn(cs, c) : cs[k].frame_depth >= d
    BY <1>3, <1>4, <1>5, <1>9, <1>10, <1>11
  <2>3. x <=> \E k \in DecidingIn(cs, c) : cs[k].intersects
    BY <1>7, <1>9, <1>11
  <2> QED
    BY <2>1, <2>2, <2>3
<1>12. ASSUME w.is_hidden /\ inputs.visible = 0
       PROVE  Decided(r, cs, c)
  <2>1. r = [visible |-> 0, depth |-> d, intersects |-> x]
    BY <1>6, <1>12 DEF Taken
  <2>2. ShownIn(cs, n) = {} /\ ShownIn(cs, c) = {}
    BY <1>2, <1>9, <1>12
  <2>3. DecidingIn(cs, c) = DecidingIn(cs, n) \union {c}
    BY <1>2, <2>2 DEF DecidingIn
  <2>4. 0 \in 0..c /\ ~(0 > 0)
    OBVIOUS
  <2> HIDE DEF c, r, w
  <2> QED
    BY <1>5, <1>8, <1>11, <2>1, <2>2, <2>3, <2>4
<1>13. ASSUME w.is_hidden /\ inputs.visible # 0
       PROVE  Decided(r, cs, c)
  <2>1. r = inputs
    BY <1>13 DEF Taken
  <2>2. ShownIn(cs, n) # {} /\ ShownIn(cs, c) = ShownIn(cs, n)
    BY <1>2, <1>3, <1>9, <1>13
  <2>3. DecidingIn(cs, c) = DecidingIn(cs, n)
    BY <2>2 DEF DecidingIn
  <2>4. inputs.visible \in 0..c
    BY <1>3
  <2> HIDE DEF c, r, w
  <2> QED
    BY <1>3, <1>8, <1>9, <2>1, <2>2, <2>3, <2>4
<1>14. ASSUME ~w.is_hidden /\ inputs.visible > 0
       PROVE  Decided(r, cs, c)
  <2>1. r = [visible |-> inputs.visible + 1, depth |-> d, intersects |-> x]
    <3>1. r = [Merged(inputs, w) EXCEPT !.visible = inputs.visible + 1]
      BY <1>14 DEF Taken
    <3> QED
      BY <1>6, <3>1
  <2>2. ShownIn(cs, n) # {} /\ ShownIn(cs, c) = ShownIn(cs, n) \union {c}
    BY <1>2, <1>9, <1>14
  <2>3. DecidingIn(cs, c) = DecidingIn(cs, n) \union {c}
    BY <2>2 DEF DecidingIn
  <2>4. inputs.visible + 1 \in 0..c /\ inputs.visible + 1 > 0
    BY <1>3
  <2> HIDE DEF c, r, w
  <2> QED
    BY <1>5, <1>8, <1>11, <2>1, <2>2, <2>3, <2>4
<1>15. ASSUME ~w.is_hidden /\ ~(inputs.visible > 0)
       PROVE  Decided(r, cs, c)
  <2>1. r = [visible |-> 1, depth |-> w.frame_depth, intersects |-> w.intersects]
    BY <1>15 DEF Taken
  <2>2. ShownIn(cs, n) = {} /\ ShownIn(cs, c) = {c}
    BY <1>2, <1>9, <1>15
  <2>3. DecidingIn(cs, c) = {c}
    BY <2>2 DEF DecidingIn
  <2>4. 1 \in 0..c /\ 1 > 0 /\ w.frame_depth >= w.frame_depth
    BY <1>1, <1>4
  <2>5. w = cs[c]
    OBVIOUS
  <2> HIDE DEF c, r, w
  <2> QED
    BY <1>4, <1>8, <2>1, <2>2, <2>3, <2>4, <2>5
<1> QED
  BY <1>3, <1>4, <1>12, <1>13, <1>14, <1>15

LEMMA ScanDecides ==
    ASSUME NEW cs, Widgets(cs), NEW f, IsScan(f, cs, NumClients)
    PROVE  \A n \in 0..NumClients : Decided(f[n], cs, n)
<1> DEFINE S == {n \in Nat : n <= NumClients => Decided(f[n], cs, n)}
<1>1. NumClients \in Nat /\ MaxDepth \in Nat /\ DOMAIN cs \subseteq Nat \ {0}
  BY PriorityAssumption DEF Widgets, Clients
<1>2. \A i \in 0..NumClients :
        f[i] = IF i = 0 THEN NoWidgets ELSE IF i \notin DOMAIN cs THEN f[i - 1]
               ELSE Taken(f[i - 1], cs[i])
  BY DEF IsScan
<1>3. 0 \in S
  <2>1. SeenIn(cs, 0) = {} /\ ShownIn(cs, 0) = {} /\ DecidingIn(cs, 0) = {}
    BY <1>1 DEF SeenIn, ShownIn, DecidingIn
  <2>2. f[0] = NoWidgets
    BY <1>1, <1>2
  <2>3. NoWidgets \in [visible : 0..0, depth : 0..MaxDepth, intersects : BOOLEAN]
    BY <1>1 DEF NoWidgets
  <2>4. NoWidgets.visible = 0 /\ NoWidgets.depth = MaxDepth /\ NoWidgets.intersects = FALSE
    BY DEF NoWidgets
  <2>5. Decided(NoWidgets, cs, 0)
    BY <2>1, <2>3, <2>4 DEF Decided
  <2> QED
    BY <2>2, <2>5
<1>4. ASSUME NEW n \in Nat, n \in S, n + 1 <= NumClients PROVE Decided(f[n + 1], cs, n + 1)
  <2>1. Decided(f[n], cs, n)
    BY <1>1, <1>4
  <2>2. n + 1 \in 0..NumClients /\ n + 1 # 0 /\ (n + 1) - 1 = n
    BY <1>1, <1>4
  <2>3. f[n + 1] = IF n + 1 \notin DOMAIN cs THEN f[n] ELSE Taken(f[n], cs[n + 1])
    BY <1>2, <2>2
  <2>4. CASE n + 1 \in DOMAIN cs
    BY <2>1, <2>3, <2>4, TakenDecides
  <2>5. CASE n + 1 \notin DOMAIN cs
    <3>1. SeenIn(cs, n + 1) = SeenIn(cs, n)
      BY <1>1, <2>5 DEF SeenIn
    <3>2. ShownIn(cs, n + 1) = ShownIn(cs, n) /\ DecidingIn(cs, n + 1) = DecidingIn(cs, n)
      BY <3>1 DEF ShownIn, DecidingIn
    <3>3. f[n].visible \in 0..(n + 1)
      BY <2>1 DEF Decided
    <3> QED
      BY <2>1, <2>3, <2>5, <3>2, <3>3 DEF Decided
  <2> QED
    BY <2>4, <2>5
<1>5. \A n \in Nat : n \in S => n + 1 \in S
  BY <1>4
<1> HIDE DEF S
<1>6. Nat \subseteq S
  BY <1>3, <1>5, SetInduction
<1> QED
  BY <1>1, <1>6 DEF S

\* What the loop finds, for any widgets.
LEMMA InputsDecide ==
    ASSUME NEW cs, Widgets(cs)
    PROVE  /\ Decided(InputsOf(cs), cs, NumClients)
           /\ SeenIn(cs, NumClients) = DOMAIN cs
           /\ InputsOf(cs) \in Inputs
<1>1. PICK f : IsScan(f, cs, NumClients) /\ InputsOf(cs) = f[NumClients]
  BY InputsAreScanned
<1>2. NumClients \in 0..NumClients /\ NumClients \in Nat
  BY PriorityAssumption
<1>3. Decided(InputsOf(cs), cs, NumClients)
  BY <1>1, <1>2, ScanDecides
<1>4. SeenIn(cs, NumClients) = DOMAIN cs
  BY <1>2 DEF SeenIn, Widgets, Clients
<1>5. InputsOf(cs) \in Inputs
  BY <1>3 DEF Decided, Inputs
<1> QED
  BY <1>3, <1>4, <1>5

-----------------------------------------------------------------------------
WidgetFunctions == UNION {[S -> ClientPriority] : S \in SUBSET Clients}

LEMMA WidgetsType ==
    ASSUME NEW cs
    PROVE  cs \in WidgetFunctions <=> Widgets(cs) /\ cs = [c \in DOMAIN cs |-> cs[c]]
BY DEF WidgetFunctions, Widgets

LEMMA NoInputs == <<>> \in WidgetFunctions /\ InputsOf(<<>>) = NoWidgets
<1> DEFINE cs == <<>>
<1>1. DOMAIN cs = {} /\ cs = [c \in {} |-> cs[c]]
  OBVIOUS
<1>2. Widgets(cs) /\ cs = [c \in DOMAIN cs |-> cs[c]]
  BY <1>1 DEF Widgets
<1>3. cs \in WidgetFunctions
  BY <1>2, WidgetsType
<1> HIDE DEF cs
<1>4. SeenIn(cs, NumClients) = {} /\ ShownIn(cs, NumClients) = {} /\ DecidingIn(cs, NumClients) = {}
  BY <1>1 DEF SeenIn, ShownIn, DecidingIn
<1> DEFINE i == InputsOf(cs)
<1>5. Decided(i, cs, NumClients) /\ i \in Inputs
  BY <1>2, InputsDecide
<1> HIDE DEF i
<1>6. i.visible \in Nat /\ ~(i.visible > 0) /\ i.depth = MaxDepth /\ i.intersects = FALSE
  BY <1>4, <1>5, PriorityAssumption DEF Decided, Inputs
<1>7. i = [visible |-> i.visible, depth |-> i.depth, intersects |-> i.intersects]
  BY <1>5 DEF Inputs
<1>8. i = NoWidgets
  BY <1>6, <1>7 DEF NoWidgets
<1> QED
  BY <1>3, <1>8 DEF cs, i

\* What priority_ is compared with does not depend on it.
LEMMA PriorityReplaced ==
    ASSUME NEW m \in PriorityMembers, NEW p \in Priority
    PROVE  LET n == [m EXCEPT !.priority = p]
           IN  /\ n \in PriorityMembers
               /\ n.priority = p /\ n.inputs = m.inputs
               /\ Computed(n) = Computed(m)
<1> DEFINE n == [m EXCEPT !.priority = p]
<1>1. n \in PriorityMembers
  BY DEF PriorityMembers
<1>2. /\ n.priority = p /\ n.inputs = m.inputs /\ n.media = m.media
      /\ n.workers = m.workers /\ n.pending = m.pending /\ n.override = m.override
      /\ n.always = m.always
  BY DEF PriorityMembers
<1> HIDE DEF n
<1>3. Computed(n) = Computed(m)
  BY <1>2 DEF Computed
<1> QED
  BY <1>1, <1>2, <1>3 DEF n

LEMMA ComputedType ==
    ASSUME NEW m \in PriorityMembers
    PROVE  Computed(m) \in Priority
<1>1. 0 \in 0..MaxDepth
  BY PriorityAssumption
<1>2. CASE m.override = "none"
  <2>1. /\ m.inputs.depth \in 0..MaxDepth /\ m.inputs.intersects \in BOOLEAN
        /\ m.always \in BOOLEAN
    BY DEF PriorityMembers, Inputs
  <2> DEFINE v == m.inputs.visible > 0 \/ m.always
             a == m.media > 0
             w == m.workers > 0
             b == m.pending > 0
  <2>2. v \in BOOLEAN /\ a \in BOOLEAN /\ w \in BOOLEAN /\ b \in BOOLEAN
    OBVIOUS
  <2>3. Computed(m) = [visible |-> v, media |-> a, worker |-> w, depth |-> m.inputs.depth,
                       intersects |-> m.inputs.intersects, boost |-> b]
    BY <1>2 DEF Computed
  <2> HIDE DEF v, a, w, b
  <2> QED
    BY <2>1, <2>2, <2>3 DEF Priority
<1>3. CASE m.override # "none"
  <2> DEFINE f == m.override = "foreground"
  <2>1. Computed(m) = Overridden(f) /\ f \in BOOLEAN
    BY <1>3 DEF Computed
  <2> HIDE DEF f
  <2> QED
    BY <1>1, <2>1 DEF Overridden, Priority
<1> QED
  BY <1>2, <1>3

-----------------------------------------------------------------------------
\* priority_ is what the members ask for while there is a process, and says
\* that a process to come is boosted: that makes the launch compute it anew.
WantedInv ==
    /\ PriorityTypeOK
    /\ members.inputs = InputsOf(clients)
    /\ process.launcher # "started" => members.priority.boost
    /\ process.launcher = "started" => members.priority = Computed(members)

LEMMA UpdateIsWanted ==
    ASSUME NEW m \in PriorityMembers, NEW q \in PriorityProcess,
           UpdateProcessPriority(m, q),
           clients' \in WidgetFunctions, m.inputs = InputsOf(clients')
    PROVE  WantedInv'
<1>1. CASE q.launcher # "started"
  <2> DEFINE p == Reset(m.priority)
  <2>1. p \in Priority /\ p.boost
    BY DEF Reset, PriorityMembers, Priority, kLaunchingProcessIsBackgrounded
  <2>2. members' = [m EXCEPT !.priority = p] /\ process' = q
    BY <1>1 DEF UpdateProcessPriority
  <2> HIDE DEF p
  <2>3. members' \in PriorityMembers /\ members'.priority = p /\ members'.inputs = m.inputs
    BY <2>1, <2>2, PriorityReplaced
  <2> QED
    BY <1>1, <2>1, <2>2, <2>3 DEF WantedInv, PriorityTypeOK, WidgetFunctions
<1>2. CASE q.launcher = "started"
  <2> DEFINE p == Computed(m)
  <2>1. p \in Priority
    BY ComputedType
  <2>2. CASE p = m.priority
    <3>1. members' = m /\ process' = q
      BY <1>2, <2>2 DEF UpdateProcessPriority
    <3> QED
      BY <1>2, <2>2, <3>1 DEF WantedInv, PriorityTypeOK, WidgetFunctions
  <2>3. CASE p # m.priority
    <3> DEFINE told == IF Tells(m.priority, p) THEN State(p) ELSE q.told
               r == [q EXCEPT !.lowered = is_background(p), !.told = told]
    <3>1. members' = [m EXCEPT !.priority = p] /\ process' = r
      BY <1>2, <2>3 DEF UpdateProcessPriority
    <3>2. is_background(p) \in BOOLEAN /\ State(p) \in [background : BOOLEAN, visible : BOOLEAN]
      BY <2>1 DEF is_background, State, Priority
    <3>3. told \in [background : BOOLEAN, visible : BOOLEAN]
      BY <3>2 DEF PriorityProcess
    <3> HIDE DEF told
    <3>4. r \in PriorityProcess /\ r.launcher = q.launcher
      BY <3>2, <3>3 DEF PriorityProcess
    <3> HIDE DEF p, r
    <3>5. /\ members' \in PriorityMembers /\ members'.priority = p
          /\ members'.inputs = m.inputs /\ Computed(members') = Computed(m)
      BY <2>1, <3>1, PriorityReplaced
    <3>6. p = Computed(m)
      BY DEF p
    <3> QED
      BY <1>2, <3>1, <3>4, <3>5, <3>6 DEF WantedInv, PriorityTypeOK, WidgetFunctions
  <2> QED
    BY <2>2, <2>3
<1> QED
  BY <1>1, <1>2

\* Events that change one member and then update, or need not update.
LEMMA MemberChanged ==
    ASSUME WantedInv, NEW m \in PriorityMembers, m.inputs = InputsOf(clients),
           clients' = clients,
           \/ UpdateProcessPriority(m, process)
           \/ /\ members' = m /\ process' = process
              /\ m.priority = members.priority
              /\ Computed(m) = Computed(members)
    PROVE  WantedInv'
<1>1. process \in PriorityProcess /\ clients \in WidgetFunctions
  BY DEF WantedInv, PriorityTypeOK, WidgetFunctions
<1>2. CASE UpdateProcessPriority(m, process)
  BY <1>1, <1>2, UpdateIsWanted
<1>3. CASE /\ members' = m /\ process' = process
           /\ m.priority = members.priority
           /\ Computed(m) = Computed(members)
  BY <1>3 DEF WantedInv, PriorityTypeOK
<1> QED
  BY <1>2, <1>3

LEMMA WidgetsChanged ==
    ASSUME WantedInv, clients' \in WidgetFunctions, UpdateProcessPriorityInputs
    PROVE  WantedInv'
<1> DEFINE i == InputsOf(clients')
<1>1. i \in Inputs
  BY WidgetsType, InputsDecide
<1>2. members \in PriorityMembers /\ process \in PriorityProcess
  BY DEF WantedInv, PriorityTypeOK
<1>3. CASE i # members.inputs
  <2> DEFINE m == [members EXCEPT !.inputs = i]
  <2>1. UpdateProcessPriority(m, process)
    BY <1>3 DEF UpdateProcessPriorityInputs
  <2> HIDE DEF i
  <2>2. m \in PriorityMembers /\ m.inputs = i
    BY <1>1, <1>2 DEF PriorityMembers
  <2> HIDE DEF m
  <2>3. m.inputs = InputsOf(clients')
    BY <2>2 DEF i
  <2> QED
    BY <1>2, <2>1, <2>2, <2>3, UpdateIsWanted
<1>4. CASE i = members.inputs
  <2>1. members' = members /\ process' = process
    BY <1>4 DEF UpdateProcessPriorityInputs
  <2> QED
    BY <1>4, <2>1 DEF WantedInv, PriorityTypeOK, WidgetFunctions
<1> QED
  BY <1>3, <1>4

LEMMA WantedInvNext == WantedInv /\ [PriorityNext]_priorityVars => WantedInv'
<1> SUFFICES ASSUME WantedInv, [PriorityNext]_priorityVars PROVE WantedInv'
  OBVIOUS
<1>1. /\ members \in PriorityMembers /\ process \in PriorityProcess
      /\ clients \in WidgetFunctions /\ members.inputs = InputsOf(clients)
  BY DEF WantedInv, PriorityTypeOK, WidgetFunctions
<1>2. Widgets(clients)
  BY <1>1, WidgetsType
<1>3. ASSUME NEW c \in Clients, NEW p \in ClientPriority, AddOrUpdateClient(c, p)
      PROVE  WantedInv'
  <2> DEFINE cs == [d \in DOMAIN clients \union {c} |-> IF d = c THEN p ELSE clients[d]]
  <2>1. DOMAIN cs \subseteq Clients /\ \A d \in DOMAIN cs : cs[d] \in ClientPriority
    BY <1>2, <1>3 DEF Widgets
  <2>2. cs = [d \in DOMAIN cs |-> cs[d]]
    OBVIOUS
  <2>3. clients' = cs /\ UpdateProcessPriorityInputs
    BY <1>3 DEF AddOrUpdateClient
  <2> HIDE DEF cs
  <2>4. cs \in WidgetFunctions
    BY <2>1, <2>2, WidgetsType DEF Widgets
  <2> QED
    BY <2>3, <2>4, WidgetsChanged
<1>4. ASSUME NEW c \in DOMAIN clients, RemovePriorityClient(c) PROVE WantedInv'
  <2> DEFINE cs == [d \in DOMAIN clients \ {c} |-> clients[d]]
  <2>1. DOMAIN cs \subseteq Clients /\ \A d \in DOMAIN cs : cs[d] \in ClientPriority
    BY <1>2, <1>4 DEF Widgets
  <2>2. cs = [d \in DOMAIN cs |-> cs[d]]
    OBVIOUS
  <2>3. clients' = cs /\ UpdateProcessPriorityInputs
    BY <1>4 DEF RemovePriorityClient
  <2> HIDE DEF cs
  <2>4. cs \in WidgetFunctions
    BY <2>1, <2>2, WidgetsType DEF Widgets
  <2> QED
    BY <2>3, <2>4, WidgetsChanged
<1>5. MaxCount \in Nat /\ members.media \in 0..MaxCount /\ members.workers \in 0..MaxCount
      /\ members.pending \in 0..MaxCount
  BY <1>1, PriorityAssumption DEF PriorityMembers
<1>6. \A x \in 0..MaxCount :
        LET m == [members EXCEPT !.media = x]
        IN  m \in PriorityMembers /\ m.inputs = members.inputs
  BY <1>1 DEF PriorityMembers
<1>7. \A x \in 0..MaxCount :
        LET m == [members EXCEPT !.workers = x]
        IN  m \in PriorityMembers /\ m.inputs = members.inputs
  BY <1>1 DEF PriorityMembers
<1>8. \A x \in 0..MaxCount :
        LET m == [members EXCEPT !.pending = x]
        IN  /\ m \in PriorityMembers /\ m.inputs = members.inputs
            /\ m.priority = members.priority /\ m.pending = x
            /\ x > 0 /\ members.pending > 0 => Computed(m) = Computed(members)
  <2> SUFFICES ASSUME NEW x \in 0..MaxCount
               PROVE  LET m == [members EXCEPT !.pending = x]
                      IN  /\ m \in PriorityMembers /\ m.inputs = members.inputs
                          /\ m.priority = members.priority /\ m.pending = x
                          /\ x > 0 /\ members.pending > 0 => Computed(m) = Computed(members)
    OBVIOUS
  <2> DEFINE m == [members EXCEPT !.pending = x]
  <2>1. m \in PriorityMembers
    BY <1>1 DEF PriorityMembers
  <2>2. /\ m.inputs = members.inputs /\ m.media = members.media
        /\ m.workers = members.workers /\ m.pending = x /\ m.override = members.override
        /\ m.always = members.always /\ m.priority = members.priority
    BY <1>1 DEF PriorityMembers
  <2> HIDE DEF m
  <2>3. x > 0 /\ members.pending > 0 => Computed(m) = Computed(members)
    BY <2>2 DEF Computed
  <2> QED
    BY <2>1, <2>2, <2>3 DEF m
<1>9. \A x \in {"none", "foreground", "background"} :
        LET m == [members EXCEPT !.override = x]
        IN  m \in PriorityMembers /\ m.inputs = members.inputs
  BY <1>1 DEF PriorityMembers
<1>10. CASE OnMediaStreamAdded
  <2>1. members.media + 1 \in 0..MaxCount
    BY <1>5, <1>10 DEF OnMediaStreamAdded
  <2> QED
    BY <1>1, <1>6, <1>10, <2>1, MemberChanged DEF OnMediaStreamAdded, Updated
<1>11. CASE OnMediaStreamRemoved
  <2>1. members.media - 1 \in 0..MaxCount
    BY <1>5, <1>11 DEF OnMediaStreamRemoved
  <2> QED
    BY <1>1, <1>6, <1>11, <2>1, MemberChanged DEF OnMediaStreamRemoved, Updated
<1>12. CASE OnForegroundServiceWorkerAdded
  <2>1. members.workers + 1 \in 0..MaxCount
    BY <1>5, <1>12 DEF OnForegroundServiceWorkerAdded
  <2> QED
    BY <1>1, <1>7, <1>12, <2>1, MemberChanged DEF OnForegroundServiceWorkerAdded, Updated
<1>13. CASE OnForegroundServiceWorkerRemoved
  <2>1. members.workers - 1 \in 0..MaxCount
    BY <1>5, <1>13 DEF OnForegroundServiceWorkerRemoved
  <2> QED
    BY <1>1, <1>7, <1>13, <2>1, MemberChanged DEF OnForegroundServiceWorkerRemoved, Updated
<1>14. CASE AddPendingView
  <2> DEFINE m == [members EXCEPT !.pending = @ + 1]
  <2>1. members.pending + 1 \in 0..MaxCount /\ members.pending + 1 > 0
    BY <1>5, <1>14 DEF AddPendingView
  <2>2. /\ m \in PriorityMembers /\ m.inputs = members.inputs
        /\ m.priority = members.priority
        /\ members.pending > 0 => Computed(m) = Computed(members)
    BY <1>8, <2>1
  <2>3. /\ clients' = clients
        /\ \/ UpdateProcessPriority(m, process)
           \/ members' = m /\ process' = process /\ members.pending > 0
    BY <1>5, <1>14 DEF AddPendingView, Updated
  <2> HIDE DEF m
  <2> QED
    BY <1>1, <2>2, <2>3, MemberChanged
<1>15. CASE RemovePendingView
  <2> DEFINE m == [members EXCEPT !.pending = @ - 1]
  <2>1. members.pending - 1 \in 0..MaxCount /\ members.pending > 0
    BY <1>5, <1>15 DEF RemovePendingView
  <2>2. /\ m \in PriorityMembers /\ m.inputs = members.inputs
        /\ m.priority = members.priority /\ m.pending = members.pending - 1
        /\ members.pending - 1 > 0 => Computed(m) = Computed(members)
    BY <1>8, <2>1
  <2>3. /\ clients' = clients
        /\ \/ UpdateProcessPriority(m, process)
           \/ members' = m /\ process' = process /\ m.pending # 0
    BY <1>15 DEF RemovePendingView, Updated
  <2> HIDE DEF m
  <2>4. m.pending # 0 => Computed(m) = Computed(members)
    BY <1>5, <2>1, <2>2
  <2> QED
    BY <1>1, <2>2, <2>3, <2>4, MemberChanged
<1>16. ASSUME NEW to \in {"none", "foreground", "background"},
              Updated([members EXCEPT !.override = to])
       PROVE  WantedInv'
  BY <1>1, <1>9, <1>16, MemberChanged DEF Updated
<1>17. CASE LaunchProcess
  <2>1. /\ process.launcher = "none" /\ members' = members /\ clients' = clients
        /\ process' = [process EXCEPT !.launcher = "starting"]
    BY <1>17 DEF LaunchProcess
  <2>2. process' \in PriorityProcess /\ process'.launcher = "starting"
    BY <1>1, <2>1 DEF PriorityProcess
  <2> QED
    BY <2>1, <2>2 DEF WantedInv, PriorityTypeOK
<1>18. ASSUME NEW backgrounded \in BOOLEAN, OnProcessLaunchedAs(backgrounded)
       PROVE  WantedInv'
  <2> DEFINE p == [members.priority EXCEPT !.visible = ~backgrounded]
             k == members.checked /\ kLaunchingProcessIsBackgrounded = ~members.priority.visible
             m == [members EXCEPT
                     !.priority.visible = ~backgrounded,
                     !.checked = @ /\ kLaunchingProcessIsBackgrounded = ~members.priority.visible]
             q == [launcher |-> "started", lowered |-> backgrounded,
                   told |-> [background |-> kLaunchingProcessIsBackgrounded,
                             visible |-> ~kLaunchingProcessIsBackgrounded],
                   odd |-> backgrounded # kLaunchingProcessIsBackgrounded]
  <2>1. members.priority \in Priority /\ members.checked \in BOOLEAN
    BY <1>1 DEF PriorityMembers
  <2>2. process.launcher = "starting" /\ members.priority.boost
    BY <1>18 DEF OnProcessLaunchedAs, WantedInv
  <2>3. p \in Priority /\ p.boost = members.priority.boost
    BY <2>1 DEF Priority
  <2>4. k \in BOOLEAN
    OBVIOUS
  <2>5. m = [members EXCEPT !.priority = p, !.checked = k]
    BY <1>1 DEF PriorityMembers
  <2>6. q \in PriorityProcess
    BY DEF PriorityProcess, kLaunchingProcessIsBackgrounded
  <2>7. /\ clients' = clients
        /\ IF m.priority.boost THEN UpdateProcessPriority(m, q)
           ELSE members' = m /\ process' = q
    BY <1>18 DEF OnProcessLaunchedAs
  <2> HIDE DEF m, p, k, q
  <2>8. m \in PriorityMembers /\ m.inputs = members.inputs /\ m.priority = p
    BY <1>1, <2>3, <2>4, <2>5 DEF PriorityMembers
  <2> QED
    BY <1>1, <2>2, <2>3, <2>6, <2>7, <2>8, UpdateIsWanted
<1>19. CASE ProcessDied
  <2>1. NoProcess \in PriorityProcess
    BY DEF NoProcess, PriorityProcess
  <2> QED
    BY <1>1, <1>19, <2>1, UpdateIsWanted DEF ProcessDied
<1>20. CASE UNCHANGED priorityVars
  BY <1>20 DEF priorityVars, WantedInv, PriorityTypeOK
<1> QED
  BY <1>3, <1>4, <1>10, <1>11, <1>12, <1>13, <1>14, <1>15, <1>16, <1>17, <1>18, <1>19, <1>20
     DEF PriorityNext, SetPriorityOverride, ClearPriorityOverride

LEMMA WantedInvInit == PriorityInit => WantedInv
<1> SUFFICES ASSUME PriorityInit PROVE WantedInv
  OBVIOUS
<1>1. 0 \in 0..MaxCount /\ MaxDepth \in 0..MaxDepth /\ 0 \in 0..NumClients
  BY PriorityAssumption
<1>2. NoWidgets \in Inputs
  BY <1>1 DEF NoWidgets, Inputs
<1> DEFINE p == [visible |-> ~kLaunchingProcessIsBackgrounded, media |-> FALSE,
                 worker |-> FALSE, depth |-> MaxDepth, intersects |-> FALSE, boost |-> TRUE]
<1>3. p \in Priority /\ p.boost
  BY <1>1 DEF Priority, kLaunchingProcessIsBackgrounded
<1>4. PICK always \in BOOLEAN :
        members = [inputs |-> NoWidgets, media |-> 0, workers |-> 0, pending |-> 0,
                   override |-> "none", always |-> always, priority |-> p, checked |-> TRUE]
  BY DEF PriorityInit
<1> HIDE DEF p
<1>5. members \in PriorityMembers /\ members.inputs = NoWidgets /\ members.priority = p
  BY <1>1, <1>2, <1>3, <1>4 DEF PriorityMembers
<1>6. process \in PriorityProcess /\ process.launcher = "none"
  BY DEF PriorityInit, NoProcess, PriorityProcess
<1>7. clients = <<>>
  BY DEF PriorityInit
<1> QED
  BY <1>3, <1>5, <1>6, <1>7, NoInputs DEF WantedInv, PriorityTypeOK, WidgetFunctions

LEMMA WantedInvariant == PrioritySpec => []WantedInv
BY WantedInvInit, WantedInvNext, PTL DEF PrioritySpec

\* What the loop finds is what the visible widgets ask for.
LEMMA ComputedIsWanted == WantedInv => Computed(members) = Wanted
<1> SUFFICES ASSUME WantedInv PROVE Computed(members) = Wanted
  OBVIOUS
<1>1. /\ members \in PriorityMembers /\ clients \in WidgetFunctions
      /\ members.inputs = InputsOf(clients)
  BY DEF WantedInv, PriorityTypeOK, WidgetFunctions
<1> DEFINE i == members.inputs
<1>2. Decided(i, clients, NumClients) /\ SeenIn(clients, NumClients) = DOMAIN clients
      /\ i \in Inputs
  BY <1>1, WidgetsType, InputsDecide
<1>3. Deciding = DecidingIn(clients, NumClients)
  BY <1>2 DEF Deciding, DecidingIn, ShownIn
<1>4. \A c \in Deciding : clients[c].frame_depth \in 0..MaxDepth
  BY <1>1, WidgetsType DEF Deciding, Widgets, ClientPriority
<1>5. i.visible > 0 <=> \E c \in Deciding : ~clients[c].is_hidden
  BY <1>2 DEF Decided, Deciding, ShownIn
<1>6. i.depth \in 0..MaxDepth /\ MaxDepth \in Nat
  BY <1>2, PriorityAssumption DEF Inputs
<1> DEFINE Low(d) == /\ d = MaxDepth \/ \E c \in Deciding : clients[c].frame_depth = d
                     /\ \A c \in Deciding : clients[c].frame_depth >= d
<1>7. Low(i.depth)
  BY <1>2, <1>3 DEF Decided
<1>8. \A d \in 0..MaxDepth : Low(d) => d = i.depth
  BY <1>4, <1>6, <1>7
<1>9. i.depth = CHOOSE d \in 0..MaxDepth : Low(d)
  <2> HIDE DEF Low
  <2> QED
    BY <1>6, <1>7, <1>8
<1>10. i.intersects = \E c \in Deciding : clients[c].intersects
  BY <1>2, <1>3 DEF Decided, Inputs
<1>11. members.media \in Nat /\ members.workers \in Nat /\ members.pending \in Nat
       /\ members.always \in BOOLEAN
  BY <1>1, PriorityAssumption DEF PriorityMembers
<1>12. CASE members.override # "none"
  BY <1>12 DEF Computed, Wanted
<1>13. CASE members.override = "none"
  <2>1. /\ (i.visible > 0 \/ members.always)
             = (members.always \/ \E c \in Deciding : ~clients[c].is_hidden)
        /\ (members.media > 0) = (members.media # 0)
        /\ (members.workers > 0) = (members.workers # 0)
        /\ (members.pending > 0) = (members.pending # 0)
    BY <1>5, <1>11
  <2>2. Computed(members) =
         [visible |-> i.visible > 0 \/ members.always, media |-> members.media > 0,
          worker |-> members.workers > 0, depth |-> i.depth,
          intersects |-> i.intersects, boost |-> members.pending > 0]
    BY <1>13 DEF Computed
  <2>3. Wanted =
         [visible |-> members.always \/ \E c \in Deciding : ~clients[c].is_hidden,
          media |-> members.media # 0, worker |-> members.workers # 0,
          depth |-> CHOOSE d \in 0..MaxDepth : Low(d),
          intersects |-> \E c \in Deciding : clients[c].intersects,
          boost |-> members.pending # 0]
    BY <1>13 DEF Wanted
  <2> HIDE DEF Low
  <2> QED
    BY <1>9, <1>10, <2>1, <2>2, <2>3, Zenon
<1> QED
  BY <1>12, <1>13

\* For any number of widgets in any order: while there is a process its priority
\* is what the visible widgets, or else the hidden ones, the streams, workers and
\* pending views, or the override ask for.
THEOREM PrioritiesAreWanted == PrioritySpec => []PriorityIsWanted
<1>1. WantedInv => PriorityIsWanted
  BY ComputedIsWanted DEF WantedInv, PriorityIsWanted
<1> QED
  BY <1>1, WantedInvariant, PTL

\* The members of the host and the picture of its process keep their types: the
\* loop over the widgets never finds more of them, or deeper ones, than there are.
THEOREM PriorityTypeCorrect == PrioritySpec => []PriorityTypeOK
<1>1. WantedInv => PriorityTypeOK
  BY DEF WantedInv
<1> QED
  BY <1>1, WantedInvariant, PTL
================================================================================
