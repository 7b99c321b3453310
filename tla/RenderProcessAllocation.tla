------------------------ MODULE RenderProcessAllocation ------------------------
(* Which renderer process a SiteInstance gets, and the registries that decide  *)
(* it (render_process_host_impl.cc): the list of all hosts and its limit, the  *)
(* spare host, the process of a process-per-site site, the processes that have *)
(* or expect frames of a site, the ones whose shutdown is delayed, and the     *)
(* ones with a service worker nobody has navigated to yet.                     *)
(* All of it runs on the UI thread.  What SiteInstanceImpl and the frames do   *)
(* with the process they get is not in the repository; it is modelled from how *)
(* this file uses it: the instance locks the process to its site, or marks it  *)
(* as one for any site, at once, and is a listener or holds a worker reference *)
(* until it goes.  Each SiteInstance is in a group of its own.                 *)
EXTENDS Naturals, FiniteSets

CONSTANTS NumHosts,      \* bound: hosts ever created; their numbers are the IDs
          Instances,     \* SiteInstances, each with one frame or one worker
          Sites,
          Homes,         \* what host and site must share: browser context,
                         \* storage partition, guest, JIT and PDF flags
          DefaultHomes,  \* the homes a spare host can be created for
          Home(_),       \* the home of a site
          Dedicated(_),  \* the site requires a process locked to it
          Siteless(_),   \* a URL that SiteInstances assign no site for
          MaxDelays,     \* bound: shutdowns delayed at a time
          MaxLimit       \* bound: values of the process limit

ASSUME AllocationAssumption ==
    /\ NumHosts \in Nat /\ MaxLimit \in Nat \ {0}
    /\ DefaultHomes \subseteq Homes
    /\ Sites \intersect {"none", "invalid", "any"} = {}
    /\ \A s \in Sites : /\ Home(s) \in Homes
                       /\ Dedicated(s) \in BOOLEAN /\ Siteless(s) \in BOOLEAN

VARIABLES
    b,           \* the registries
    instances    \* what the SiteInstances do

allocationVars == <<b, instances>>

Hosts == 1..NumHosts
NoHost == 0
Pairs == Sites \X Hosts
Policies == {"DEFAULT", "PROCESS_PER_SITE", "REUSE_PENDING_OR_COMMITTED_SITE"}

Registries ==
    [state : [Hosts -> {"new", "live", "dead", "gone"}],
     home : [Hosts -> Homes \union {"none"}],
     lock : [Hosts -> Sites \union {"invalid", "any"}],
     used : SUBSET Hosts,             \* not IsUnused()
     spare : Hosts \union {NoHost},
     sole : SUBSET Pairs,             \* SiteProcessMap
     unmatched : SUBSET Pairs,        \* unmatched service workers
     delays : [Pairs -> 0..1],        \* shutdown_delay_ref_count_
     timers : SUBSET Pairs,           \* CancelProcessShutdownDelay
     delayed : SUBSET Pairs,          \* delayed-shutdown tracker
     closed : SUBSET Homes,           \* their context shuts down
     limit : 1..MaxLimit,
     kept : BOOLEAN,                  \* IsSpareProcessKeptAtAllTimes()
     checked : BOOLEAN]               \* history: every CHECK held

Occupations ==
    [phase : {"idle", "pending", "committed", "worker"},
     site : Sites \union {"none"}, host : Hosts \union {NoHost}]

AllocationTypeOK == b \in Registries /\ instances \in [Instances -> Occupations]

-----------------------------------------------------------------------------
(* The hosts.                                                                 *)

GetAllHosts(g) == {h \in Hosts : g.state[h] \in {"live", "dead"}}

UsersOf(h) == {i \in Instances : instances[i].host = h}

DelaysOf(g, h) == {p \in Pairs : p[2] = h /\ g.delays[p] > 0}

HostHasNotBeenUsed(g, h) ==
    h \notin g.used /\ UsersOf(h) = {} /\ DelaysOf(g, h) = {}

Without(pairs, hosts) == {p \in pairs : p[2] \notin hosts}

\* mutant: the delayed-shutdown tracker is not cleared
ForgottenNotDelayed(g, hosts) ==
    [g EXCEPT !.sole = Without(@, hosts),
              !.unmatched = Without(@, hosts),
              !.timers = Without(@, hosts)]

\* The hosts leave every registry: their observers, the delayed-shutdown tracker
\* and UnregisterHost see to that; ResetIPC cuts the posted ends of delays off.
Forgotten(g, hosts) ==
    [g EXCEPT !.sole = Without(@, hosts),
              !.unmatched = Without(@, hosts),
              !.delayed = Without(@, hosts),
              !.timers = Without(@, hosts)]

Ended(g, hosts) ==
    [Forgotten(g, hosts) EXCEPT
        !.state = [h \in Hosts |-> IF h \in hosts THEN "gone" ELSE @[h]],
        !.home = [h \in Hosts |-> IF h \in hosts THEN "none" ELSE @[h]],
        !.lock = [h \in Hosts |-> IF h \in hosts THEN "invalid" ELSE @[h]],
        !.used = @ \ hosts,
        !.spare = IF @ \in hosts THEN NoHost ELSE @]

\* RenderProcessHostImpl::Cleanup, with the instances that still use the host.
CleanedUp(g, h, users) ==
    IF users # {} \/ DelaysOf(g, h) # {} THEN g ELSE Ended(g, {h})

NewHosts(g) == {h \in Hosts : g.state[h] = "new"}
NextHost(g) == CHOOSE h \in NewHosts(g) : \A k \in NewHosts(g) : h <= k

CreateRenderProcessHost(g, home) ==
    [g EXCEPT !.state[NextHost(g)] = "live", !.home[NextHost(g)] = home]

-----------------------------------------------------------------------------
(* The spare host.                                                            *)

AtLimit(g) == Cardinality(GetAllHosts(g)) >= g.limit

CleanupSpare(g) ==
    IF g.spare = NoHost THEN g
    ELSE [CleanedUp(g, g.spare, UsersOf(g.spare)) EXCEPT !.spare = NoHost]

\* None is created for a context that shuts down.  The limit is read after the
\* old spare went; pressure is what the memory monitor says.
WarmupSpare(g, home, pressure) ==
    IF g.spare # NoHost /\ g.home[g.spare] = home THEN g
    ELSE LET c == CleanupSpare(g)
         IN  IF home \in g.closed \/ AtLimit(c) \/ pressure THEN c
             ELSE [CreateRenderProcessHost(c, home) EXCEPT !.spare = NextHost(c)]

PrepareForFutureRequests(g, home, pressure) ==
    IF g.kept THEN WarmupSpare(g, home, pressure) ELSE CleanupSpare(g)

MayTakeSpare(g, s, allowed) ==
    g.spare # NoHost /\ g.home[g.spare] = Home(s) /\ allowed

TakeSpare(g) ==
    [g EXCEPT !.spare = NoHost,
              !.checked = @ /\ HostHasNotBeenUsed(g, g.spare)
                            /\ g.state[g.spare] = "live"]

\* mutant: a spare that does not fit is kept
KeepsSpare(g) == g

LeaveSpare(g) == IF ~g.kept \/ AtLimit(g) THEN CleanupSpare(g) ELSE g

-----------------------------------------------------------------------------
(* Which hosts may be reused.                                                 *)

\* mutant: the navigations a host expects do not matter
ExpectsNothingSiteless(h) == FALSE

\* The tracker of pending navigations holds a site that is not assigned.
ExpectsSiteless(h) ==
    \E i \in UsersOf(h) : instances[i].phase = "pending" /\ Siteless(instances[i].site)

IsSuitableHost(g, h, s) ==
    /\ g.home[h] = Home(s)
    /\ ~HostHasNotBeenUsed(g, h) =>
          IF g.lock[h] \in Sites THEN Dedicated(s) /\ g.lock[h] = s
          ELSE h \in g.used => ~Dedicated(s)
    /\ ~Siteless(s) /\ Dedicated(s) => ~ExpectsSiteless(h)

HasFrames(s, phase) ==
    {instances[i].host : i \in {j \in Instances : /\ instances[j].site = s
                                                 /\ instances[j].phase = phase}}

Suitable(g, hosts, s) == {h \in hosts : IsSuitableHost(g, h, s)}

\* FindReusableProcessHostForSiteInstance prefers hosts with visible widgets,
\* pending ones first, and picks one at random; whichever are visible, it
\* returns one of these.
Reusable(g, s) ==
    LET now == Suitable(g, HasFrames(s, "pending") \union HasFrames(s, "committed"), s)
    IN  IF now # {} THEN now
        ELSE Suitable(g, {p[2] : p \in {q \in g.delayed : q[1] = s}}, s)

SoleHost(g, s) == {p[2] : p \in {q \in g.sole : q[1] = s}}

\* The host of the highest ID among those with an unmatched worker of the site.
Freshest(g, s) ==
    LET hosts == {p[2] : p \in {q \in g.unmatched : q[1] = s}}
    IN  {h \in hosts : \A k \in hosts : k <= h}

\* GetExistingProcessHost picks one of these at random.
Existing(g, s) == Suitable(g, GetAllHosts(g) \ {g.spare}, s)

-----------------------------------------------------------------------------
(* GetProcessHostForSiteInstance, one operator for each way to find a host.   *)
(* Each gives the hosts it may return; none means that the next way is tried. *)

ByPolicy(g, s, policy) ==
    CASE policy = "PROCESS_PER_SITE" -> Suitable(g, SoleHost(g, s), s)
      [] policy = "REUSE_PENDING_OR_COMMITTED_SITE" -> Reusable(g, s)
      [] OTHER -> {}

\* What the search by policy leaves behind: GetSoleProcessHostForSite drops a
\* host that became unsuitable; a host found to be reused is not tracked for
\* its delayed shutdown any more.
AfterPolicy(g, s, policy, h) ==
    CASE policy = "PROCESS_PER_SITE" ->
            [g EXCEPT !.sole = {p \in @ : p[2] \notin SoleHost(g, s)
                                          \/ IsSuitableHost(g, p[2], s)}]
      [] policy = "REUSE_PENDING_OR_COMMITTED_SITE" /\ h # NoHost ->
            [g EXCEPT !.delayed = Without(@, {h})]
      [] OTHER -> g

ByUnmatchedWorker(g, s, policy, worker) ==
    IF policy = "DEFAULT" /\ worker THEN {} ELSE Suitable(g, Freshest(g, s), s)

\* The process h is given to instance i: SiteInstanceImpl locks it.
Given(g, h, s, policy) ==
    [g EXCEPT
        !.lock[h] = IF g.lock[h] \in Sites THEN @
                    ELSE IF Dedicated(s) /\ ~Siteless(s) THEN s ELSE "any",
        !.used = IF Siteless(s) THEN @ ELSE @ \union {h},
        !.sole = IF policy = "PROCESS_PER_SITE" /\ ~Siteless(s)
                    /\ SoleHost(g, s) = {}
                 THEN @ \union {<<s, h>>} ELSE @,
        !.state[h] = "live",     \* Init() follows
        !.checked = @ /\ g.home[h] = Home(s)]

Use(i, g, h, s, policy, worker, reused) ==
    /\ b' = LET c == Given(g, h, s, policy)
            IN  IF worker /\ ~reused
                THEN [c EXCEPT !.unmatched = @ \union {<<s, h>>}] ELSE c
    /\ instances' = [instances EXCEPT
            ![i] = [phase |-> IF worker THEN "worker" ELSE "pending",
                    site |-> s, host |-> h]]

\* Bound: a request may create a host and a spare.
RoomForRequest == Cardinality(NewHosts(b)) >= 2

Idle(i, s) ==
    instances[i].phase = "idle" /\ Home(s) \notin b.closed /\ RoomForRequest

ReuseByPolicy(i, s, policy, worker) ==
    /\ Idle(i, s)
    /\ \E h \in ByPolicy(b, s, policy) :
         Use(i, AfterPolicy(b, s, policy, h), h, s, policy, worker,
             policy = "REUSE_PENDING_OR_COMMITTED_SITE")

MatchUnmatchedWorker(i, s, policy, worker) ==
    /\ Idle(i, s) /\ ByPolicy(b, s, policy) = {}
    /\ LET g == AfterPolicy(b, s, policy, NoHost)
       IN  \E h \in ByUnmatchedWorker(g, s, policy, worker) :
             Use(i, [g EXCEPT !.unmatched = @ \ {<<s, h>>}], h, s, policy, worker,
                 FALSE)

NotFoundYet(i, s, policy, worker) ==
    /\ Idle(i, s)
    /\ ByPolicy(b, s, policy) = {}
    /\ ByUnmatchedWorker(b, s, policy, worker) = {}

TakeSpareProcess(i, s, policy, worker, pressure) ==
    /\ NotFoundYet(i, s, policy, worker)
    /\ MayTakeSpare(b, s, TRUE)
    /\ LET g == TakeSpare(AfterPolicy(b, s, policy, NoHost))
           \* The instance is not yet a user when the next spare is prepared.
           c == PrepareForFutureRequests(g, Home(s), pressure)
       IN  Use(i, [c EXCEPT !.checked = @ /\ IsSuitableHost(g, b.spare, s)],
               b.spare, s, policy, worker, FALSE)

\* allowed: the embedder and the instance let a spare be used; shared: the
\* embedder asks for an existing process below the limit too.
UseExistingOrNew(i, s, policy, worker, allowed, shared) ==
    /\ NotFoundYet(i, s, policy, worker)
    /\ ~MayTakeSpare(b, s, allowed)
    /\ LET g == LeaveSpare(AfterPolicy(b, s, policy, NoHost))
           found == IF AtLimit(g) \/ shared THEN Existing(g, s) ELSE {}
       IN  IF found # {}
           THEN \E h \in found : Use(i, g, h, s, policy, worker, FALSE)
           ELSE Use(i, CreateRenderProcessHost(g, Home(s)), NextHost(g), s, policy,
                    worker, FALSE)

-----------------------------------------------------------------------------
(* What becomes of the processes.                                             *)

\* The navigation commits: the pending tracker's entry becomes a committed one.
Commit(i) ==
    /\ instances[i].phase = "pending"
    /\ instances' = [instances EXCEPT ![i].phase = "committed"]
    /\ b' = [b EXCEPT !.used = @ \union {instances[i].host},
                      !.state[instances[i].host] = "live"]

Gone == [phase |-> "idle", site |-> "none", host |-> NoHost]

\* A navigation is given up, a frame detached, a worker stopped.
Leave(i) ==
    /\ instances[i].phase # "idle"
    /\ instances' = [instances EXCEPT ![i] = Gone]
    /\ b' = CleanedUp(b, instances[i].host, UsersOf(instances[i].host) \ {i})

\* A subframe that runs unload handlers delays the end of its process.
LeaveWithDelay(i) ==
    LET p == <<instances[i].site, instances[i].host>>
    IN  /\ instances[i].phase = "committed"
        /\ b.state[p[2]] = "live" /\ b.home[p[2]] \notin b.closed
        /\ b.delays[p] = 0 /\ Cardinality({q \in Pairs : b.delays[q] > 0}) < MaxDelays
        /\ instances' = [instances EXCEPT ![i] = Gone]
        /\ b' = [b EXCEPT !.delays[p] = 1, !.timers = @ \union {p},
                          !.delayed = @ \union {p}]

CancelShutdownDelayOf(p) ==
    /\ p \in b.timers /\ b.home[p[2]] \notin b.closed
    /\ b' = CleanedUp([b EXCEPT !.timers = @ \ {p}, !.delayed = @ \ {p},
                              !.delays[p] = 0],
                    p[2], UsersOf(p[2]))
    /\ UNCHANGED instances

\* DisableRefCounts of the hosts of a context that shuts down: delays and
\* workers do not keep them any more.
BrowserContextShutdown(home) ==
    LET hosts == {h \in GetAllHosts(b) : b.home[h] = home}
        ended == {i \in Instances : instances[i].phase = "worker"
                                    /\ instances[i].host \in hosts}
        d == [b EXCEPT !.closed = @ \union {home},
                       !.delays = [p \in Pairs |-> IF p[2] \in hosts THEN 0
                                                   ELSE b.delays[p]]]
        left == {h \in hosts : UsersOf(h) \subseteq ended}
    IN  /\ home \notin b.closed
        /\ instances' = [i \in Instances |-> IF i \in ended THEN Gone ELSE instances[i]]
        /\ b' = Ended(d, left)

\* The process is killed or crashes: its host stays for the frames it has; a
\* spare host is cleaned up; ends of delays that were posted never come.
ProcessOfHostDied(h) ==
    /\ b.state[h] = "live"
    /\ LET d == [b EXCEPT !.state[h] = "dead", !.timers = Without(@, {h})]
       IN  b' = IF h = b.spare THEN CleanupSpare(d) ELSE d
    /\ UNCHANGED instances

WarmupSpareRenderProcessHost(home, pressure) ==
    /\ NewHosts(b) # {}
    /\ b' = WarmupSpare(b, home, pressure)
    /\ UNCHANGED instances

\* A navigation commits, or is redirected to another site.
NotifyRecentlyUsed(home, pressure) ==
    /\ NewHosts(b) # {}
    /\ b' = PrepareForFutureRequests(b, home, pressure)
    /\ UNCHANGED instances

SpareOver(g) == Cardinality(GetAllHosts(g)) > g.limit

SetMaxRendererProcessCount(n) ==
    /\ LET g == [b EXCEPT !.limit = n]
       IN  b' = IF SpareOver(g) THEN CleanupSpare(g) ELSE g
    /\ UNCHANGED instances

-----------------------------------------------------------------------------
AllocationInit ==
    /\ \E kept \in BOOLEAN :
         b = [state |-> [h \in Hosts |-> "new"],
              home |-> [h \in Hosts |-> "none"],
              lock |-> [h \in Hosts |-> "invalid"],
              used |-> {}, spare |-> NoHost, sole |-> {}, unmatched |-> {},
              delays |-> [p \in Pairs |-> 0], timers |-> {}, delayed |-> {},
              closed |-> {},
              limit |-> MaxLimit, kept |-> kept, checked |-> TRUE]
    /\ instances = [i \in Instances |-> Gone]

AllocationNext ==
    \/ \E i \in Instances, s \in Sites, policy \in Policies, worker \in BOOLEAN :
         /\ worker => ~Siteless(s)
         /\ \/ ReuseByPolicy(i, s, policy, worker)
            \/ MatchUnmatchedWorker(i, s, policy, worker)
            \/ \E pressure \in BOOLEAN :
                 TakeSpareProcess(i, s, policy, worker, pressure)
            \/ \E allowed, shared \in BOOLEAN :
                 UseExistingOrNew(i, s, policy, worker, allowed, shared)
    \/ \E i \in Instances : Commit(i) \/ Leave(i) \/ LeaveWithDelay(i)
    \/ \E p \in Pairs : CancelShutdownDelayOf(p)
    \/ \E h \in Hosts : ProcessOfHostDied(h)
    \/ \E home \in Homes : BrowserContextShutdown(home)
    \/ \E home \in DefaultHomes, pressure \in BOOLEAN :
         WarmupSpareRenderProcessHost(home, pressure) \/ NotifyRecentlyUsed(home, pressure)
    \/ \E n \in 1..MaxLimit : SetMaxRendererProcessCount(n)

AllocationSpec == AllocationInit /\ [][AllocationNext]_allocationVars
-----------------------------------------------------------------------------
\* The CHECKs on the way to a process hold: the spare has not been used and is
\* alive when it is taken, no unsuitable process is reused, and a host that
\* has not been used has no lock.
AllocationChecksHold ==
    /\ b.checked
    /\ \A h \in GetAllHosts(b) : HostHasNotBeenUsed(b, h) => b.lock[h] = "invalid"

\* "we should never pick a process used by, or locked to, a different site":
\* whatever was reused, a site that requires a process of its own has one
\* locked to it, and a process locked to a site has no frame, expected
\* navigation or worker of another one; a page without a site would be killed
\* on its arrival.
LocksFit ==
    \A i \in Instances :
        LET s == instances[i].site
            lock == b.lock[instances[i].host]
        IN  instances[i].phase # "idle" =>
                IF Dedicated(s) /\ ~Siteless(s) THEN lock = s ELSE lock \notin Sites

\* The spare never makes the hosts exceed the limit, although hosts are created
\* beyond the limit where none can be reused, and the limit may be lowered.
SpareWithinLimit == b.spare # NoHost => Cardinality(GetAllHosts(b)) <= b.limit

\* "TODO(clamy): This shouldn't happen but we are getting reports from the
\* field": every host that a registry names is there (RenderProcessHost::FromID),
\* and so is every host an instance has.
TrackedExist ==
    /\ \A p \in b.sole \union b.unmatched \union b.delayed : p[2] \in GetAllHosts(b)
    /\ b.spare # NoHost => b.spare \in GetAllHosts(b)
    /\ \A i \in Instances :
         instances[i].phase # "idle" => instances[i].host \in GetAllHosts(b)
================================================================================
