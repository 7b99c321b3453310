------------------------------ MODULE BrowserMain ------------------------------
(* The start and the end of browser processes on one user data directory       *)
(* (chrome/browser/chrome_browser_main.cc, ChromeBrowserMainParts, on Windows  *)
(* with the IPF connection of the device service): the stages that             *)
(* content::BrowserMainLoop calls in order, their early returns, the process   *)
(* singleton, the initialisation of profiles, and the tear-down.               *)
(* BrowserMainLoop, the singleton and the profile manager are not in the       *)
(* repository: a process whose stages before the threads fail ends at once,    *)
(* any other one goes through PostMainMessageLoopRun and PostDestroyThreads;   *)
(* the singleton is a lock that the system frees if its owner dies.            *)
EXTENDS Naturals, FiniteSets

CONSTANTS Processes,  \* browser processes that may be launched
          Profiles    \* profiles used for browsing

VARIABLES
    proc,        \* the parts of each process
    manager,     \* profiles loaded in each process, and their initialisation
    singleton    \* the process that holds the singleton, or Nobody

mainVars == <<proc, manager, singleton>>

Nobody == "nobody"
NoProfile == "none"

ASSUME MainAssumption == Nobody \notin Processes /\ NoProfile \notin Profiles

\* "owner": past the singleton; "profiles": the initial profile was created;
\* "leaving": PreMainMessageLoopRun returned, or the main loop ended.
Stages == {"off", "launched", "early", "threads", "owner", "profiles", "ready",
           "running", "leaving", "torn down"}

MainTypeOK ==
    /\ singleton \in Processes \union {Nobody}
    /\ proc \in [Processes ->
            [stage : Stages,
             ipf : {"never", "connected", "disconnected", "unbalanced"},
             switch : BOOLEAN,              \* --device-service=ipf
             process_command_line : BOOLEAN,
             waiting : BOOLEAN,    \* a command line came before Unlock()
             posted : BOOLEAN,     \* ProcessSingletonNotificationCallbackImpl
             locale : BOOLEAN,     \* the resource bundle was found
             ended : BOOLEAN]]     \* history: it was torn down to the end
    /\ manager \in [Processes ->
            [initial : Profiles \union {NoProfile},
             loaded : SUBSET Profiles,
             calls : [Profiles -> 0..2],    \* of PostProfileInit
             first : Profiles \union {NoProfile},   \* is_initial_profile
             feature : BOOLEAN,             \* kObserverBasedPostProfileInit
             observing : BOOLEAN,           \* profile_manager_observer_
             todo : SUBSET Profiles,        \* the rest of GetLoadedProfiles()
             looping : BOOLEAN]]

NotRunning == [stage |-> "off", ipf |-> "never", switch |-> FALSE,
               process_command_line |-> TRUE, waiting |-> FALSE,
               posted |-> FALSE, locale |-> TRUE, ended |-> FALSE]

NoManager == [initial |-> NoProfile, loaded |-> {},
              calls |-> [f \in Profiles |-> 0], first |-> NoProfile,
              feature |-> FALSE, observing |-> FALSE, todo |-> {}, looping |-> FALSE]

Go(p, stage) == proc' = [proc EXCEPT ![p].stage = stage]

\* The process is gone; what is left of it is its history.
End(p) ==
    /\ proc' = [proc EXCEPT ![p].stage = "off", ![p].waiting = FALSE,
                            ![p].posted = FALSE]
    /\ manager' = [manager EXCEPT ![p] = NoManager]
    /\ singleton' = IF singleton = p THEN Nobody ELSE singleton

-----------------------------------------------------------------------------
(* Up to the singleton.                                                       *)

LaunchBrowser(p, switch) ==
    /\ proc[p].stage = "off"
    /\ proc' = [proc EXCEPT ![p] = [NotRunning EXCEPT !.stage = "launched",
                                                      !.switch = switch]]
    /\ UNCHANGED <<manager, singleton>>

\* Without a resource bundle the user is to be told later: start-up goes on,
\* but IPF is not connected.
PreEarlyInitialization(p, locale) ==
    /\ proc[p].stage = "launched"
    /\ proc' = [proc EXCEPT ![p].stage = "early", ![p].locale = locale,
            ![p].ipf = IF proc[p].switch /\ locale THEN "connected" ELSE @]
    /\ UNCHANGED <<manager, singleton>>

\* The process ends here if its binaries are old.  It also ends if
\* OnLocalStateLoaded failed (no user data directory, a refused licence), but
\* not before IPF was connected, which nothing undoes then.
PreEarlyInitializationFails(p, stale) ==
    /\ proc[p].stage = "launched"
    /\ proc' = [proc EXCEPT ![p].stage = "off",
                            ![p].ipf = IF proc[p].switch /\ ~stale THEN "connected"
                                       ELSE @]
    /\ UNCHANGED <<manager, singleton>>

\* PreCreateThreadsImpl wants a locale; PostCreateThreads follows it.
CreateThreads(p) ==
    /\ proc[p].stage = "early" /\ proc[p].locale
    /\ Go(p, "threads")
    /\ UNCHANGED <<manager, singleton>>

PreCreateThreadsFails(p) == proc[p].stage = "early" /\ End(p)

\* --uninstall, --hide-icons, --make-default-browser.
ReturnsBeforeSingleton(p) ==
    /\ proc[p].stage = "threads"
    /\ Go(p, "leaving")
    /\ UNCHANGED <<manager, singleton>>

\* NotifyOtherProcessOrCreate finds no other process: PROCESS_NONE.
AcquireSingleton(p) ==
    /\ proc[p].stage = "threads" /\ singleton = Nobody
    /\ Go(p, "owner")
    /\ singleton' = p
    /\ UNCHANGED manager

IsShuttingDown(q) == proc[q].stage \in {"leaving", "torn down", "off"}

\* ProcessSingletonNotificationCallback, which posts a task; before Unlock()
\* the singleton itself keeps the command line.  PROCESS_NOTIFIED.
NotifyOther(p) ==
    /\ proc[p].stage = "threads" /\ singleton \notin {Nobody, p}
    /\ ~IsShuttingDown(singleton)
    /\ LET running == proc[singleton].stage = "running"
       IN  proc' = [proc EXCEPT ![p].stage = "leaving",
                                ![singleton].posted = @ \/ running,
                                ![singleton].waiting = @ \/ ~running]
    /\ UNCHANGED <<manager, singleton>>

\* mutant: a process that could not get the singleton goes on
GoesOnRegardless == "owner"

AfterLockError == "leaving"

\* PROFILE_IN_USE and LOCK_ERROR: the other process does not answer.
SingletonInUse(p) ==
    /\ proc[p].stage = "threads" /\ singleton \notin {Nobody, p}
    /\ Go(p, AfterLockError)
    /\ UNCHANGED <<manager, singleton>>

-----------------------------------------------------------------------------
(* From the singleton to the main loop.                                       *)

\* Upgrade tasks, a downgrade, a failed enrolment, a declined try-Chrome dialog,
\* a machine-level Chrome, an error of the initial profile.
ReturnsBeforeProfile(p) ==
    /\ proc[p].stage = "owner"
    /\ Go(p, "leaving")
    /\ UNCHANGED <<manager, singleton>>

\* The try-Chrome dialog is open: the command line of another process is
\* handed to it, and the own one is not processed.
DeferToOther(p) ==
    /\ proc[p].stage = "owner" /\ proc[p].waiting
    /\ proc' = [proc EXCEPT ![p].process_command_line = FALSE]
    /\ UNCHANGED <<manager, singleton>>

\* CreateInitialProfile and AutoloadProfiles.  No initial profile: the picker
\* is shown.  observing: kObserverBasedPostProfileInit.
CreateInitialProfile(p, initial, autoloaded) ==
    /\ proc[p].stage = "owner"
    /\ Go(p, "profiles")
    /\ manager' = [manager EXCEPT
            ![p].initial = initial,
            ![p].loaded = autoloaded \union (IF initial = NoProfile THEN {}
                                             ELSE {initial})]
    /\ UNCHANGED singleton

CallPostProfileInit(m, f) ==
    [m EXCEPT !.calls[f] = m.calls[f] + 1,
              !.first = IF m.first = NoProfile THEN f ELSE m.first]

\* mutant: the loop comes first, and what is loaded meanwhile is missed
ObservesLater(m) == [m EXCEPT !.looping = TRUE, !.todo = m.loaded \ {m.initial}]

\* From here on OnProfileAdded is called for every profile, the ones that the
\* initialisation of another profile creates included.
ObservesFirst(m) == [m EXCEPT !.looping = TRUE, !.observing = TRUE,
                              !.todo = m.loaded \ {m.initial}]

\* The constructor of ProfileInitManager: the initial profile first, whose
\* initialisation may create a profile, before observation starts.
BeginProfileInit(p, feature, created) ==
    /\ proc[p].stage = "profiles" /\ ~manager[p].looping
    /\ LET m == manager[p]
           i == IF m.initial = NoProfile THEN m ELSE CallPostProfileInit(m, m.initial)
       IN  /\ created # {} => m.initial # NoProfile
           /\ manager' = [manager EXCEPT
                  ![p] = LET c == [i EXCEPT !.loaded = i.loaded \union created,
                                            !.feature = feature]
                         IN  IF feature THEN ObservesFirst(c)
                             ELSE [c EXCEPT !.looping = TRUE]]
    /\ UNCHANGED <<proc, singleton>>

\* One turn of the loop over the profiles that were loaded when it began.
InitLoadedProfile(p, f) ==
    /\ manager[p].looping /\ f \in manager[p].todo
    /\ manager' = [manager EXCEPT
            ![p] = [CallPostProfileInit(manager[p], f) EXCEPT !.todo = @ \ {f}]]
    /\ UNCHANGED <<proc, singleton>>

\* A profile is loaded later, or by a callback within the loop.
LoadProfile(p, f) ==
    /\ f \notin manager[p].loaded
    /\ manager[p].looping \/ proc[p].stage \in {"ready", "running"}
    /\ LET m == [manager[p] EXCEPT !.loaded = @ \union {f}]
       IN  manager' = [manager EXCEPT
                ![p] = IF m.observing THEN CallPostProfileInit(m, f) ELSE m]
    /\ UNCHANGED <<proc, singleton>>

EndProfileInit(p) ==
    /\ manager[p].looping /\ manager[p].todo = {}
    /\ Go(p, "ready")
    /\ manager' = [manager EXCEPT ![p].looping = FALSE]
    /\ UNCHANGED singleton

\* The first-run dialog let the browser be told to quit.
QuitsDuringFirstRun(p) ==
    /\ proc[p].stage = "ready"
    /\ Go(p, "leaving")
    /\ UNCHANGED <<manager, singleton>>

\* StartupBrowserCreator::Start opens windows, or not: then there is no main
\* run loop, but PostBrowserStart unlocks the singleton all the same.
StartBrowser(p, started) ==
    /\ proc[p].stage = "ready"
    /\ ~proc[p].process_command_line => started
    /\ proc' = [proc EXCEPT ![p].stage = IF started THEN "running" ELSE "leaving",
                            ![p].posted = @ \/ proc[p].waiting,
                            ![p].waiting = FALSE]
    /\ UNCHANGED <<manager, singleton>>

\* ProcessSingletonNotificationCallbackImpl runs in the main loop.
HandleRequest(p) ==
    /\ proc[p].stage = "running" /\ proc[p].posted
    /\ proc' = [proc EXCEPT ![p].posted = FALSE]
    /\ UNCHANGED <<manager, singleton>>

Quit(p) ==
    /\ proc[p].stage = "running"
    /\ Go(p, "leaving")
    /\ UNCHANGED <<manager, singleton>>

-----------------------------------------------------------------------------
(* The end.                                                                   *)

\* mutant: disconnected only by the process that has the singleton
DisconnectsIfOwner(p) == proc[p].switch /\ singleton = p

Disconnects(p) == proc[p].switch

\* The singleton's Cleanup() does nothing here on Windows.
PostMainMessageLoopRun(p) ==
    /\ proc[p].stage = "leaving"
    /\ proc' = [proc EXCEPT ![p].stage = "torn down",
                            ![p].posted = FALSE, ![p].waiting = FALSE,
                            ![p].ipf = IF ~Disconnects(p) THEN @
                                       ELSE IF @ = "connected" THEN "disconnected"
                                       ELSE "unbalanced"]
    /\ UNCHANGED <<manager, singleton>>

\* DeleteInstance frees the singleton, after everything else.
PostDestroyThreads(p) ==
    /\ proc[p].stage = "torn down"
    /\ proc' = [proc EXCEPT ![p].stage = "off", ![p].ended = TRUE]
    /\ manager' = [manager EXCEPT ![p] = NoManager]
    /\ singleton' = IF singleton = p THEN Nobody ELSE singleton

Crash(p) == proc[p].stage # "off" /\ End(p)

MainInit ==
    /\ proc = [p \in Processes |-> NotRunning]
    /\ manager = [p \in Processes |-> NoManager]
    /\ singleton = Nobody

MainNext == \E p \in Processes :
    \/ \E switch \in BOOLEAN : LaunchBrowser(p, switch)
    \/ \E locale \in BOOLEAN : PreEarlyInitialization(p, locale)
    \/ \E stale \in BOOLEAN : PreEarlyInitializationFails(p, stale)
    \/ CreateThreads(p) \/ PreCreateThreadsFails(p)
    \/ ReturnsBeforeSingleton(p) \/ AcquireSingleton(p) \/ NotifyOther(p)
    \/ SingletonInUse(p) \/ ReturnsBeforeProfile(p) \/ DeferToOther(p)
    \/ \E initial \in Profiles \union {NoProfile}, autoloaded \in SUBSET Profiles :
         CreateInitialProfile(p, initial, autoloaded)
    \/ \E feature \in BOOLEAN, created \in SUBSET (Profiles \ manager[p].loaded) :
         BeginProfileInit(p, feature, created)
    \/ \E f \in Profiles : InitLoadedProfile(p, f) \/ LoadProfile(p, f)
    \/ EndProfileInit(p) \/ QuitsDuringFirstRun(p)
    \/ \E started \in BOOLEAN : StartBrowser(p, started)
    \/ HandleRequest(p) \/ Quit(p)
    \/ PostMainMessageLoopRun(p) \/ PostDestroyThreads(p) \/ Crash(p)

MainSpec == MainInit /\ [][MainNext]_mainVars
-----------------------------------------------------------------------------
\* "Runs CallPostProfileInit() on all existing and future profiles, the initial
\* profile is processed first": once for each, whatever profiles the
\* initialisation of others creates.  Without the feature the initial profile
\* alone is initialised.
EveryProfileInitialisedOnce ==
    \A p \in Processes :
        LET m == manager[p]
            due == IF m.feature THEN m.loaded \ m.todo
                   ELSE m.loaded \intersect {m.initial}
        IN  m.looping \/ proc[p].stage \in {"ready", "running"} =>
              /\ \A f \in Profiles : m.calls[f] = (IF f \in due THEN 1 ELSE 0)
              /\ m.initial # NoProfile => m.first = m.initial

\* "this needs to be done before we attempt to read the profile": a process has
\* profiles only while it holds the singleton, from before the first one is
\* created until after its threads are gone, whatever processes are launched
\* meanwhile and wherever one crashes.
ProfilesOnlyOfOwner ==
    \A p \in Processes : manager[p].loaded # {} => singleton = p

\* A process that is torn down disconnects from IPF exactly if it had connected,
\* also if it returned early, or had no resource bundle and skipped the
\* connection although the switch asks for it.
IpfBalanced ==
    \A p \in Processes :
        /\ proc[p].ipf # "unbalanced"
        /\ proc[p].ended => proc[p].ipf # "connected"
================================================================================
