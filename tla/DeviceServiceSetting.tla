-------------------------- MODULE DeviceServiceSetting --------------------------
(* How the choice of a device service gets from chrome://flags to every        *)
(* process: the choice is stored (about_flags.cc), becomes --device-service of *)
(* the next browser process, is copied to each renderer it launches            *)
(* (render_process_host_impl.cc), and is read again wherever the service is    *)
(* used: at the connection to IPF (chrome_browser_main.cc), by the provider    *)
(* (device_service_provider_impl.cc), by the two ways to the provider          *)
(* (browser_interface_binders.cc, render_process_host_impl.cc) and by each     *)
(* thread's load tracker (thread_load_tracker.cc).                             *)
(* flags_ui, which stores the choices, and base::CommandLine are not in the    *)
(* repository: a stored choice other than the first replaces a switch of the   *)
(* same name, and a change of what is stored asks for a restart.               *)
EXTENDS Naturals, FiniteSets

CONSTANT Renderers     \* renderer processes that may be launched

VARIABLES
    flags,       \* chrome://flags, which outlives browser processes
    browser,     \* the browser process
    renderers    \* the renderer processes

settingVars == <<flags, browser, renderers>>

Absent == "absent"      \* no --device-service at all
Values == {"ipf", "frequency", "qos", "disabled"}
Settings == Values \union {Absent}
Switches == Settings \union {"other"}   \* a value that nothing knows

\* The label of the choice that stands for Absent is "Enabled".
kDeviceServiceChoices(ipfBuilt) == IF ipfBuilt THEN Settings ELSE Settings \ {"ipf"}

Ways == {"thread", "frame"}

SettingTypeOK ==
    /\ flags \in [chosen : Settings,
                  changed : BOOLEAN,       \* IsRestartNeededToCommitChanges()
                  ipfBuilt : BOOLEAN]      \* BUILDFLAG(ENABLE_IPF)
    /\ browser \in [running : BOOLEAN,
                    byFlags : BOOLEAN,     \* history: not by the command line
                    switch : Switches,
                    ipf : BOOLEAN,         \* connected
                    provider : BOOLEAN,    \* device_service_provider_ exists
                    mode : 0..3,           \* its deviceServiceFlag
                    receivers : SUBSET (Renderers \X Ways)]
    /\ renderers \in [Renderers -> [running : BOOLEAN, switch : Switches,
                                    tracker : {"none", "on", "off"}]]

-----------------------------------------------------------------------------
(* chrome://flags.                                                            *)

Store(choice) ==
    /\ browser.running
    /\ flags' = [flags EXCEPT !.chosen = choice,
                              !.changed = @ \/ choice # flags.chosen]
    /\ UNCHANGED <<browser, renderers>>

SetFeatureEntryEnabled(choice) ==
    choice \in kDeviceServiceChoices(flags.ipfBuilt) /\ Store(choice)

ResetAllFlags == Store(Absent)

-----------------------------------------------------------------------------
(* The browser process.                                                       *)

\* The switch of the process, given what it was started with.
ConvertFlagsToSwitches(given, noExperiments) ==
    IF noExperiments \/ flags.chosen = Absent THEN given ELSE flags.chosen


NoBrowser == [running |-> FALSE, byFlags |-> FALSE, switch |-> Absent,
              ipf |-> FALSE, provider |-> FALSE, mode |-> 0, receivers |-> {}]

NoRenderer == [running |-> FALSE, switch |-> Absent, tracker |-> "none"]

ConnectsIPF(switch) == flags.ipfBuilt /\ switch = "ipf"

\* The command line is complete before PreEarlyInitialization reads it.
LaunchBrowserWith(given, noExperiments) ==
    /\ ~browser.running
    /\ LET switch == ConvertFlagsToSwitches(given, noExperiments)
       IN  browser' = [NoBrowser EXCEPT
                          !.running = TRUE, !.switch = switch,
                          !.byFlags = ~noExperiments /\ given = Absent,
                          !.ipf = ConnectsIPF(switch)]
    /\ flags' = [flags EXCEPT !.changed = FALSE]
    /\ UNCHANGED renderers

\* The browser ends or crashes; its renderers do not survive it.
EndBrowser ==
    /\ browser.running
    /\ browser' = NoBrowser
    /\ renderers' = [r \in Renderers |-> NoRenderer]
    /\ UNCHANGED flags

-----------------------------------------------------------------------------
(* The renderer processes.                                                    *)

\* mutant: --device-service is not among the switches that are copied
ForgetsSwitch == Absent

PropagateBrowserCommandLineToRenderer == browser.switch

LaunchRenderer(r) ==
    /\ browser.running /\ ~renderers[r].running
    /\ renderers' = [renderers EXCEPT
            ![r] = [NoRenderer EXCEPT !.running = TRUE,
                            !.switch = PropagateBrowserCommandLineToRenderer]]
    /\ UNCHANGED <<flags, browser>>

\* Its pipes are cut; the provider stays.
ExitRenderer(r) ==
    /\ renderers[r].running
    /\ renderers' = [renderers EXCEPT ![r] = NoRenderer]
    /\ browser' = [browser EXCEPT !.receivers = {c \in @ : c[1] # r}]
    /\ UNCHANGED flags

\* The constructor of ThreadLoadTracker.
CreateTracker(r) ==
    /\ renderers[r].running /\ renderers[r].tracker = "none"
    /\ renderers' = [renderers EXCEPT
            ![r].tracker = IF renderers[r].switch # "disabled" THEN "on" ELSE "off"]
    /\ UNCHANGED <<flags, browser>>

-----------------------------------------------------------------------------
(* The provider.                                                              *)

\* The mode is read once, by the constructor.
ModeOf(switch) ==
    CASE switch = "frequency" -> 1
      [] switch = "ipf" /\ flags.ipfBuilt -> 2
      [] switch = "qos" -> 3
      [] OTHER -> 0

\* DeviceService::BindDeviceServiceProvider creates it for the first receiver.
Bind(connection) ==
    browser' = [browser EXCEPT
        !.provider = TRUE,
        !.mode = IF browser.provider THEN @ ELSE ModeOf(browser.switch),
        !.receivers = @ \union {connection}]

\* A thread's first sample; the registry of the process does not look at the
\* switch.
BindFromThread(r) ==
    /\ renderers[r].tracker = "on" /\ <<r, "thread">> \notin browser.receivers
    /\ Bind(<<r, "thread">>)
    /\ UNCHANGED <<flags, renderers>>

\* A page's navigator.deviceService or the media feature; the frame's binder
\* drops the pipe of a disabled service.
BindFromFrame(r) ==
    /\ renderers[r].running /\ <<r, "frame">> \notin browser.receivers
    /\ IF browser.switch # "disabled" THEN Bind(<<r, "frame">>) ELSE UNCHANGED browser
    /\ UNCHANGED <<flags, renderers>>

-----------------------------------------------------------------------------
SettingInit ==
    /\ \E built \in BOOLEAN :
         flags = [chosen |-> Absent, changed |-> FALSE, ipfBuilt |-> built]
    /\ browser = NoBrowser
    /\ renderers = [r \in Renderers |-> NoRenderer]

SettingNext ==
    \/ \E choice \in Settings : SetFeatureEntryEnabled(choice)
    \/ ResetAllFlags
    \/ \E given \in Switches, noExperiments \in BOOLEAN :
         LaunchBrowserWith(given, noExperiments)
    \/ EndBrowser
    \/ \E r \in Renderers :
         \/ LaunchRenderer(r) \/ ExitRenderer(r) \/ CreateTracker(r)
         \/ BindFromThread(r) \/ BindFromFrame(r)

SettingSpec == SettingInit /\ [][SettingNext]_settingVars
-----------------------------------------------------------------------------
\* What chrome://flags shows is what runs, unless it asks for a restart or the
\* process was started with a switch of its own.
ShownIsRunning ==
    browser.running /\ browser.byFlags /\ ~flags.changed =>
        browser.switch = flags.chosen

\* All readers of the setting agree as long as a browser process lives, however
\* often the stored choice changes meanwhile and whenever a renderer is
\* launched: nobody has a provider in a session that is disabled, although one
\* of the ways to it is not guarded, no tracker is off in one that is not, and
\* only a session with IPF calls it.
OneSetting ==
    /\ \A r \in Renderers :
         renderers[r].tracker # "none" =>
            (renderers[r].tracker = "on" <=> browser.switch # "disabled")
    /\ browser.switch = "disabled" => ~browser.provider
    /\ browser.provider => browser.mode = ModeOf(browser.switch)
    /\ browser.mode = 2 => browser.ipf

\* Of a session: both of the above.
OneSettingPerSession == ShownIsRunning /\ OneSetting
================================================================================
