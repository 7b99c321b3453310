--------------------------- MODULE MCBrowserProcess ---------------------------
(* Instances for TLC of what the browser process does around the device       *)
(* service: the host of a renderer, its priority, which host a site gets, the  *)
(* start and end of the browser itself, the way of the setting of the service  *)
(* to every process, and the features of a renderer.  They share no state      *)
(* here, so one run moves one of them, chosen at the start, and leaves the     *)
(* others as they began.                                                       *)
EXTENDS RenderProcessHost, RenderProcessPriority, RenderProcessAllocation,
        BrowserMain, DeviceServiceSetting, RuntimeFeatures, TLC

VARIABLE part

allVars == <<part, hostVars, priorityVars, allocationVars, mainVars, settingVars,
             featureVars>>

\* A site that needs a process of its own, and a URL that is assigned no site,
\* in one home of two.
MCHome(s) == "h1"
MCDedicated(s) == s = "a"
MCSiteless(s) == s = "siteless"

Parts == {"host", "priority", "allocation", "main", "setting", "features"}

\* What the chosen part may begin with varies, the others begin in one way.
MCInit ==
    /\ part \in Parts
    /\ HostInit /\ PriorityInit /\ AllocationInit /\ MainInit
    /\ SettingInit /\ FeatureInit
    /\ part # "priority" => ~members.always
    /\ part # "allocation" => ~b.kept
    /\ part # "setting" => flags.ipfBuilt

MCNext ==
    /\ UNCHANGED part
    /\ \/ /\ part = "host" /\ HostNext
          /\ UNCHANGED <<priorityVars, allocationVars, mainVars,
                         settingVars, featureVars>>
       \/ /\ part = "priority" /\ PriorityNext
          /\ UNCHANGED <<hostVars, allocationVars, mainVars,
                         settingVars, featureVars>>
       \/ /\ part = "allocation" /\ AllocationNext
          /\ UNCHANGED <<hostVars, priorityVars, mainVars,
                         settingVars, featureVars>>
       \/ /\ part = "main" /\ MainNext
          /\ UNCHANGED <<hostVars, priorityVars, allocationVars,
                         settingVars, featureVars>>
       \/ /\ part = "setting" /\ SettingNext
          /\ UNCHANGED <<hostVars, priorityVars, allocationVars,
                         mainVars, featureVars>>
       \/ /\ part = "features" /\ FeatureNext
          /\ UNCHANGED <<hostVars, priorityVars, allocationVars,
                         mainVars, settingVars>>

MCSpec == MCInit /\ [][MCNext]_allVars

Symmetry == Permutations(Instances)
-----------------------------------------------------------------------------
\* Every part keeps its types: reference counts, numbers of widgets, calls.
TypesOK ==
    /\ part = "host" => HostTypeOK
    /\ part = "priority" => PriorityTypeOK
    /\ part = "allocation" => AllocationTypeOK
    /\ part = "main" => MainTypeOK
    /\ part = "setting" => SettingTypeOK
    /\ part = "features" => FeatureTypeOK

\* The CHECKs and DCHECKs that render_process_host_impl.cc makes of deletions,
\* deaths, readiness notices, channels, launches and assignments hold, in whatever
\* order launches, deaths, clean-ups, updates and requests come.  Not among them
\* is that a fast shutdown does not enter ProcessDied again, which fails: see
\* NeverReentered of RenderProcessHost.
ChecksHold == HostChecksHold /\ LaunchCheckHolds /\ AllocationChecksHold
================================================================================
