---------------------------- MODULE RuntimeFeatures ----------------------------
(* Which features of Blink a renderer process turns on                         *)
(* (content/child/runtime_features.cc): the defaults of Blink, the             *)
(* experimental switches, base::Features, switches of their own, combinations  *)
(* of these, and the explicit lists, in this order; at last what the browser   *)
(* process does not support is turned off.                                     *)
(* The tables of the code hold more than a hundred features; the model has one *)
(* or two for each way in which they are treated.  Blink's statuses are those  *)
(* of runtime_enabled_features.json5; the setters generated from it are not in *)
(* the repository.  Features that only a platform sets are left out.           *)
EXTENDS Naturals, FiniteSets

CONSTANTS BaseDefaults,     \* base::Features that are on by default
          MaxSettings       \* bound: switches, overrides and list entries at a time

VARIABLES
    config,    \* what the renderer is started with: pairs of a kind and a name
    called,    \* how many of the functions were called
    on         \* the features that are on

featureVars == <<config, called, on>>

\* Statuses, origin trials and base_feature of runtime_enabled_features.json5.
Stable       == {"Database"}
Experimental == {"DeviceService", "HardwareProfiling", "PendingBeaconAPI"}
Test         == {"StorageAccessAPIForOriginExtension"}
OriginTrial  == {"Portals", "FencedFrames", "Fledge", "WebGPU", "PendingBeaconAPI"}
Features     == Stable \union Experimental \union Test \union OriginTrial
                    \union {"AutomationControlled", "EventPath"}

BaseFeatures == {"Portals", "PrivacySandboxAdsAPIsOverride", "FencedFrames", "Fledge",
                 "EventPath", "WebGPUService", "PendingBeaconAPI", "HardwareProfiling",
                 "StorageAccessAPIForOriginExtension", "StorageAccessAPI"}

SwitchNames ==
    {"enable-experimental-web-platform-features", "enable-blink-test-features",
     "disable-origin-trial-controlled-blink-features", "enable-automation",
     "remote-debugging-port=0", "disable-databases", "enable-unsafe-webgpu",
     "event-path-policy=1", "event-path-policy=0"}

FeatureSettings == ({"switch"} \X SwitchNames)
                \union ({"override-on", "override-off"} \X BaseFeatures)
                \union ({"enable", "disable"} \X Features)
                \union {<<"param", "PendingBeaconAPIRequiresOriginTrial">>,
                        <<"profile", "off-the-record">>}

FeatureTypeOK == config \subseteq FeatureSettings /\ called \in 0..9 /\ on \subseteq Features

-----------------------------------------------------------------------------
(* What the configuration says.                                               *)

HasSwitch(name) == <<"switch", name>> \in config

IsFeatureOverridden(base) ==
    <<"override-on", base>> \in config \/ <<"override-off", base>> \in config

IsEnabled(base) ==
    \/ <<"override-on", base>> \in config
    \/ base \in BaseDefaults /\ <<"override-off", base>> \notin config

\* A switch has one value, and a base::Feature one override.
IsConfiguration(c) ==
    /\ \A base \in BaseFeatures :
         ~({<<"override-on", base>>, <<"override-off", base>>} \subseteq c)
    /\ ~({<<"switch", "event-path-policy=1">>, <<"switch", "event-path-policy=0">>}
            \subseteq c)

Set(features, f, value) == IF value THEN features \union {f} ELSE features \ {f}

\* f follows base, if the option lets it.
kSetOnlyIfOverridden(features, f, base) ==
    IF IsFeatureOverridden(base) THEN Set(features, f, IsEnabled(base)) ELSE features

kDefault(features, f, base) ==
    IF IsEnabled(base) \/ IsFeatureOverridden(base)
    THEN Set(features, f, IsEnabled(base)) ELSE features

-----------------------------------------------------------------------------
(* The functions that SetRuntimeFeaturesDefaultsAndUpdateFromArgs calls.      *)

EnableExperimentalFeatures ==
    LET test == HasSwitch("enable-blink-test-features")
    IN  on \union (IF test THEN Test ELSE {})
           \union (IF test \/ HasSwitch("enable-experimental-web-platform-features")
                   THEN Experimental ELSE {})

DisableOriginTrials ==
    IF HasSwitch("disable-origin-trial-controlled-blink-features")
    THEN on \ OriginTrial ELSE on

\* The two tables, in their order.
SetRuntimeFeaturesFromChromiumFeatures ==
    LET a == kDefault(on, "HardwareProfiling", "HardwareProfiling")
        b == kSetOnlyIfOverridden(a, "FencedFrames", "PrivacySandboxAdsAPIsOverride")
        c == kSetOnlyIfOverridden(b, "Fledge", "Fledge")
    IN  kSetOnlyIfOverridden(c, "Fledge", "PrivacySandboxAdsAPIsOverride")

\* The features with a base_feature of their own in runtime_enabled_features.json5.
UpdateStatusFromBaseFeatures ==
    LET a == kSetOnlyIfOverridden(on, "Portals", "Portals")
        b == kDefault(a, "EventPath", "EventPath")
    IN  kDefault(b, "StorageAccessAPIForOriginExtension",
                 "StorageAccessAPIForOriginExtension")

SetRuntimeFeaturesFromCommandLine ==
    (on \ ((IF HasSwitch("disable-databases") THEN {"Database"} ELSE {})
           \union (IF HasSwitch("event-path-policy=0") THEN {"EventPath"} ELSE {})))
        \union (IF HasSwitch("enable-automation") \/ HasSwitch("remote-debugging-port=0")
                THEN {"AutomationControlled"} ELSE {})
        \union (IF HasSwitch("event-path-policy=1") THEN {"EventPath"} ELSE {})

SetCustomizedRuntimeFeaturesFromCombinedArgs ==
    LET w == IF IsEnabled("WebGPUService") THEN on ELSE on \ {"WebGPU"}
        u == IF HasSwitch("enable-unsafe-webgpu") THEN w \union {"WebGPU"} ELSE w
    IN  IF IsEnabled("PendingBeaconAPI")
        THEN Set(u, "PendingBeaconAPI",
                 <<"param", "PendingBeaconAPIRequiresOriginTrial">> \notin config)
        ELSE u

FeaturesFromSwitch(kind) == {f \in Features : <<kind, f>> \in config}

\* mutant: what is disabled explicitly is disabled first
EnabledLast == (on \ FeaturesFromSwitch("disable")) \union FeaturesFromSwitch("enable")

SetExplicitFeatures ==
    (on \union FeaturesFromSwitch("enable")) \ FeaturesFromSwitch("disable")

ResolveInvalidConfigurations ==
    on \ ((IF ~IsEnabled("Portals") THEN {"Portals"} ELSE {})
          \union (IF IsEnabled("PrivacySandboxAdsAPIsOverride") /\ ~IsEnabled("FencedFrames")
                  THEN {"FencedFrames"} ELSE {})
          \union (IF /\ IsEnabled("StorageAccessAPIForOriginExtension")
                     /\ ~IsEnabled("StorageAccessAPI")
                  THEN {"StorageAccessAPIForOriginExtension"} ELSE {}))

Call(n, features) == called = n /\ called' = n + 1 /\ on' = features /\ UNCHANGED config

\* The user, a policy or a field trial sets something before the launch.
Configure(setting) ==
    /\ called = 0 /\ Cardinality(config) < MaxSettings
    /\ setting \notin config /\ IsConfiguration(config \union {setting})
    /\ config' = config \union {setting}
    /\ UNCHANGED <<called, on>>

\* The renderer is launched; one for a profile off the record is told to do
\* without databases (PropagateBrowserCommandLineToRenderer).
StartRenderer ==
    /\ called = 0 /\ called' = 1
    /\ config' = config \union (IF <<"profile", "off-the-record">> \in config
                                THEN {<<"switch", "disable-databases">>} ELSE {})
    /\ on' = Stable

FeatureInit == config = {} /\ called = 0 /\ on = {}

FeatureNext ==
    \/ \E setting \in FeatureSettings : Configure(setting)
    \/ StartRenderer
    \/ Call(1, EnableExperimentalFeatures)
    \/ Call(2, DisableOriginTrials)
    \/ Call(3, SetRuntimeFeaturesFromChromiumFeatures)
    \/ Call(4, UpdateStatusFromBaseFeatures)
    \/ Call(5, SetRuntimeFeaturesFromCommandLine)
    \/ Call(6, SetCustomizedRuntimeFeaturesFromCombinedArgs)
    \/ Call(7, SetExplicitFeatures)
    \/ Call(8, ResolveInvalidConfigurations)

FeatureSpec == FeatureInit /\ [][FeatureNext]_featureVars
-----------------------------------------------------------------------------
Explicit(f) == <<"enable", f>> \in config \/ <<"disable", f>> \in config

\* Five settings that prevail, as comments of the code say of each, whatever else
\* sets the same feature: "Enable explicitly enabled features, and then disable
\* explicitly disabled ones"; "Portals cannot be enabled without the support of
\* the browser process"; a policy "overrides any existing setting via
\* base::Feature"; "Disable databases in incognito mode"; local switches "can
\* still enable WebGPU" where the field trial turned it off.  The last three give
\* way to an explicit list.  Two more comments of the kind of that on Portals are
\* not kept: see DependentsNeedTheirBase.
SettingsPrevail ==
    called = 9 =>
        /\ on \intersect FeaturesFromSwitch("disable") = {}
        /\ "Portals" \in on => IsEnabled("Portals")
        /\ ~Explicit("EventPath") =>
             /\ HasSwitch("event-path-policy=1") => "EventPath" \in on
             /\ HasSwitch("event-path-policy=0") => "EventPath" \notin on
        /\ <<"profile", "off-the-record">> \in config /\ ~Explicit("Database") =>
             "Database" \notin on
        /\ HasSwitch("enable-unsafe-webgpu") /\ ~Explicit("WebGPU") => "WebGPU" \in on

\* "Storage Access API ForSite cannot be enabled unless the larger Storage Access
\* API is also enabled", and "Fenced frames, like Portals, cannot be enabled
\* without the support of the browser process".
DependentsNeedTheirBase ==
    called = 9 =>
        /\ "StorageAccessAPIForOriginExtension" \in on => IsEnabled("StorageAccessAPI")
        /\ "FencedFrames" \in on => IsEnabled("FencedFrames")
================================================================================
