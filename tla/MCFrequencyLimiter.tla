------------------------ MODULE MCFrequencyLimiter ------------------------
(* Instances of FrequencyLimiter and SharedPowerScheme for TLC.  One run   *)
(* checks several settings, one of which is chosen at the start; of one     *)
(* object, with the values it computes,                                     *)
(*   "failing"  writes and the measurement may fail, coarse steps down;     *)
(*   "service"  the counts of the service, writes that succeed;             *)
(*   "api"      any counts that a caller of the class may use;              *)
(* and of the objects of several processes, call by call,                   *)
(*   "shared"   writes that succeed, or may fail on a machine without E     *)
(*              cores;                                                      *)
(*   "lossy"    one process on a hybrid machine, writes that may fail.      *)
(* The constants are those of all settings together.                        *)
EXTENDS FrequencyLimiter, SharedPowerScheme, FiniteSets, TLC

\* (float)g / 100.0f * m in binary32, truncated, is the exact quotient but for
\* these gears of these frequencies, where it is one less.
MCRoundedDown ==
    {<<2600, 39>>, <<2600, 53>>, <<2600, 59>>, <<2600, 65>>, <<2600, 78>>,
     <<4400, 39>>, <<4400, 53>>, <<4400, 78>>}

MCScale(frequencies) ==
    [m \in frequencies |->
        [g \in Gears |-> ((g * m) \div 100) - IF <<m, g>> \in MCRoundedDown THEN 1 ELSE 0]]

MCSettings ==
    [failing |-> [frequencies |-> {0, 1500}, down |-> {30}, up |-> {100},
                  stored |-> {0}, faulty |-> BOOLEAN],
     service |-> [frequencies |-> {1500, 2600, 4400}, down |-> {10}, up |-> {100},
                  stored |-> {0, 1500}, faulty |-> {FALSE}],
     api     |-> [frequencies |-> {1500, 2600, 12000}, down |-> {0, 7, 10, 35, 61, 100, 101},
                  up |-> {0, 1, 4, 39, 100, 101},
                  stored |-> {0}, faulty |-> {FALSE}],
     shared  |-> [limits |-> {1560, 2080}, stored |-> {0}, faulty |-> BOOLEAN],
     lossy   |-> [limits |-> {2080}, stored |-> {0}, faulty |-> {TRUE}]]

MCAlone  == {"failing", "service", "api"}
MCShared == {"shared", "lossy"}

MCFrequencies == UNION {MCSettings[x].frequencies : x \in MCAlone}
MCScaled      == MCScale(MCFrequencies)
MCDownCounts  == UNION {MCSettings[x].down : x \in MCAlone}
MCUpCounts    == UNION {MCSettings[x].up : x \in MCAlone}
MCWord        == 65536
MCStored      == UNION {MCSettings[x].stored : x \in DOMAIN MCSettings}

\* What GearDown asks for in the gears 80 and 60 of 2600 MHz, and GearUp at the top.
MCGearLimits ==
    {NoLimits} \cup {[c \in Core |-> IF c = PCORE THEN [ac |-> m, dc |-> m - 200]
                                               ELSE [ac |-> m - 100, dc |-> m - 300]] :
                      m \in UNION {MCSettings[x].limits : x \in MCShared}}
MCSymmetry == Permutations(Processes)

VARIABLE setting

MCInit ==
    /\ Init /\ SharedInit
    /\ setting \in DOMAIN MCSettings
    /\ faulty \in MCSettings[setting].faulty
    /\ setting = "shared" => ~(isHybrid /\ faulty)
    /\ power.applied[PCORE] \in [ac : MCSettings[setting].stored, dc : MCSettings[setting].stored]

Alone ==
    \/ Construct /\ maxFrequency' \in MCSettings[setting].frequencies
    \/ \E count \in MCSettings[setting].down : GearDown(count)
    \/ \E count \in MCSettings[setting].up : GearUp(count)
    \/ Destroy
    \/ Crash

MCNext ==
    /\ UNCHANGED setting
    /\ \/ /\ setting \in MCAlone
          /\ Alone
          /\ UNCHANGED <<processes, by, before>>
       \/ /\ setting \in MCShared
          /\ SharedNext
          /\ \A p \in Processes : asked'[p][PCORE].ac \in {0} \cup MCSettings[setting].limits
          /\ setting = "lossy" => Cardinality({p \in Processes : object'[p] \/ before'[p] # {}}) <= 1
          /\ UNCHANGED <<alive, members, stepped>>

MCSpec == MCInit /\ [][MCNext]_<<vars, processes, by, before, setting>>
=============================================================================
