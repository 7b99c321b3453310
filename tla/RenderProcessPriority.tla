------------------------- MODULE RenderProcessPriority -------------------------
(* The scheduling priority of a renderer process, as its RenderProcessHostImpl *)
(* computes it (render_process_host_impl.cc): from the widgets it shows, its   *)
(* media streams, its service workers and the views about to be shown.  The    *)
(* members are computed on every event; the operating system and the renderer  *)
(* are told only of changes, and only while there is a process.                *)
(* Not on Android, where importance takes part (BUILDFLAG(IS_ANDROID)).        *)
EXTENDS Integers, FiniteSets

CONSTANTS NumClients,   \* priority clients; their numbers are their addresses
          MaxDepth,     \* kMaxFrameDepthForPriority
          MaxCount      \* bound: streams, workers or pending views at a time

ASSUME PriorityAssumption == NumClients \in Nat /\ MaxDepth \in Nat /\ MaxCount \in Nat

VARIABLES
    clients,    \* what GetPriority() of each client in priority_clients_ says
    members,    \* the members of the host
    process     \* the process: what the system and the renderer take it for

priorityVars == <<clients, members, process>>

Clients == 1..NumClients
kLaunchingProcessIsBackgrounded == FALSE

ClientPriority == [is_hidden : BOOLEAN, frame_depth : 0..MaxDepth,
                   intersects : BOOLEAN]
Inputs == [visible : 0..NumClients, depth : 0..MaxDepth, intersects : BOOLEAN]
Priority == [visible : BOOLEAN, media : BOOLEAN, worker : BOOLEAN,
             depth : 0..MaxDepth, intersects : BOOLEAN, boost : BOOLEAN]

PriorityMembers ==
    [inputs : Inputs,
     media : 0..MaxCount, workers : 0..MaxCount, pending : 0..MaxCount,
     override : {"none", "foreground", "background"},
     always : BOOLEAN,       \* --disable-renderer-backgrounding
     priority : Priority,    \* priority_
     checked : BOOLEAN]      \* history: every DCHECK held

PriorityProcess ==
    [launcher : {"none", "starting", "started"},
     lowered : BOOLEAN,      \* the system backgrounds it
     told : [background : BOOLEAN, visible : BOOLEAN],
     odd : BOOLEAN]          \* it was launched backgrounded

PriorityTypeOK ==
    /\ clients \in UNION {[S -> ClientPriority] : S \in SUBSET Clients}
    /\ members \in PriorityMembers
    /\ process \in PriorityProcess

is_background(p) == ~p.visible /\ ~p.media /\ ~p.boost /\ ~p.worker

-----------------------------------------------------------------------------
(* The inputs that the widgets give, in the order of priority_clients_.       *)

Smaller(a, b) == IF a < b THEN a ELSE b

Merged(inputs, c) ==
    [inputs EXCEPT !.depth = Smaller(inputs.depth, c.frame_depth),
                   !.intersects = inputs.intersects \/ c.intersects]

\* mutant: a hidden client counts whatever was seen before it
TakenEvenHidden(inputs, c) ==
    IF c.is_hidden THEN Merged(inputs, c)
    ELSE IF inputs.visible > 0
         THEN [Merged(inputs, c) EXCEPT !.visible = inputs.visible + 1]
         ELSE [visible |-> 1, depth |-> c.frame_depth, intersects |-> c.intersects]

Taken(inputs, c) ==
    IF c.is_hidden
    THEN IF inputs.visible = 0 THEN Merged(inputs, c) ELSE inputs
    ELSE IF inputs.visible > 0
         THEN [Merged(inputs, c) EXCEPT !.visible = inputs.visible + 1]
         ELSE [visible |-> 1, depth |-> c.frame_depth, intersects |-> c.intersects]

NoWidgets == [visible |-> 0, depth |-> MaxDepth, intersects |-> FALSE]

InputsOf(cs) ==
    LET After[i \in 0..NumClients] ==
            IF i = 0 THEN NoWidgets
            ELSE IF i \notin DOMAIN cs THEN After[i - 1]
            ELSE Taken(After[i - 1], cs[i])
    IN  After[NumClients]

-----------------------------------------------------------------------------
(* UpdateProcessPriority.                                                     *)

Overridden(foregrounded) ==
    [visible |-> foregrounded, media |-> foregrounded, worker |-> foregrounded,
     depth |-> 0, intersects |-> foregrounded, boost |-> FALSE]

Computed(m) ==
    IF m.override # "none" THEN Overridden(m.override = "foreground")
    ELSE [visible |-> m.inputs.visible > 0 \/ m.always,
          media |-> m.media > 0,
          worker |-> m.workers > 0,
          depth |-> m.inputs.depth,
          intersects |-> m.inputs.intersects,
          boost |-> m.pending > 0]

Reset(p) == [p EXCEPT !.visible = ~kLaunchingProcessIsBackgrounded, !.boost = TRUE]

\* mutant: the renderer hears of it only when the system does
TellsOfBackground(old, new) == is_background(old) # is_background(new)

Tells(old, new) ==
    \/ is_background(old) # is_background(new)
    \/ old.visible # new.visible

State(p) == [background |-> is_background(p), visible |-> p.visible]

\* The host's members become m and the process q, as UpdateProcessPriority
\* leaves them.
UpdateProcessPriority(m, q) ==
    IF q.launcher # "started"
    THEN /\ members' = [m EXCEPT !.priority = Reset(m.priority)]
         /\ process' = q
    ELSE LET p == Computed(m)
         IN  IF p = m.priority THEN members' = m /\ process' = q
             ELSE /\ members' = [m EXCEPT !.priority = p]
                  /\ process' = [q EXCEPT
                        !.lowered = is_background(p),
                        !.told = IF Tells(m.priority, p) THEN State(p) ELSE q.told]

UpdateProcessPriorityInputs ==
    LET inputs == InputsOf(clients')
    IN  IF inputs # members.inputs
        THEN UpdateProcessPriority([members EXCEPT !.inputs = inputs], process)
        ELSE UNCHANGED <<members, process>>

AddOrUpdateClient(c, p) ==
    /\ clients' = [d \in DOMAIN clients \union {c} |->
                     IF d = c THEN p ELSE clients[d]]
    /\ UpdateProcessPriorityInputs

RemovePriorityClient(c) ==
    /\ clients' = [d \in DOMAIN clients \ {c} |-> clients[d]]
    /\ UpdateProcessPriorityInputs

Updated(m) == UpdateProcessPriority(m, process) /\ UNCHANGED clients

OnMediaStreamAdded ==
    members.media < MaxCount /\ Updated([members EXCEPT !.media = @ + 1])
OnMediaStreamRemoved ==
    members.media > 0 /\ Updated([members EXCEPT !.media = @ - 1])
OnForegroundServiceWorkerAdded ==
    members.workers < MaxCount /\ Updated([members EXCEPT !.workers = @ + 1])
OnForegroundServiceWorkerRemoved ==
    members.workers > 0 /\ Updated([members EXCEPT !.workers = @ - 1])

\* Only the first pending view and the last count.
AddPendingView ==
    /\ members.pending < MaxCount
    /\ LET m == [members EXCEPT !.pending = @ + 1]
       IN  IF members.pending = 0 THEN Updated(m)
           ELSE members' = m /\ UNCHANGED <<clients, process>>

RemovePendingView ==
    /\ members.pending > 0
    /\ LET m == [members EXCEPT !.pending = @ - 1]
       IN  IF m.pending = 0 THEN Updated(m)
           ELSE members' = m /\ UNCHANGED <<clients, process>>

SetPriorityOverride(to) == Updated([members EXCEPT !.override = to])
ClearPriorityOverride == Updated([members EXCEPT !.override = "none"])

-----------------------------------------------------------------------------
(* The life of the process, as far as it concerns its priority.               *)

LaunchProcess ==
    /\ process.launcher = "none"
    /\ process' = [process EXCEPT !.launcher = "starting"]
    /\ UNCHANGED <<clients, members>>

\* The state the process was launched in replaces the one that was supposed.
OnProcessLaunchedAs(backgrounded) ==
    /\ process.launcher = "starting"
    /\ LET supposed == members.priority.visible
           m == [members EXCEPT
                    !.priority.visible = ~backgrounded,
                    !.checked = @ /\ kLaunchingProcessIsBackgrounded = ~supposed]
           q == [launcher |-> "started", lowered |-> backgrounded,
                 told |-> [background |-> kLaunchingProcessIsBackgrounded,
                           visible |-> ~kLaunchingProcessIsBackgrounded],
                 odd |-> backgrounded # kLaunchingProcessIsBackgrounded]
       IN  IF m.priority.boost THEN UpdateProcessPriority(m, q)
           ELSE members' = m /\ process' = q
    /\ UNCHANGED clients

NoProcess == [launcher |-> "none", lowered |-> FALSE, odd |-> FALSE,
              told |-> [background |-> FALSE, visible |-> TRUE]]

ProcessDied ==
    /\ process.launcher # "none"
    /\ UpdateProcessPriority(members, NoProcess)
    /\ UNCHANGED clients

PriorityInit ==
    /\ clients = <<>>
    /\ \E always \in BOOLEAN :
         members = [inputs |-> NoWidgets, media |-> 0, workers |-> 0,
                    pending |-> 0, override |-> "none", always |-> always,
                    priority |-> [visible |-> ~kLaunchingProcessIsBackgrounded,
                                  media |-> FALSE, worker |-> FALSE,
                                  depth |-> MaxDepth, intersects |-> FALSE,
                                  boost |-> TRUE],
                    checked |-> TRUE]
    /\ process = NoProcess

PriorityNext ==
    \/ \E c \in Clients, p \in ClientPriority : AddOrUpdateClient(c, p)
    \/ \E c \in DOMAIN clients : RemovePriorityClient(c)
    \/ OnMediaStreamAdded \/ OnMediaStreamRemoved
    \/ OnForegroundServiceWorkerAdded \/ OnForegroundServiceWorkerRemoved
    \/ AddPendingView \/ RemovePendingView
    \/ \E to \in {"foreground", "background"} : SetPriorityOverride(to)
    \/ ClearPriorityOverride
    \/ LaunchProcess \/ ProcessDied
    \/ \E backgrounded \in BOOLEAN : OnProcessLaunchedAs(backgrounded)

PrioritySpec == PriorityInit /\ [][PriorityNext]_priorityVars
-----------------------------------------------------------------------------
\* "the lowest depth of widgets with highest visibility priority": whatever the
\* order of the clients, the visible ones decide if there are any.
Deciding ==
    LET visible == {c \in DOMAIN clients : ~clients[c].is_hidden}
    IN  IF visible # {} THEN visible ELSE DOMAIN clients

Wanted ==
    IF members.override # "none" THEN Overridden(members.override = "foreground")
    ELSE [visible |-> members.always \/ \E c \in Deciding : ~clients[c].is_hidden,
          media |-> members.media # 0,
          worker |-> members.workers # 0,
          depth |-> CHOOSE d \in 0..MaxDepth :
                      /\ d = MaxDepth \/ \E c \in Deciding : clients[c].frame_depth = d
                      /\ \A c \in Deciding : clients[c].frame_depth >= d,
          intersects |-> \E c \in Deciding : clients[c].intersects,
          boost |-> members.pending # 0]

\* As long as there is a process, priority_ is what the widgets, streams,
\* workers, pending views and the override ask for now, although changes that
\* came before the launch, or while a former process lived, found none to set.
PriorityIsWanted == process.launcher = "started" => members.priority = Wanted

\* The operating system and the renderer, which are told of differences only,
\* agree with priority_, also in a process that took the place of a dead one;
\* except for a process that the platform launched in another state than its
\* constant says ("Not all platforms launch processes in the same backgrounded
\* state").
ProcessAgrees ==
    process.launcher = "started" /\ ~process.odd =>
        /\ process.lowered = is_background(members.priority)
        /\ process.told = State(members.priority)

\* A process is launched as visible as the platform launches processes,
\* whatever happened while it was starting (the DCHECK of OnProcessLaunched).
LaunchCheckHolds == members.checked
================================================================================
