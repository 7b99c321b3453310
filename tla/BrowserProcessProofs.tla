------------------------- MODULE BrowserProcessProofs -------------------------
(* Proofs about the browser process: the choice of a renderer process, who     *)
(* works with profiles and when they are initialised, the connection to IPF,   *)
(* the way of the device service's setting to every process, the features of a *)
(* renderer, and at the end the parts together; for any numbers of processes,  *)
(* hosts, instances, sites, profiles, renderers and settings.                  *)
EXTENDS MCBrowserProcess, RenderProcessHostProofs, FiniteSetTheorems, TLAPS

-----------------------------------------------------------------------------
(***************************************************************************)
(* The choice of a renderer process (RenderProcessAllocation), for any     *)
(* limit and any assignment of sites to homes, of sites that require a     *)
(* process of their own, and of URLs without a site.                       *)
(***************************************************************************)
(* The inductive invariant, of the registries g and the occupations ins of the *)
(* instances.  Base holds at every point of a handler; the rest is restored by *)
(* the clean-up that a handler ends with.                                      *)

Occupants(ins, h) == {i \in Instances : ins[i].host = h}

Listed(g) == g.sole \union g.unmatched \union g.delayed \union g.timers

Undelayed(g, h) == \A p \in Pairs : p[2] = h => g.delays[p] = 0

\* Hosts are created in the order of their IDs, and what a registry lists is
\* there; a host that is not there has left nothing behind.
HostsFit(g) ==
    /\ \E n \in 1..(NumHosts + 1) : NewHosts(g) = n..NumHosts
    /\ \A p \in Listed(g) : p[2] \in GetAllHosts(g)
    /\ \A h \in Hosts \ GetAllHosts(g) :
         g.lock[h] = "invalid" /\ h \notin g.used /\ Undelayed(g, h)

\* Only sites that require it are locked to.
LockOfDedicated(g) ==
    \A h \in Hosts : g.lock[h] \in Sites => Dedicated(g.lock[h]) /\ ~Siteless(g.lock[h])

\* Nobody has used the spare, or can find it but by asking for the spare.
SpareIsFresh(g) ==
    g.spare # NoHost =>
        /\ g.spare \in GetAllHosts(g) /\ g.spare \notin g.used
        /\ Undelayed(g, g.spare)
        /\ \A p \in Listed(g) : p[2] # g.spare

LockFits(g, o) ==
    IF Dedicated(o.site) /\ ~Siteless(o.site) THEN g.lock[o.host] = o.site
    ELSE g.lock[o.host] \notin Sites

\* An instance that has a host has one that fits and that counts as used, but
\* for a navigation to a URL without a site.
OccupationFits(g, o) ==
    IF o.phase = "idle" THEN o = Gone
    ELSE /\ o.site \in Sites /\ o.host \in GetAllHosts(g) \ {g.spare}
         /\ LockFits(g, o)
         /\ o.host \notin g.used => o.phase = "pending" /\ Siteless(o.site)

Base(g, ins) ==
    /\ g \in Registries /\ ins \in [Instances -> Occupations]
    /\ HostsFit(g) /\ LockOfDedicated(g) /\ SpareIsFresh(g)
    /\ \A i \in Instances : OccupationFits(g, ins[i])
    /\ g.checked

\* A host that has not been used has no lock.
Idleness(g, ins, h) ==
    h \notin g.used /\ Undelayed(g, h) /\ Occupants(ins, h) = {} => g.lock[h] = "invalid"

Settled(g, ins) == Base(g, ins) /\ \A h \in Hosts : Idleness(g, ins, h)

SpareIsAllowed(g) ==
    g.spare # NoHost =>
        g.state[g.spare] = "live" /\ Cardinality(GetAllHosts(g)) <= g.limit

Sane(g, ins) == Settled(g, ins) /\ SpareIsAllowed(g)

AllocationInv == Sane(b, instances)

-----------------------------------------------------------------------------
(* Hosts are few, and fewer after a clean-up.                                 *)

LEMMA HostsFinite ==
    ASSUME NEW g
    PROVE  /\ IsFiniteSet(GetAllHosts(g)) /\ Cardinality(GetAllHosts(g)) \in Nat
           /\ \A T \in SUBSET GetAllHosts(g) :
                Cardinality(T) \in Nat /\ Cardinality(T) <= Cardinality(GetAllHosts(g))
<1>1. IsFiniteSet(Hosts)
  BY AllocationAssumption, FS_Interval DEF Hosts
<1>2. GetAllHosts(g) \in SUBSET Hosts
  BY DEF GetAllHosts
<1>3. IsFiniteSet(GetAllHosts(g))
  BY <1>1, <1>2, FS_Subset
<1>4. ASSUME NEW T \in SUBSET GetAllHosts(g)
      PROVE  Cardinality(T) \in Nat /\ Cardinality(T) <= Cardinality(GetAllHosts(g))
  <2>1. IsFiniteSet(T) /\ Cardinality(T) <= Cardinality(GetAllHosts(g))
    BY <1>3, <1>4, FS_Subset
  <2> QED
    BY <2>1, FS_CardinalityType
<1> QED
  BY <1>3, <1>4, FS_CardinalityType

\* The instances that use a host are those that occupy it now.
LEMMA UsersOccupy ==
    ASSUME NEW g \in Registries, NEW h \in Hosts
    PROVE  /\ UsersOf(h) = Occupants(instances, h)
           /\ DelaysOf(g, h) = {} <=> Undelayed(g, h)
           /\ HostHasNotBeenUsed(g, h) <=>
                h \notin g.used /\ Undelayed(g, h) /\ Occupants(instances, h) = {}
<1>1. UsersOf(h) = Occupants(instances, h)
  BY DEF UsersOf, Occupants
<1>2. \A p \in Pairs : g.delays[p] \in 0..1
  BY DEF Registries
<1>3. DelaysOf(g, h) = {} <=> Undelayed(g, h)
  BY <1>2 DEF DelaysOf, Undelayed
<1> QED
  BY <1>1, <1>3 DEF HostHasNotBeenUsed

\* A change of the lists alone that lists nothing new.
LEMMA FewerListed ==
    ASSUME NEW g, NEW ins, Sane(g, ins), NEW c \in Registries,
           Listed(c) \subseteq Listed(g),
           c.state = g.state, c.lock = g.lock, c.used = g.used, c.spare = g.spare,
           c.delays = g.delays, c.limit = g.limit, c.checked = g.checked
    PROVE  Sane(c, ins)
<1>1. GetAllHosts(c) = GetAllHosts(g) /\ NewHosts(c) = NewHosts(g)
  BY DEF GetAllHosts, NewHosts
<1>2. \A h : Undelayed(c, h) <=> Undelayed(g, h)
  BY DEF Undelayed
<1>3. HostsFit(c) /\ LockOfDedicated(c) /\ SpareIsFresh(c) /\ c.checked
  BY <1>1, <1>2 DEF Sane, Settled, Base, HostsFit, LockOfDedicated, SpareIsFresh
<1>4. \A i \in Instances : OccupationFits(c, ins[i])
  BY <1>1 DEF Sane, Settled, Base, OccupationFits, LockFits
<1>5. Base(c, ins)
  BY <1>3, <1>4 DEF Sane, Settled, Base
<1>6. \A h \in Hosts : Idleness(c, ins, h)
  BY <1>2 DEF Sane, Settled, Idleness
<1> QED
  BY <1>1, <1>5, <1>6 DEF Sane, Settled, SpareIsAllowed

-----------------------------------------------------------------------------
(* Clean-ups.                                                                 *)

LEMMA EndedFields ==
    ASSUME NEW g \in Registries, NEW hosts \in SUBSET Hosts
    PROVE  LET c == Ended(g, hosts)
           IN  /\ c \in Registries
               /\ \A h \in Hosts :
                    /\ c.state[h] = IF h \in hosts THEN "gone" ELSE g.state[h]
                    /\ c.home[h] = IF h \in hosts THEN "none" ELSE g.home[h]
                    /\ c.lock[h] = IF h \in hosts THEN "invalid" ELSE g.lock[h]
               /\ c.used = g.used \ hosts
               /\ c.spare = IF g.spare \in hosts THEN NoHost ELSE g.spare
               /\ Listed(c) = {p \in Listed(g) : p[2] \notin hosts}
               /\ c.delays = g.delays /\ c.closed = g.closed /\ c.limit = g.limit
               /\ c.kept = g.kept /\ c.checked = g.checked
<1> DEFINE f == Forgotten(g, hosts)
           c == Ended(g, hosts)
<1>1. /\ Without(g.sole, hosts) \in SUBSET Pairs
      /\ Without(g.unmatched, hosts) \in SUBSET Pairs
      /\ Without(g.delayed, hosts) \in SUBSET Pairs
      /\ Without(g.timers, hosts) \in SUBSET Pairs
  BY DEF Without, Registries
<1>2. f \in Registries
  BY <1>1 DEF Forgotten, Registries
<1>3. /\ f.sole = Without(g.sole, hosts) /\ f.unmatched = Without(g.unmatched, hosts)
      /\ f.delayed = Without(g.delayed, hosts) /\ f.timers = Without(g.timers, hosts)
      /\ f.state = g.state /\ f.home = g.home /\ f.lock = g.lock /\ f.used = g.used
      /\ f.spare = g.spare /\ f.delays = g.delays /\ f.closed = g.closed
      /\ f.limit = g.limit /\ f.kept = g.kept /\ f.checked = g.checked
  BY DEF Forgotten, Registries
<1> DEFINE state == [h \in Hosts |-> IF h \in hosts THEN "gone" ELSE f.state[h]]
           home == [h \in Hosts |-> IF h \in hosts THEN "none" ELSE f.home[h]]
           lock == [h \in Hosts |-> IF h \in hosts THEN "invalid" ELSE f.lock[h]]
           spare == IF f.spare \in hosts THEN NoHost ELSE f.spare
           used == f.used \ hosts
<1>4. c = [f EXCEPT !.state = state, !.home = home, !.lock = lock,
                    !.used = used, !.spare = spare]
  BY DEF Ended
<1>5. /\ state \in [Hosts -> {"new", "live", "dead", "gone"}]
      /\ home \in [Hosts -> Homes \union {"none"}]
      /\ lock \in [Hosts -> Sites \union {"invalid", "any"}]
      /\ used \in SUBSET Hosts /\ spare \in Hosts \union {NoHost}
  BY <1>2 DEF Registries
<1>6. /\ \A h \in Hosts :
           /\ state[h] = IF h \in hosts THEN "gone" ELSE g.state[h]
           /\ home[h] = IF h \in hosts THEN "none" ELSE g.home[h]
           /\ lock[h] = IF h \in hosts THEN "invalid" ELSE g.lock[h]
      /\ spare = IF g.spare \in hosts THEN NoHost ELSE g.spare
      /\ used = g.used \ hosts
  BY <1>3
<1> HIDE DEF f, state, home, lock, spare, used, c
<1>7. c \in Registries
  BY <1>2, <1>4, <1>5 DEF Registries
<1>8. /\ c.state = state /\ c.home = home /\ c.lock = lock
      /\ c.used = used /\ c.spare = spare
      /\ c.sole = f.sole /\ c.unmatched = f.unmatched /\ c.delayed = f.delayed
      /\ c.timers = f.timers /\ c.delays = f.delays /\ c.closed = f.closed
      /\ c.limit = f.limit /\ c.kept = f.kept /\ c.checked = f.checked
  BY <1>2, <1>4 DEF Registries
<1>9. Listed(c) = {p \in Listed(g) : p[2] \notin hosts}
  BY <1>3, <1>8 DEF Listed, Without
<1> QED
  BY <1>3, <1>6, <1>7, <1>8, <1>9 DEF c

\* Hosts that nobody occupies, and whose end is not delayed, are deleted.
LEMMA EndedKeeps ==
    ASSUME NEW g, NEW ins, Base(g, ins), NEW hosts \in SUBSET GetAllHosts(g),
           \A h \in hosts : Undelayed(g, h) /\ Occupants(ins, h) = {}
    PROVE  LET c == Ended(g, hosts)
           IN  /\ Base(c, ins)
               /\ GetAllHosts(c) = GetAllHosts(g) \ hosts /\ NewHosts(c) = NewHosts(g)
               /\ \A h \in Hosts : h \in hosts \/ Idleness(g, ins, h) => Idleness(c, ins, h)
<1> DEFINE c == Ended(g, hosts)
<1>1. g \in Registries /\ hosts \in SUBSET Hosts
  BY DEF Base, GetAllHosts
<1>2. /\ c \in Registries
      /\ \A h \in Hosts :
           /\ c.state[h] = IF h \in hosts THEN "gone" ELSE g.state[h]
           /\ c.lock[h] = IF h \in hosts THEN "invalid" ELSE g.lock[h]
      /\ c.used = g.used \ hosts
      /\ c.spare = IF g.spare \in hosts THEN NoHost ELSE g.spare
      /\ Listed(c) = {p \in Listed(g) : p[2] \notin hosts}
      /\ c.delays = g.delays /\ c.checked = g.checked
  BY <1>1, EndedFields
<1> HIDE DEF c
<1>3. GetAllHosts(c) = GetAllHosts(g) \ hosts /\ NewHosts(c) = NewHosts(g)
  BY <1>1, <1>2 DEF GetAllHosts, NewHosts
<1>4. \A h : Undelayed(c, h) <=> Undelayed(g, h)
  BY <1>2 DEF Undelayed
<1>5. HostsFit(c)
  <2>1. \A p \in Listed(c) : p[2] \in GetAllHosts(c)
    BY <1>2, <1>3 DEF Base, HostsFit
  <2>2. \A h \in Hosts \ GetAllHosts(c) :
           c.lock[h] = "invalid" /\ h \notin c.used /\ Undelayed(c, h)
    BY <1>1, <1>2, <1>3, <1>4 DEF Base, HostsFit
  <2> QED
    BY <1>3, <2>1, <2>2 DEF Base, HostsFit
<1>6. LockOfDedicated(c)
  BY <1>2, AllocationAssumption DEF Base, LockOfDedicated
<1>7. SpareIsFresh(c)
  BY <1>2, <1>3, <1>4 DEF Base, SpareIsFresh
<1>8. ASSUME NEW i \in Instances PROVE OccupationFits(c, ins[i])
  <2>1. OccupationFits(g, ins[i])
    BY DEF Base
  <2>2. ins[i].host \notin hosts
    BY DEF Occupants
  <2>3. ins[i].phase # "idle" => ins[i].host \in Hosts /\ ins[i].host # NoHost
    BY <2>1, AllocationAssumption DEF OccupationFits, GetAllHosts, Hosts, NoHost
  <2> QED
    BY <1>2, <1>3, <2>1, <2>2, <2>3 DEF OccupationFits, LockFits
<1>9. Base(c, ins)
  BY <1>2, <1>5, <1>6, <1>7, <1>8 DEF Base
<1>10. \A h \in Hosts : h \in hosts \/ Idleness(g, ins, h) => Idleness(c, ins, h)
  BY <1>2, <1>4 DEF Idleness
<1> QED
  BY <1>3, <1>9, <1>10 DEF c

LEMMA EndedAllows ==
    ASSUME NEW g \in Registries, NEW hosts \in SUBSET Hosts, SpareIsAllowed(g)
    PROVE  SpareIsAllowed(Ended(g, hosts))
<1> DEFINE c == Ended(g, hosts)
<1>1. /\ c.spare = IF g.spare \in hosts THEN NoHost ELSE g.spare
      /\ c.limit = g.limit
      /\ \A k \in Hosts : c.state[k] = IF k \in hosts THEN "gone" ELSE g.state[k]
  BY EndedFields
<1> HIDE DEF c
<1> SUFFICES ASSUME c.spare # NoHost
             PROVE  c.state[c.spare] = "live" /\ Cardinality(GetAllHosts(c)) <= c.limit
  BY DEF SpareIsAllowed, c
<1>2. c.spare = g.spare /\ g.spare \notin hosts /\ g.spare \in Hosts
  BY <1>1 DEF Registries
<1>3. GetAllHosts(c) \in SUBSET GetAllHosts(g)
  BY <1>1 DEF GetAllHosts
<1>4. /\ Cardinality(GetAllHosts(c)) \in Nat /\ Cardinality(GetAllHosts(g)) \in Nat
      /\ Cardinality(GetAllHosts(c)) <= Cardinality(GetAllHosts(g))
  BY <1>3, HostsFinite
<1>5. g.limit \in Nat
  BY AllocationAssumption DEF Registries
<1> QED
  BY <1>1, <1>2, <1>4, <1>5 DEF SpareIsAllowed

\* RenderProcessHostImpl::Cleanup of a host that may have become idle.
LEMMA CleanedUpKeeps ==
    ASSUME NEW g, NEW ins, Base(g, ins), NEW h \in GetAllHosts(g),
           \A k \in Hosts \ {h} : Idleness(g, ins, k)
    PROVE  LET c == CleanedUp(g, h, Occupants(ins, h))
           IN  /\ Settled(c, ins)
               /\ GetAllHosts(c) \subseteq GetAllHosts(g)
               /\ SpareIsAllowed(g) => SpareIsAllowed(c)
<1> DEFINE c == CleanedUp(g, h, Occupants(ins, h))
<1>1. g \in Registries /\ h \in Hosts /\ {h} \in SUBSET GetAllHosts(g)
  BY DEF Base, GetAllHosts
<1>2. DelaysOf(g, h) = {} <=> Undelayed(g, h)
  BY <1>1, UsersOccupy
<1>3. CASE Occupants(ins, h) # {} \/ DelaysOf(g, h) # {}
  <2>1. c = g
    BY <1>3 DEF CleanedUp
  <2>2. Idleness(g, ins, h)
    BY <1>2, <1>3 DEF Idleness
  <2> QED
    BY <2>1, <2>2 DEF Settled
<1>4. CASE Occupants(ins, h) = {} /\ DelaysOf(g, h) = {}
  <2>1. c = Ended(g, {h})
    BY <1>4 DEF CleanedUp
  <2>2. /\ Base(c, ins) /\ GetAllHosts(c) = GetAllHosts(g) \ {h}
        /\ \A k \in Hosts : k \in {h} \/ Idleness(g, ins, k) => Idleness(c, ins, k)
    BY <1>1, <1>2, <1>4, <2>1, EndedKeeps
  <2>3. Settled(c, ins)
    BY <2>2 DEF Settled
  <2>4. SpareIsAllowed(g) => SpareIsAllowed(c)
    BY <1>1, <2>1, EndedAllows
  <2> QED
    BY <2>2, <2>3, <2>4
<1> QED
  BY <1>3, <1>4

\* The spare is given up: nobody occupies it, so it is deleted.
LEMMA SpareCleaned ==
    ASSUME NEW g, Settled(g, instances)
    PROVE  LET c == CleanupSpare(g)
           IN  /\ Sane(c, instances) /\ c.spare = NoHost
               /\ c.closed = g.closed /\ c.limit = g.limit /\ c.kept = g.kept
               /\ NewHosts(c) = NewHosts(g)
               /\ g.spare = NoHost => c = g
               /\ GetAllHosts(c) = GetAllHosts(g) \ {g.spare}
<1> DEFINE c == CleanupSpare(g)
           e == Ended(g, {g.spare})
<1>1. g \in Registries /\ NoHost \notin Hosts
  BY DEF Settled, Base, Hosts, NoHost
<1>2. CASE g.spare = NoHost
  <2>1. c = g
    BY <1>2 DEF CleanupSpare
  <2>2. Sane(g, instances)
    BY <1>2 DEF Sane, SpareIsAllowed
  <2>3. g.spare \notin GetAllHosts(g)
    BY <1>1, <1>2 DEF GetAllHosts
  <2> QED
    BY <1>2, <2>1, <2>2, <2>3
<1>3. CASE g.spare # NoHost
  <2>1. g.spare \in GetAllHosts(g) /\ g.spare \in Hosts /\ Undelayed(g, g.spare)
    BY <1>3 DEF Settled, Base, SpareIsFresh, GetAllHosts
  <2>2. Occupants(instances, g.spare) = {}
    <3> SUFFICES ASSUME NEW i \in Instances PROVE instances[i].host # g.spare
      BY DEF Occupants
    <3>1. OccupationFits(g, instances[i])
      BY DEF Settled, Base
    <3> QED
      BY <1>3, <3>1 DEF OccupationFits, Gone
  <2>3. /\ Base(e, instances) /\ GetAllHosts(e) = GetAllHosts(g) \ {g.spare}
        /\ NewHosts(e) = NewHosts(g)
        /\ \A k \in Hosts : Idleness(g, instances, k) => Idleness(e, instances, k)
    BY <2>1, <2>2, EndedKeeps DEF Settled
  <2>4. /\ e \in Registries /\ e.spare = NoHost
        /\ e.closed = g.closed /\ e.limit = g.limit /\ e.kept = g.kept
    BY <1>1, <2>1, EndedFields
  <2>5. Sane(e, instances)
    BY <2>3, <2>4 DEF Sane, Settled, SpareIsAllowed
  <2>6. CleanedUp(g, g.spare, UsersOf(g.spare)) = e
    <3>1. UsersOf(g.spare) = {} /\ DelaysOf(g, g.spare) = {}
      BY <1>1, <2>1, <2>2, UsersOccupy
    <3> QED
      BY <3>1 DEF CleanedUp
  <2> HIDE DEF e
  <2>7. c = [e EXCEPT !.spare = NoHost]
    BY <1>3, <2>6 DEF CleanupSpare
  <2>8. c = e
    BY <2>4, <2>7 DEF Registries
  <2> QED
    BY <1>3, <2>3, <2>4, <2>5, <2>8
<1> QED
  BY <1>2, <1>3

-----------------------------------------------------------------------------
(* A new host.                                                                *)

LEMMA NextIsFirst ==
    ASSUME NEW g, HostsFit(g), NewHosts(g) # {}
    PROVE  /\ NextHost(g) \in NewHosts(g) /\ NextHost(g) \in Hosts
           /\ \E n \in 1..(NumHosts + 1) : NewHosts(g) \ {NextHost(g)} = n..NumHosts
<1>1. PICK n \in 1..(NumHosts + 1) : NewHosts(g) = n..NumHosts
  BY DEF HostsFit
<1>2. n \in 1..NumHosts /\ NumHosts \in Nat
  BY <1>1, AllocationAssumption
<1>3. NextHost(g) = n
  <2>1. n \in NewHosts(g) /\ \A k \in NewHosts(g) : n <= k
    BY <1>1, <1>2
  <2>2. \A h \in NewHosts(g) : (\A k \in NewHosts(g) : h <= k) => h = n
    BY <1>1, <1>2, <2>1
  <2> QED
    BY <2>1, <2>2 DEF NextHost
<1>4. NewHosts(g) \ {n} = (n + 1)..NumHosts /\ n + 1 \in 1..(NumHosts + 1)
  BY <1>1, <1>2
<1> QED
  BY <1>1, <1>2, <1>3, <1>4 DEF Hosts

LEMMA CreatedKeeps ==
    ASSUME NEW g, NEW ins, Settled(g, ins), NewHosts(g) # {}, NEW home \in Homes
    PROVE  LET c == CreateRenderProcessHost(g, home)
               n == NextHost(g)
           IN  /\ Settled(c, ins)
               /\ n \in Hosts /\ n \notin GetAllHosts(g) /\ n # g.spare
               /\ GetAllHosts(c) = GetAllHosts(g) \union {n}
               /\ c.state = [g.state EXCEPT ![n] = "live"]
               /\ c.home = [g.home EXCEPT ![n] = home]
               /\ c.lock = g.lock /\ c.used = g.used /\ c.delays = g.delays
               /\ c.spare = g.spare /\ Listed(c) = Listed(g) /\ c.closed = g.closed
               /\ c.limit = g.limit /\ c.kept = g.kept /\ c.checked = g.checked
               /\ c.lock[n] = "invalid" /\ n \notin c.used /\ Undelayed(c, n)
               /\ \A p \in Listed(c) : p[2] # n
               /\ Occupants(ins, n) = {}
<1> DEFINE c == CreateRenderProcessHost(g, home)
           n == NextHost(g)
<1>1. g \in Registries /\ HostsFit(g) /\ NoHost \notin Hosts
  BY DEF Settled, Base, Hosts, NoHost
<1>2. /\ n \in NewHosts(g) /\ n \in Hosts
      /\ \E k \in 1..(NumHosts + 1) : NewHosts(g) \ {n} = k..NumHosts
  BY <1>1, NextIsFirst
<1>3. n \notin GetAllHosts(g)
  BY <1>2 DEF GetAllHosts, NewHosts
<1> DEFINE state == [g.state EXCEPT ![n] = "live"]
           homes == [g.home EXCEPT ![n] = home]
<1>4. c = [g EXCEPT !.state = state, !.home = homes]
  BY <1>1 DEF CreateRenderProcessHost, Registries
<1>5. /\ state \in [Hosts -> {"new", "live", "dead", "gone"}]
      /\ homes \in [Hosts -> Homes \union {"none"}]
      /\ \A h \in Hosts : state[h] = IF h = n THEN "live" ELSE g.state[h]
  BY <1>1, <1>2 DEF Registries
<1> HIDE DEF n, c, state, homes
<1>6. c \in Registries
  BY <1>1, <1>4, <1>5 DEF Registries
<1>7. /\ c.state = state /\ c.home = homes
      /\ c.lock = g.lock /\ c.used = g.used /\ c.delays = g.delays
      /\ c.spare = g.spare /\ c.closed = g.closed /\ c.sole = g.sole
      /\ c.unmatched = g.unmatched /\ c.delayed = g.delayed /\ c.timers = g.timers
      /\ c.limit = g.limit /\ c.kept = g.kept /\ c.checked = g.checked
  BY <1>1, <1>4 DEF Registries
<1>8. Listed(c) = Listed(g)
  BY <1>7 DEF Listed
<1>9. /\ GetAllHosts(c) = GetAllHosts(g) \union {n}
      /\ NewHosts(c) = NewHosts(g) \ {n}
  BY <1>1, <1>2, <1>5, <1>7 DEF GetAllHosts, NewHosts
<1>10. \A h : Undelayed(c, h) <=> Undelayed(g, h)
  BY <1>7 DEF Undelayed
<1>11. /\ c.lock[n] = "invalid" /\ n \notin c.used /\ Undelayed(c, n)
       /\ \A p \in Listed(c) : p[2] # n
  BY <1>1, <1>2, <1>3, <1>7, <1>8, <1>10 DEF HostsFit
<1>12. n # g.spare
  BY <1>1, <1>2, <1>3 DEF Settled, Base, SpareIsFresh
<1>13. Occupants(ins, n) = {}
  <2> SUFFICES ASSUME NEW i \in Instances PROVE ins[i].host # n
    BY DEF Occupants
  <2>1. OccupationFits(g, ins[i])
    BY DEF Settled, Base
  <2> QED
    BY <1>1, <1>2, <1>3, <2>1 DEF OccupationFits, Gone
<1>14. HostsFit(c)
  <2>1. \A p \in Listed(c) : p[2] \in GetAllHosts(c)
    BY <1>1, <1>8, <1>9 DEF HostsFit
  <2>2. \A h \in Hosts \ GetAllHosts(c) :
           c.lock[h] = "invalid" /\ h \notin c.used /\ Undelayed(c, h)
    BY <1>1, <1>7, <1>9, <1>10 DEF HostsFit
  <2> QED
    BY <1>2, <1>9, <2>1, <2>2 DEF HostsFit
<1>15. LockOfDedicated(c)
  BY <1>7 DEF Settled, Base, LockOfDedicated
<1>16. SpareIsFresh(c)
  BY <1>7, <1>8, <1>9, <1>10 DEF Settled, Base, SpareIsFresh
<1>17. \A i \in Instances : OccupationFits(c, ins[i])
  BY <1>7, <1>9 DEF Settled, Base, OccupationFits, LockFits
<1>18. Base(c, ins)
  BY <1>6, <1>7, <1>14, <1>15, <1>16, <1>17 DEF Settled, Base
<1>19. \A h \in Hosts : Idleness(c, ins, h)
  BY <1>7, <1>10 DEF Settled, Idleness
<1>20. Settled(c, ins)
  BY <1>18, <1>19 DEF Settled
<1> QED
  BY <1>2, <1>3, <1>7, <1>8, <1>9, <1>11, <1>12, <1>13, <1>20 DEF c, n, state, homes

-----------------------------------------------------------------------------
(* The spare host.                                                            *)

\* A host that was not in use keeps all that makes it suitable.
Remains(g, w) ==
    /\ GetAllHosts(g) \subseteq GetAllHosts(w) /\ w.spare \notin GetAllHosts(g)
    /\ \A h \in GetAllHosts(g) : w.home[h] = g.home[h]
    /\ w.lock = g.lock /\ w.used = g.used /\ w.delays = g.delays

LEMMA WarmedUpKeeps ==
    ASSUME NEW g, Sane(g, instances), NewHosts(g) # {}, NEW home \in Homes,
           NEW pressure \in BOOLEAN
    PROVE  LET w == WarmupSpare(g, home, pressure)
           IN  Sane(w, instances) /\ (g.spare = NoHost => Remains(g, w))
<1> DEFINE w == WarmupSpare(g, home, pressure)
           c == CleanupSpare(g)
           d == CreateRenderProcessHost(c, home)
           n == NextHost(c)
<1>1. NoHost \notin Hosts /\ NoHost \notin GetAllHosts(g)
  BY DEF Hosts, NoHost, GetAllHosts
<1>2. /\ Sane(c, instances) /\ c.spare = NoHost /\ c.closed = g.closed
      /\ c.limit = g.limit /\ NewHosts(c) = NewHosts(g)
      /\ g.spare = NoHost => c = g
  BY SpareCleaned DEF Sane
<1>3. g.spare = NoHost => Remains(g, c)
  BY <1>1, <1>2 DEF Remains
<1>4. CASE g.spare # NoHost /\ g.home[g.spare] = home
  BY <1>4 DEF WarmupSpare
<1>5. CASE /\ ~(g.spare # NoHost /\ g.home[g.spare] = home)
           /\ home \in g.closed \/ AtLimit(c) \/ pressure
  <2>1. w = c
    BY <1>5 DEF WarmupSpare
  <2> QED
    BY <1>2, <1>3, <2>1
<1>6. CASE /\ ~(g.spare # NoHost /\ g.home[g.spare] = home)
           /\ ~(home \in g.closed \/ AtLimit(c) \/ pressure)
  <2>1. w = [d EXCEPT !.spare = n]
    BY <1>6 DEF WarmupSpare
  <2>2. /\ Settled(d, instances)
        /\ n \in Hosts /\ n \notin GetAllHosts(c)
        /\ GetAllHosts(d) = GetAllHosts(c) \union {n}
        /\ d.state = [c.state EXCEPT ![n] = "live"]
        /\ d.home = [c.home EXCEPT ![n] = home]
        /\ d.lock = c.lock /\ d.used = c.used /\ d.delays = c.delays
        /\ d.limit = c.limit
        /\ n \notin d.used /\ Undelayed(d, n)
        /\ \A p \in Listed(d) : p[2] # n
        /\ Occupants(instances, n) = {}
    BY <1>2, CreatedKeeps DEF Sane
  <2>3. ~AtLimit(c) /\ c \in Registries /\ d \in Registries
    BY <1>2, <1>6, <2>2 DEF Sane, Settled, Base
  <2> HIDE DEF w, c, d, n
  <2>4. /\ w \in Registries /\ w.spare = n
        /\ w.state = d.state /\ w.home = d.home /\ w.lock = d.lock /\ w.used = d.used
        /\ w.delays = d.delays /\ w.limit = d.limit /\ w.checked = d.checked
        /\ w.sole = d.sole /\ w.unmatched = d.unmatched
        /\ w.delayed = d.delayed /\ w.timers = d.timers
    BY <2>1, <2>2, <2>3 DEF Registries
  <2>5. /\ GetAllHosts(w) = GetAllHosts(d) /\ NewHosts(w) = NewHosts(d)
        /\ Listed(w) = Listed(d)
    BY <2>4 DEF GetAllHosts, NewHosts, Listed
  <2>6. \A h : Undelayed(w, h) <=> Undelayed(d, h)
    BY <2>4 DEF Undelayed
  <2>7. HostsFit(w) /\ LockOfDedicated(w)
    BY <2>2, <2>4, <2>5, <2>6 DEF Settled, Base, HostsFit, LockOfDedicated
  <2>8. SpareIsFresh(w)
    BY <2>2, <2>4, <2>5, <2>6 DEF SpareIsFresh
  <2>9. ASSUME NEW i \in Instances PROVE OccupationFits(w, instances[i])
    <3>1. OccupationFits(d, instances[i])
      BY <2>2 DEF Settled, Base
    <3>2. instances[i].host # n
      BY <2>2 DEF Occupants
    <3> QED
      BY <2>4, <2>5, <3>1, <3>2 DEF OccupationFits, LockFits
  <2>10. Base(w, instances)
    BY <2>2, <2>4, <2>7, <2>8, <2>9 DEF Settled, Base
  <2>11. \A h \in Hosts : Idleness(w, instances, h)
    BY <2>2, <2>4, <2>6 DEF Settled, Idleness
  <2>12. SpareIsAllowed(w)
    <3>1. w.state[w.spare] = "live"
      BY <2>2, <2>3, <2>4 DEF Registries
    <3>2. Cardinality(GetAllHosts(w)) = Cardinality(GetAllHosts(c)) + 1
      BY <2>2, <2>5, HostsFinite, FS_AddElement
    <3>3. Cardinality(GetAllHosts(c)) < c.limit
      BY <2>3, HostsFinite, AllocationAssumption DEF AtLimit, Registries
    <3>4. Cardinality(GetAllHosts(c)) \in Nat /\ c.limit \in Nat
      BY <2>3, HostsFinite, AllocationAssumption DEF Registries
    <3> QED
      BY <2>2, <2>4, <3>1, <3>2, <3>3, <3>4 DEF SpareIsAllowed
  <2>13. ASSUME g.spare = NoHost PROVE Remains(g, w)
    <3>1. c = g /\ n \notin GetAllHosts(g)
      BY <1>2, <2>2, <2>13
    <3>2. \A h \in GetAllHosts(g) : w.home[h] = g.home[h]
      BY <2>2, <2>3, <2>4, <3>1 DEF Registries, GetAllHosts
    <3> QED
      BY <2>2, <2>4, <2>5, <3>1, <3>2 DEF Remains
  <2> QED
    BY <2>10, <2>11, <2>12, <2>13 DEF Sane, Settled, w
<1> QED
  BY <1>2, <1>4, <1>5, <1>6

LEMMA PreparedKeeps ==
    ASSUME NEW g, Sane(g, instances), NewHosts(g) # {}, NEW home \in Homes,
           NEW pressure \in BOOLEAN
    PROVE  LET w == PrepareForFutureRequests(g, home, pressure)
           IN  Sane(w, instances) /\ (g.spare = NoHost => Remains(g, w))
<1>1. CASE g.kept
  BY <1>1, WarmedUpKeeps DEF PrepareForFutureRequests
<1>2. CASE ~g.kept
  <2>1. /\ Sane(CleanupSpare(g), instances)
        /\ g.spare = NoHost => CleanupSpare(g) = g
    BY SpareCleaned DEF Sane
  <2>2. NoHost \notin GetAllHosts(g)
    BY DEF GetAllHosts, Hosts, NoHost
  <2> QED
    BY <1>2, <2>1, <2>2 DEF PrepareForFutureRequests, Remains
<1> QED
  BY <1>1, <1>2

\* A spare that stays leaves room for one host more.
LEMMA LeftKeeps ==
    ASSUME NEW g, Sane(g, instances)
    PROVE  LET c == LeaveSpare(g)
           IN  /\ Sane(c, instances) /\ NewHosts(c) = NewHosts(g)
               /\ c.spare = NoHost \/ ~AtLimit(c)
<1>1. /\ Sane(CleanupSpare(g), instances) /\ CleanupSpare(g).spare = NoHost
      /\ NewHosts(CleanupSpare(g)) = NewHosts(g)
  BY SpareCleaned DEF Sane
<1> QED
  BY <1>1 DEF LeaveSpare

-----------------------------------------------------------------------------
(* A host is given to an instance.                                            *)

LEMMA SuitableAlike ==
    ASSUME NEW g, NEW c, NEW h, NEW s,
           c.home[h] = g.home[h], c.lock = g.lock, c.used = g.used, c.delays = g.delays
    PROVE  IsSuitableHost(c, h, s) <=> IsSuitableHost(g, h, s)
<1>1. HostHasNotBeenUsed(c, h) <=> HostHasNotBeenUsed(g, h)
  BY DEF HostHasNotBeenUsed, DelaysOf
<1> QED
  BY <1>1 DEF IsSuitableHost

\* The lock of a host that was given to a page of s.
LockFor(g, h, s) ==
    IF g.lock[h] \in Sites THEN g.lock[h]
    ELSE IF Dedicated(s) /\ ~Siteless(s) THEN s ELSE "any"

LEMMA GivenFields ==
    ASSUME NEW g \in Registries, g.checked, NEW h \in Hosts, NEW s \in Sites,
           g.home[h] = Home(s), NEW policy
    PROVE  LET c == Given(g, h, s, policy)
           IN  /\ c \in Registries
               /\ c.lock = [g.lock EXCEPT ![h] = LockFor(g, h, s)]
               /\ c.used = IF Siteless(s) THEN g.used ELSE g.used \union {h}
               /\ c.state = [g.state EXCEPT ![h] = "live"]
               /\ Listed(c) \subseteq Listed(g) \union {<<s, h>>}
               /\ c.unmatched = g.unmatched
               /\ c.delays = g.delays /\ c.spare = g.spare /\ c.limit = g.limit
               /\ c.checked
<1> DEFINE lock == [g.lock EXCEPT ![h] = LockFor(g, h, s)]
           used == IF Siteless(s) THEN g.used ELSE g.used \union {h}
           sole == IF policy = "PROCESS_PER_SITE" /\ ~Siteless(s) /\ SoleHost(g, s) = {}
                   THEN g.sole \union {<<s, h>>} ELSE g.sole
           state == [g.state EXCEPT ![h] = "live"]
           c == Given(g, h, s, policy)
<1>1. c = [g EXCEPT !.lock = lock, !.used = used, !.sole = sole, !.state = state,
                    !.checked = TRUE]
  BY DEF Given, LockFor, Registries
<1>2. /\ lock \in [Hosts -> Sites \union {"invalid", "any"}]
      /\ used \in SUBSET Hosts /\ sole \in SUBSET Pairs
      /\ state \in [Hosts -> {"new", "live", "dead", "gone"}]
      /\ sole \subseteq g.sole \union {<<s, h>>}
  <2>1. LockFor(g, h, s) \in Sites \union {"invalid", "any"}
    BY DEF LockFor
  <2>2. <<s, h>> \in Pairs
    BY DEF Pairs
  <2> QED
    BY <2>1, <2>2 DEF Registries
<1> HIDE DEF lock, used, sole, state, c
<1>3. c \in Registries
  BY <1>1, <1>2 DEF Registries
<1>4. /\ c.lock = lock /\ c.used = used /\ c.sole = sole /\ c.state = state /\ c.checked
      /\ c.unmatched = g.unmatched /\ c.delayed = g.delayed /\ c.timers = g.timers
      /\ c.delays = g.delays /\ c.spare = g.spare /\ c.limit = g.limit
  BY <1>1 DEF Registries
<1>5. Listed(c) \subseteq Listed(g) \union {<<s, h>>}
  BY <1>2, <1>4 DEF Listed
<1> QED
  BY <1>3, <1>4, <1>5 DEF c, lock, used, state

\* What Use does to the registries, whether a worker is left unmatched or not.
LEMMA UseFields ==
    ASSUME NEW g \in Registries, g.checked, NEW h \in Hosts, NEW s \in Sites,
           g.home[h] = Home(s), NEW policy, NEW worker \in BOOLEAN, NEW reused, NEW i,
           Use(i, g, h, s, policy, worker, reused)
    PROVE  /\ b' \in Registries
           /\ b'.lock = [g.lock EXCEPT ![h] = LockFor(g, h, s)]
           /\ b'.used = IF Siteless(s) THEN g.used ELSE g.used \union {h}
           /\ b'.state = [g.state EXCEPT ![h] = "live"]
           /\ Listed(b') \subseteq Listed(g) \union {<<s, h>>}
           /\ b'.delays = g.delays /\ b'.spare = g.spare /\ b'.limit = g.limit
           /\ b'.checked
<1> DEFINE c == Given(g, h, s, policy)
           d == [c EXCEPT !.unmatched = c.unmatched \union {<<s, h>>}]
<1>1. /\ c \in Registries
      /\ c.lock = [g.lock EXCEPT ![h] = LockFor(g, h, s)]
      /\ c.used = IF Siteless(s) THEN g.used ELSE g.used \union {h}
      /\ c.state = [g.state EXCEPT ![h] = "live"]
      /\ Listed(c) \subseteq Listed(g) \union {<<s, h>>}
      /\ c.delays = g.delays /\ c.spare = g.spare /\ c.limit = g.limit
      /\ c.checked
  BY GivenFields
<1>2. b' = c \/ b' = d
  BY DEF Use
<1> HIDE DEF c
<1>3. c.unmatched \union {<<s, h>>} \in SUBSET Pairs
  BY <1>1 DEF Registries, Pairs
<1>4. d \in Registries
  BY <1>1, <1>3 DEF Registries
<1>5. /\ d.lock = c.lock /\ d.used = c.used /\ d.state = c.state /\ d.delays = c.delays
      /\ d.spare = c.spare /\ d.limit = c.limit /\ d.checked = c.checked
      /\ d.sole = c.sole /\ d.unmatched = c.unmatched \union {<<s, h>>}
      /\ d.delayed = c.delayed /\ d.timers = c.timers
  BY <1>1 DEF Registries
<1> HIDE DEF d
<1>6. Listed(d) \subseteq Listed(g) \union {<<s, h>>}
  BY <1>1, <1>5 DEF Listed
<1> QED
  BY <1>1, <1>2, <1>4, <1>5, <1>6

LEMMA UseKeeps ==
    ASSUME NEW g, Sane(g, instances), NEW i \in Instances, instances[i] = Gone,
           NEW h \in GetAllHosts(g), h # g.spare, NEW s \in Sites, IsSuitableHost(g, h, s),
           NEW policy, NEW worker \in BOOLEAN, worker => ~Siteless(s), NEW reused,
           Use(i, g, h, s, policy, worker, reused)
    PROVE  Sane(b', instances')
<1> DEFINE o == [phase |-> IF worker THEN "worker" ELSE "pending", site |-> s, host |-> h]
<1>1. /\ g \in Registries /\ g.checked /\ h \in Hosts /\ NoHost \notin Hosts
      /\ g.home[h] = Home(s)
  BY DEF Sane, Settled, Base, GetAllHosts, Hosts, NoHost, IsSuitableHost
<1>2. /\ b' \in Registries
      /\ b'.lock = [g.lock EXCEPT ![h] = LockFor(g, h, s)]
      /\ b'.used = IF Siteless(s) THEN g.used ELSE g.used \union {h}
      /\ b'.state = [g.state EXCEPT ![h] = "live"]
      /\ Listed(b') \subseteq Listed(g) \union {<<s, h>>}
      /\ b'.delays = g.delays /\ b'.spare = g.spare /\ b'.limit = g.limit
      /\ b'.checked
  BY <1>1, UseFields
<1>3. instances' = [instances EXCEPT ![i] = o]
  BY DEF Use
<1>4. o \in Occupations
  BY <1>1 DEF Occupations
<1>5. instances \in [Instances -> Occupations]
  BY DEF Sane, Settled, Base
<1>6. /\ o.host = h /\ o.site = s /\ o.phase # "idle"
      /\ o.phase = "pending" \/ ~Siteless(s)
  OBVIOUS
<1> HIDE DEF o
<1>7. /\ instances' \in [Instances -> Occupations] /\ instances'[i] = o
      /\ \A j \in Instances : j # i => instances'[j] = instances[j]
  BY <1>3, <1>4, <1>5
<1>8. \A k \in Hosts : /\ b'.state[k] = IF k = h THEN "live" ELSE g.state[k]
                       /\ b'.lock[k] = IF k = h THEN LockFor(g, h, s) ELSE g.lock[k]
  BY <1>1, <1>2 DEF Registries
<1>9. GetAllHosts(b') = GetAllHosts(g) /\ NewHosts(b') = NewHosts(g)
  BY <1>8 DEF GetAllHosts, NewHosts
<1>10. \A k : Undelayed(b', k) <=> Undelayed(g, k)
  BY <1>2 DEF Undelayed
<1>11. HostsFit(b')
  <2>1. \A p \in Listed(b') : p[2] \in GetAllHosts(b')
    BY <1>2, <1>9 DEF Sane, Settled, Base, HostsFit
  <2>2. \A k \in Hosts \ GetAllHosts(b') :
           b'.lock[k] = "invalid" /\ k \notin b'.used /\ Undelayed(b', k)
    BY <1>2, <1>8, <1>9, <1>10 DEF Sane, Settled, Base, HostsFit
  <2> QED
    BY <1>9, <2>1, <2>2 DEF Sane, Settled, Base, HostsFit
<1>12. g.lock[h] \in Sites => g.lock[h] = s /\ Dedicated(s) /\ ~Siteless(s)
  <2> SUFFICES ASSUME g.lock[h] \in Sites
               PROVE  g.lock[h] = s /\ Dedicated(s) /\ ~Siteless(s)
    OBVIOUS
  <2>1. ~HostHasNotBeenUsed(g, h)
    <3>1. Idleness(g, instances, h)
      BY <1>1 DEF Sane, Settled
    <3>2. g.lock[h] # "invalid"
      BY AllocationAssumption
    <3> QED
      BY <1>1, <3>1, <3>2, UsersOccupy DEF Idleness
  <2>2. Dedicated(s) /\ g.lock[h] = s
    BY <2>1 DEF IsSuitableHost
  <2>3. ~Siteless(s)
    BY <1>1, <2>2 DEF Sane, Settled, Base, LockOfDedicated
  <2> QED
    BY <2>2, <2>3
<1>13. LockOfDedicated(b')
  BY <1>8, <1>12, AllocationAssumption
     DEF LockFor, Sane, Settled, Base, LockOfDedicated
<1>14. SpareIsFresh(b')
  BY <1>1, <1>2, <1>9, <1>10 DEF Sane, Settled, Base, SpareIsFresh
<1>15. OccupationFits(b', o)
  <2>1. LockFits(b', o)
    BY <1>1, <1>6, <1>8, <1>12, AllocationAssumption DEF LockFits, LockFor
  <2> QED
    BY <1>2, <1>6, <1>9, <2>1 DEF OccupationFits
<1>16. ASSUME NEW j \in Instances, j # i PROVE OccupationFits(b', instances[j])
  <2>1. OccupationFits(g, instances[j])
    BY DEF Sane, Settled, Base
  <2>2. CASE instances[j].phase = "idle"
    BY <2>1, <2>2 DEF OccupationFits
  <2>3. CASE instances[j].phase # "idle" /\ instances[j].host # h
    <3>1. instances[j].host \in Hosts
      BY <2>1, <2>3 DEF OccupationFits, GetAllHosts
    <3> QED
      BY <1>2, <1>8, <1>9, <2>1, <2>3, <3>1 DEF OccupationFits, LockFits
  <2>4. CASE instances[j].phase # "idle" /\ instances[j].host = h
    <3>1. LockFits(b', instances[j])
      <4>1. CASE g.lock[h] \in Sites \/ ~(Dedicated(s) /\ ~Siteless(s))
        BY <1>1, <1>8, <2>1, <2>4, <4>1, AllocationAssumption
           DEF OccupationFits, LockFits, LockFor
      <4>2. CASE g.lock[h] \notin Sites /\ Dedicated(s) /\ ~Siteless(s)
        <5>1. j \in Occupants(instances, h)
          BY <2>4 DEF Occupants
        <5>2. ~HostHasNotBeenUsed(g, h)
          BY <1>1, <5>1, UsersOccupy
        <5>3. h \notin g.used
          BY <4>2, <5>2 DEF IsSuitableHost
        <5>4. instances[j].phase = "pending" /\ Siteless(instances[j].site)
          BY <2>1, <2>4, <5>3 DEF OccupationFits
        <5>5. ExpectsSiteless(h)
          BY <2>4, <5>4 DEF ExpectsSiteless, UsersOf
        <5> QED
          BY <4>2, <5>5 DEF IsSuitableHost
      <4> QED
        BY <4>1, <4>2, AllocationAssumption
    <3> QED
      BY <1>2, <1>9, <2>1, <2>4, <3>1 DEF OccupationFits
  <2> QED
    BY <2>2, <2>3, <2>4
<1>17. Base(b', instances')
  BY <1>2, <1>7, <1>11, <1>13, <1>14, <1>15, <1>16 DEF Base
<1>18. ASSUME NEW k \in Hosts PROVE Idleness(b', instances', k)
  <2>1. CASE k = h
    BY <1>6, <1>7, <2>1 DEF Idleness, Occupants
  <2>2. CASE k # h
    <3>1. Occupants(instances, k) \subseteq Occupants(instances', k)
      BY <1>1, <1>7, <2>2 DEF Occupants, Gone
    <3>2. Idleness(g, instances, k)
      BY DEF Sane, Settled
    <3> QED
      BY <1>2, <1>8, <1>10, <2>2, <3>1, <3>2 DEF Idleness
  <2> QED
    BY <2>1, <2>2
<1>19. SpareIsAllowed(b')
  BY <1>1, <1>2, <1>8, <1>9 DEF Sane, SpareIsAllowed, Registries
<1> QED
  BY <1>17, <1>18, <1>19 DEF Sane, Settled

\* What the search by policy finds, and leaves.
LEMMA FoundByPolicy ==
    ASSUME Sane(b, instances), NEW s \in Sites, NEW policy \in Policies,
           NEW h \in ByPolicy(b, s, policy)
    PROVE  h \in GetAllHosts(b) /\ h # b.spare /\ IsSuitableHost(b, h, s)
<1>1. /\ \A p \in Listed(b) : p[2] \in GetAllHosts(b)
      /\ b.spare # NoHost => \A p \in Listed(b) : p[2] # b.spare
      /\ NoHost \notin GetAllHosts(b)
  BY DEF Sane, Settled, Base, HostsFit, SpareIsFresh, GetAllHosts, Hosts, NoHost
<1>2. \A p \in Listed(b) : p[2] \in GetAllHosts(b) /\ p[2] # b.spare
  BY <1>1
<1>3. \A phase \in {"pending", "committed"} : \A k \in HasFrames(s, phase) :
         k \in GetAllHosts(b) /\ k # b.spare
  BY DEF HasFrames, Sane, Settled, Base, OccupationFits
<1>4. CASE policy = "PROCESS_PER_SITE"
  BY <1>2, <1>4 DEF ByPolicy, Suitable, SoleHost, Listed
<1>5. CASE policy = "REUSE_PENDING_OR_COMMITTED_SITE"
  <2>1. h \in Reusable(b, s)
    BY <1>5 DEF ByPolicy
  <2> QED
    BY <1>2, <1>3, <2>1 DEF Reusable, Suitable, Listed
<1>6. CASE policy = "DEFAULT"
  BY <1>6 DEF ByPolicy
<1> QED
  BY <1>4, <1>5, <1>6 DEF Policies

Pruned(sole, delayed) == [b EXCEPT !.sole = sole, !.delayed = delayed]

LEMMA PrunedKeeps ==
    ASSUME Sane(b, instances), NEW sole \in SUBSET b.sole,
           NEW delayed \in SUBSET b.delayed
    PROVE  LET g == Pruned(sole, delayed)
           IN  /\ Sane(g, instances) /\ GetAllHosts(g) = GetAllHosts(b)
               /\ NewHosts(g) = NewHosts(b) /\ g.spare = b.spare
               /\ g.home = b.home /\ g.lock = b.lock /\ g.used = b.used
               /\ g.delays = b.delays
<1> DEFINE g == Pruned(sole, delayed)
<1>1. /\ b \in Registries /\ sole \in SUBSET Pairs /\ delayed \in SUBSET Pairs
  BY DEF Sane, Settled, Base, Registries
<1>2. g \in Registries
  BY <1>1 DEF Pruned, Registries
<1>3. /\ g.sole = sole /\ g.delayed = delayed /\ g.unmatched = b.unmatched
      /\ g.timers = b.timers /\ g.state = b.state /\ g.home = b.home
      /\ g.lock = b.lock /\ g.used = b.used /\ g.spare = b.spare
      /\ g.delays = b.delays /\ g.limit = b.limit /\ g.checked = b.checked
  BY <1>1 DEF Pruned, Registries
<1> HIDE DEF g
<1>4. Listed(g) \subseteq Listed(b)
  BY <1>3 DEF Listed
<1>5. Sane(g, instances)
  BY <1>2, <1>3, <1>4, FewerListed
<1>6. GetAllHosts(g) = GetAllHosts(b) /\ NewHosts(g) = NewHosts(b)
  BY <1>3 DEF GetAllHosts, NewHosts
<1> QED
  BY <1>3, <1>5, <1>6 DEF g

LEMMA PolicyKeeps ==
    ASSUME Sane(b, instances), NEW s \in Sites, NEW policy \in Policies,
           NEW h \in Hosts \union {NoHost}
    PROVE  LET g == AfterPolicy(b, s, policy, h)
           IN  /\ Sane(g, instances) /\ GetAllHosts(g) = GetAllHosts(b)
               /\ NewHosts(g) = NewHosts(b) /\ g.spare = b.spare
               /\ g.home = b.home /\ g.lock = b.lock /\ g.used = b.used
               /\ g.delays = b.delays
<1>1. b \in Registries
  BY DEF Sane, Settled, Base
<1> DEFINE g == AfterPolicy(b, s, policy, h)
           sole == {p \in b.sole : p[2] \notin SoleHost(b, s) \/ IsSuitableHost(b, p[2], s)}
<1>2. CASE policy = "PROCESS_PER_SITE"
  <2>1. g = [b EXCEPT !.sole = sole]
    BY <1>2 DEF AfterPolicy
  <2>2. g = Pruned(sole, b.delayed)
    BY <1>1, <2>1 DEF Pruned, Registries
  <2>3. sole \in SUBSET b.sole
    OBVIOUS
  <2> HIDE DEF g, sole
  <2>4. /\ Sane(g, instances) /\ GetAllHosts(g) = GetAllHosts(b)
        /\ NewHosts(g) = NewHosts(b) /\ g.spare = b.spare
        /\ g.home = b.home /\ g.lock = b.lock /\ g.used = b.used
        /\ g.delays = b.delays
    BY <2>2, <2>3, PrunedKeeps
  <2> QED
    BY <2>4 DEF g
<1>3. CASE policy = "REUSE_PENDING_OR_COMMITTED_SITE" /\ h # NoHost
  <2>1. g = [b EXCEPT !.delayed = Without(b.delayed, {h})]
    BY <1>3 DEF AfterPolicy
  <2>2. g = Pruned(b.sole, Without(b.delayed, {h}))
    BY <1>1, <2>1 DEF Pruned, Registries
  <2>3. Without(b.delayed, {h}) \in SUBSET b.delayed
    BY DEF Without
  <2> HIDE DEF g
  <2>4. /\ Sane(g, instances) /\ GetAllHosts(g) = GetAllHosts(b)
        /\ NewHosts(g) = NewHosts(b) /\ g.spare = b.spare
        /\ g.home = b.home /\ g.lock = b.lock /\ g.used = b.used
        /\ g.delays = b.delays
    BY <2>2, <2>3, PrunedKeeps
  <2> QED
    BY <2>4 DEF g
<1>4. CASE policy # "PROCESS_PER_SITE" /\ ~(policy = "REUSE_PENDING_OR_COMMITTED_SITE" /\ h # NoHost)
  BY <1>4 DEF AfterPolicy
<1> QED
  BY <1>2, <1>3, <1>4

-----------------------------------------------------------------------------
(* GetProcessHostForSiteInstance.                                             *)

LEMMA IdleInstance ==
    ASSUME Sane(b, instances), NEW i \in Instances, NEW s \in Sites, Idle(i, s)
    PROVE  /\ instances[i] = Gone /\ NewHosts(b) # {} /\ Home(s) \in Homes
           /\ b \in Registries /\ b.checked
<1>1. OccupationFits(b, instances[i])
  BY DEF Sane, Settled, Base
<1>2. instances[i] = Gone
  BY <1>1 DEF OccupationFits, Idle
<1>3. NewHosts(b) # {}
  BY FS_EmptySet DEF Idle, RoomForRequest
<1> QED
  BY <1>2, <1>3, AllocationAssumption DEF Sane, Settled, Base

LEMMA ReuseKeeps ==
    ASSUME AllocationInv, NEW i \in Instances, NEW s \in Sites, NEW policy \in Policies,
           NEW worker \in BOOLEAN, worker => ~Siteless(s),
           ReuseByPolicy(i, s, policy, worker)
    PROVE  AllocationInv'
<1>1. Sane(b, instances) /\ Idle(i, s)
  BY DEF AllocationInv, ReuseByPolicy
<1>2. PICK h \in ByPolicy(b, s, policy) :
        Use(i, AfterPolicy(b, s, policy, h), h, s, policy, worker,
            policy = "REUSE_PENDING_OR_COMMITTED_SITE")
  BY DEF ReuseByPolicy
<1> DEFINE g == AfterPolicy(b, s, policy, h)
<1>3. h \in GetAllHosts(b) /\ h # b.spare /\ IsSuitableHost(b, h, s) /\ h \in Hosts
  BY <1>1, FoundByPolicy DEF GetAllHosts
<1>4. /\ Sane(g, instances) /\ GetAllHosts(g) = GetAllHosts(b) /\ g.spare = b.spare
      /\ g.home = b.home /\ g.lock = b.lock /\ g.used = b.used /\ g.delays = b.delays
  BY <1>1, <1>3, PolicyKeeps
<1> HIDE DEF g
<1>5. IsSuitableHost(g, h, s)
  BY <1>3, <1>4, SuitableAlike
<1>6. Sane(b', instances')
  BY <1>1, <1>2, <1>3, <1>4, <1>5, IdleInstance, UseKeeps DEF g
<1> QED
  BY <1>6 DEF AllocationInv

LEMMA MatchKeeps ==
    ASSUME AllocationInv, NEW i \in Instances, NEW s \in Sites, NEW policy \in Policies,
           NEW worker \in BOOLEAN, worker => ~Siteless(s),
           MatchUnmatchedWorker(i, s, policy, worker)
    PROVE  AllocationInv'
<1> DEFINE g == AfterPolicy(b, s, policy, NoHost)
<1>1. Sane(b, instances) /\ Idle(i, s)
  BY DEF AllocationInv, MatchUnmatchedWorker
<1>2. Sane(g, instances)
  BY <1>1, PolicyKeeps
<1>3. PICK h \in ByUnmatchedWorker(g, s, policy, worker) :
        Use(i, [g EXCEPT !.unmatched = @ \ {<<s, h>>}], h, s, policy, worker, FALSE)
  BY DEF MatchUnmatchedWorker
<1> HIDE DEF g
<1> DEFINE unmatched == g.unmatched \ {<<s, h>>}
           c == [g EXCEPT !.unmatched = unmatched]
<1>4. g \in Registries /\ unmatched \in SUBSET Pairs
  BY <1>2 DEF Sane, Settled, Base, Registries
<1>5. h \in Suitable(g, Freshest(g, s), s)
  BY <1>3 DEF ByUnmatchedWorker
<1>6. \E p \in Listed(g) : p[2] = h
  BY <1>5 DEF Suitable, Freshest, Listed
<1>7. IsSuitableHost(g, h, s) /\ h \in GetAllHosts(g) /\ h # g.spare
  BY <1>2, <1>5, <1>6
     DEF Suitable, Sane, Settled, Base, HostsFit, SpareIsFresh, GetAllHosts, Hosts, NoHost
<1>8. Use(i, c, h, s, policy, worker, FALSE)
  BY <1>3
<1>9. unmatched \subseteq g.unmatched
  OBVIOUS
<1> HIDE DEF unmatched
<1>10. c \in Registries
  BY <1>4 DEF Registries
<1>11. /\ c.unmatched = unmatched /\ c.sole = g.sole /\ c.delayed = g.delayed
       /\ c.timers = g.timers /\ c.state = g.state /\ c.home = g.home
       /\ c.lock = g.lock /\ c.used = g.used /\ c.spare = g.spare
       /\ c.delays = g.delays /\ c.limit = g.limit /\ c.checked = g.checked
  BY <1>4 DEF Registries
<1> HIDE DEF c
<1>12. Listed(c) \subseteq Listed(g)
  BY <1>9, <1>11 DEF Listed
<1>13. Sane(c, instances)
  BY <1>2, <1>10, <1>11, <1>12, FewerListed
<1>14. IsSuitableHost(c, h, s) /\ h \in GetAllHosts(c) /\ h # c.spare
  <2>1. IsSuitableHost(c, h, s)
    BY <1>7, <1>11, SuitableAlike
  <2> QED
    BY <1>7, <1>11, <2>1 DEF GetAllHosts
<1>15. Sane(b', instances')
  BY <1>1, <1>8, <1>13, <1>14, IdleInstance, UseKeeps
<1> QED
  BY <1>15 DEF AllocationInv

\* The CHECKs at the taking of the spare hold.
LEMMA TakenFits ==
    ASSUME NEW g, Sane(g, instances), NEW s \in Sites, MayTakeSpare(g, s, TRUE)
    PROVE  LET c == TakeSpare(g)
           IN  /\ Sane(c, instances) /\ c.spare = NoHost
               /\ GetAllHosts(c) = GetAllHosts(g) /\ NewHosts(c) = NewHosts(g)
               /\ g.spare \in GetAllHosts(c) /\ IsSuitableHost(c, g.spare, s)
<1> DEFINE h == g.spare
           c == TakeSpare(g)
<1>1. /\ g \in Registries /\ g.checked /\ h # NoHost /\ g.home[h] = Home(s)
      /\ h \in GetAllHosts(g) /\ h \in Hosts /\ h \notin g.used /\ Undelayed(g, h)
      /\ g.state[h] = "live"
  BY DEF Sane, Settled, Base, SpareIsFresh, SpareIsAllowed, MayTakeSpare, GetAllHosts
<1>2. Occupants(instances, h) = {}
  <2> SUFFICES ASSUME NEW i \in Instances PROVE instances[i].host # h
    BY DEF Occupants
  <2>1. OccupationFits(g, instances[i])
    BY DEF Sane, Settled, Base
  <2> QED
    BY <1>1, <2>1 DEF OccupationFits, Gone
<1>3. HostHasNotBeenUsed(g, h)
  BY <1>1, <1>2, UsersOccupy
<1>4. c = [g EXCEPT !.spare = NoHost, !.checked = TRUE]
  BY <1>1, <1>3 DEF TakeSpare, Registries
<1> HIDE DEF c, h
<1>5. c \in Registries
  BY <1>1, <1>4 DEF Registries
<1>6. /\ c.spare = NoHost /\ c.checked /\ c.state = g.state /\ c.home = g.home
      /\ c.lock = g.lock /\ c.used = g.used /\ c.delays = g.delays /\ c.sole = g.sole
      /\ c.unmatched = g.unmatched /\ c.delayed = g.delayed /\ c.timers = g.timers
  BY <1>1, <1>4 DEF Registries
<1>7. /\ GetAllHosts(c) = GetAllHosts(g) /\ NewHosts(c) = NewHosts(g)
      /\ Listed(c) = Listed(g) /\ \A k : Undelayed(c, k) <=> Undelayed(g, k)
  BY <1>6 DEF GetAllHosts, NewHosts, Listed, Undelayed
<1>8. HostsFit(c) /\ LockOfDedicated(c) /\ SpareIsFresh(c)
  BY <1>6, <1>7 DEF Sane, Settled, Base, HostsFit, LockOfDedicated, SpareIsFresh
<1>9. \A i \in Instances : OccupationFits(c, instances[i])
  BY <1>6, <1>7
     DEF Sane, Settled, Base, OccupationFits, LockFits, GetAllHosts, Hosts, NoHost
<1>10. Base(c, instances)
  BY <1>5, <1>6, <1>8, <1>9 DEF Sane, Settled, Base
<1>11. \A k \in Hosts : Idleness(c, instances, k)
  BY <1>6, <1>7 DEF Sane, Settled, Idleness
<1>12. Sane(c, instances)
  BY <1>6, <1>10, <1>11 DEF Sane, Settled, SpareIsAllowed
<1>13. ~ExpectsSiteless(h)
  BY <1>1, <1>2, UsersOccupy DEF ExpectsSiteless
<1>14. IsSuitableHost(c, h, s)
  BY <1>1, <1>3, <1>6, <1>13 DEF IsSuitableHost, HostHasNotBeenUsed, DelaysOf
<1> QED
  BY <1>1, <1>6, <1>7, <1>12, <1>14 DEF c, h

LEMMA TakeKeeps ==
    ASSUME AllocationInv, NEW i \in Instances, NEW s \in Sites, NEW policy \in Policies,
           NEW worker \in BOOLEAN, worker => ~Siteless(s), NEW pressure \in BOOLEAN,
           TakeSpareProcess(i, s, policy, worker, pressure)
    PROVE  AllocationInv'
<1> DEFINE a == AfterPolicy(b, s, policy, NoHost)
           g == TakeSpare(a)
           c == PrepareForFutureRequests(g, Home(s), pressure)
           h == b.spare
<1>1. Sane(b, instances) /\ Idle(i, s) /\ MayTakeSpare(b, s, TRUE)
  BY DEF AllocationInv, TakeSpareProcess, NotFoundYet
<1>2. /\ instances[i] = Gone /\ NewHosts(b) # {} /\ Home(s) \in Homes
  BY <1>1, IdleInstance
<1>3. /\ Sane(a, instances) /\ a.spare = h /\ a.home = b.home /\ NewHosts(a) = NewHosts(b)
  BY <1>1, PolicyKeeps
<1>4. MayTakeSpare(a, s, TRUE)
  BY <1>1, <1>3 DEF MayTakeSpare
<1>5. /\ Sane(g, instances) /\ g.spare = NoHost /\ NewHosts(g) = NewHosts(b)
      /\ h \in GetAllHosts(g) /\ IsSuitableHost(g, h, s)
  BY <1>3, <1>4, TakenFits
<1>6. Sane(c, instances) /\ Remains(g, c)
  BY <1>2, <1>5, PreparedKeeps
<1>7. IsSuitableHost(c, h, s) /\ h \in GetAllHosts(c) /\ h # c.spare
  <2>1. c.home[h] = g.home[h]
    BY <1>5, <1>6 DEF Remains
  <2>2. IsSuitableHost(c, h, s)
    BY <1>5, <1>6, <2>1, SuitableAlike DEF Remains
  <2> QED
    BY <1>5, <1>6, <2>2 DEF Remains
<1>8. Use(i, [c EXCEPT !.checked = @ /\ IsSuitableHost(g, h, s)], h, s, policy, worker, FALSE)
  BY DEF TakeSpareProcess
<1>9. [c EXCEPT !.checked = @ /\ IsSuitableHost(g, h, s)] = c
  <2>1. c \in Registries /\ c.checked
    BY <1>6 DEF Sane, Settled, Base
  <2> HIDE DEF a, g, c, h
  <2>2. (c.checked /\ IsSuitableHost(g, h, s)) = TRUE
    BY <1>5, <2>1
  <2>3. c.checked = TRUE
    BY <2>1 DEF Registries
  <2> QED
    BY <2>1, <2>2, <2>3 DEF Registries
<1> HIDE DEF a, g, c, h
<1>10. Use(i, c, h, s, policy, worker, FALSE)
  BY <1>8, <1>9
<1>11. Sane(b', instances')
  BY <1>2, <1>6, <1>7, <1>10, UseKeeps
<1> QED
  BY <1>11 DEF AllocationInv

LEMMA ExistingKeeps ==
    ASSUME AllocationInv, NEW i \in Instances, NEW s \in Sites, NEW policy \in Policies,
           NEW worker \in BOOLEAN, worker => ~Siteless(s),
           NEW allowed \in BOOLEAN, NEW shared \in BOOLEAN,
           UseExistingOrNew(i, s, policy, worker, allowed, shared)
    PROVE  AllocationInv'
<1> DEFINE a == AfterPolicy(b, s, policy, NoHost)
           g == LeaveSpare(a)
           c == CreateRenderProcessHost(g, Home(s))
           n == NextHost(g)
           found == IF AtLimit(g) \/ shared THEN Existing(g, s) ELSE {}
<1>1. Sane(b, instances) /\ Idle(i, s)
  BY DEF AllocationInv, UseExistingOrNew, NotFoundYet
<1>2. instances[i] = Gone /\ NewHosts(b) # {} /\ Home(s) \in Homes
  BY <1>1, IdleInstance
<1>3. Sane(a, instances) /\ NewHosts(a) = NewHosts(b)
  BY <1>1, PolicyKeeps
<1>4. Sane(g, instances) /\ NewHosts(g) = NewHosts(b) /\ (g.spare = NoHost \/ ~AtLimit(g))
  BY <1>3, LeftKeeps
<1>5. ASSUME NEW h \in found, Use(i, g, h, s, policy, worker, FALSE)
      PROVE  Sane(b', instances')
  <2>1. h \in GetAllHosts(g) /\ h # g.spare /\ IsSuitableHost(g, h, s)
    BY <1>5 DEF Existing, Suitable
  <2> HIDE DEF a, g, c, n, found
  <2> QED
    BY <1>2, <1>4, <1>5, <2>1, UseKeeps
<1>6. ASSUME Use(i, c, n, s, policy, worker, FALSE) PROVE Sane(b', instances')
  <2>1. /\ Settled(c, instances)
        /\ n \in Hosts /\ n \notin GetAllHosts(g) /\ n # g.spare
        /\ GetAllHosts(c) = GetAllHosts(g) \union {n}
        /\ c.state = [g.state EXCEPT ![n] = "live"]
        /\ c.home = [g.home EXCEPT ![n] = Home(s)]
        /\ c.spare = g.spare /\ c.limit = g.limit
        /\ n \notin c.used /\ Undelayed(c, n)
        /\ Occupants(instances, n) = {}
    BY <1>2, <1>4, CreatedKeeps DEF Sane
  <2>2. g \in Registries /\ c \in Registries
    BY <1>4, <2>1 DEF Sane, Settled, Base
  <2> HIDE DEF a, g, c, n, found
  <2>3. SpareIsAllowed(c)
    <3> SUFFICES ASSUME c.spare # NoHost
                 PROVE  c.state[c.spare] = "live" /\ Cardinality(GetAllHosts(c)) <= c.limit
      BY DEF SpareIsAllowed
    <3>1. g.state[g.spare] = "live" /\ ~AtLimit(g) /\ g.spare \in Hosts
      BY <1>4, <2>1, <2>2 DEF Sane, SpareIsAllowed, Registries
    <3>2. c.state[c.spare] = "live"
      BY <2>1, <2>2, <3>1 DEF Registries
    <3>3. Cardinality(GetAllHosts(c)) = Cardinality(GetAllHosts(g)) + 1
      BY <2>1, HostsFinite, FS_AddElement
    <3>4. Cardinality(GetAllHosts(g)) \in Nat /\ g.limit \in Nat
      BY <2>2, HostsFinite, AllocationAssumption DEF Registries
    <3> QED
      BY <2>1, <3>1, <3>2, <3>3, <3>4 DEF AtLimit
  <2>4. IsSuitableHost(c, n, s)
    <3>1. HostHasNotBeenUsed(c, n) /\ ~ExpectsSiteless(n)
      BY <2>1, <2>2, UsersOccupy DEF ExpectsSiteless
    <3>2. c.home[n] = Home(s)
      BY <2>1, <2>2 DEF Registries
    <3> QED
      BY <3>1, <3>2 DEF IsSuitableHost
  <2>5. Sane(c, instances) /\ n \in GetAllHosts(c) /\ n # c.spare
    BY <2>1, <2>3 DEF Sane
  <2> QED
    BY <1>2, <1>6, <2>4, <2>5, UseKeeps
<1>7. \/ \E h \in found : Use(i, g, h, s, policy, worker, FALSE)
      \/ Use(i, c, n, s, policy, worker, FALSE)
  BY DEF UseExistingOrNew
<1>8. Sane(b', instances')
  BY <1>5, <1>6, <1>7
<1> QED
  BY <1>8 DEF AllocationInv

-----------------------------------------------------------------------------
(* What becomes of the processes.                                             *)

\* An instance that is not idle has its host.
LEMMA BusyInstance ==
    ASSUME AllocationInv, NEW i \in Instances, instances[i].phase # "idle"
    PROVE  /\ OccupationFits(b, instances[i])
           /\ instances[i].host \in GetAllHosts(b) /\ instances[i].host \in Hosts
           /\ instances[i].host # b.spare /\ instances[i].host # NoHost
           /\ instances[i].site \in Sites
<1>1. OccupationFits(b, instances[i])
  BY DEF AllocationInv, Sane, Settled, Base
<1> QED
  BY <1>1 DEF OccupationFits, GetAllHosts, Hosts, NoHost

LEMMA CommitKeeps ==
    ASSUME AllocationInv, NEW i \in Instances, Commit(i)
    PROVE  AllocationInv'
<1> DEFINE h == instances[i].host
           o == [instances[i] EXCEPT !.phase = "committed"]
           used == b.used \union {h}
           state == [b.state EXCEPT ![h] = "live"]
<1>1. /\ Sane(b, instances) /\ b \in Registries
      /\ instances \in [Instances -> Occupations] /\ instances[i].phase = "pending"
  BY DEF AllocationInv, Sane, Settled, Base, Commit
<1>2. /\ OccupationFits(b, instances[i])
      /\ h \in GetAllHosts(b) /\ h \in Hosts /\ h # b.spare
  BY <1>1, BusyInstance
<1>3. instances' = [instances EXCEPT ![i] = o]
  BY <1>1 DEF Commit, Occupations
<1>4. o \in Occupations /\ o.phase = "committed" /\ o.host = h /\ o.site = instances[i].site
  BY <1>1 DEF Occupations
<1>5. b' = [b EXCEPT !.used = used, !.state = state]
  BY DEF Commit
<1>6. /\ used \in SUBSET Hosts /\ state \in [Hosts -> {"new", "live", "dead", "gone"}]
      /\ \A k \in Hosts : state[k] = IF k = h THEN "live" ELSE b.state[k]
  BY <1>1, <1>2 DEF Registries
<1> HIDE DEF used, state, o
<1>7. b' \in Registries
  BY <1>1, <1>5, <1>6 DEF Registries
<1>8. /\ b'.used = used /\ b'.state = state /\ b'.lock = b.lock /\ b'.spare = b.spare
      /\ b'.sole = b.sole /\ b'.unmatched = b.unmatched /\ b'.delayed = b.delayed
      /\ b'.timers = b.timers /\ b'.delays = b.delays /\ b'.limit = b.limit
      /\ b'.checked = b.checked
  BY <1>1, <1>5 DEF Registries
<1>9. GetAllHosts(b') = GetAllHosts(b) /\ NewHosts(b') = NewHosts(b)
  BY <1>2, <1>6, <1>8 DEF GetAllHosts, NewHosts
<1>10. Listed(b') = Listed(b) /\ \A k : Undelayed(b', k) <=> Undelayed(b, k)
  BY <1>8 DEF Listed, Undelayed
<1>11. used = b.used \union {h}
  BY DEF used
<1>12. /\ instances' \in [Instances -> Occupations] /\ instances'[i] = o
       /\ \A j \in Instances : j # i => instances'[j] = instances[j]
  BY <1>1, <1>3, <1>4
<1>13. HostsFit(b')
  BY <1>1, <1>2, <1>8, <1>9, <1>10, <1>11 DEF Sane, Settled, Base, HostsFit
<1>14. LockOfDedicated(b') /\ SpareIsFresh(b')
  BY <1>1, <1>2, <1>8, <1>9, <1>10, <1>11
     DEF Sane, Settled, Base, LockOfDedicated, SpareIsFresh
<1>15. OccupationFits(b', o)
  BY <1>1, <1>2, <1>4, <1>8, <1>9, <1>11 DEF OccupationFits, LockFits
<1>16. ASSUME NEW j \in Instances, j # i PROVE OccupationFits(b', instances[j])
  BY <1>1, <1>8, <1>9, <1>11 DEF Sane, Settled, Base, OccupationFits, LockFits
<1>17. Base(b', instances')
  BY <1>1, <1>7, <1>8, <1>12, <1>13, <1>14, <1>15, <1>16 DEF Sane, Settled, Base
<1>18. ASSUME NEW k \in Hosts PROVE Idleness(b', instances', k)
  <2>1. Occupants(instances', k) = Occupants(instances, k)
    BY <1>4, <1>12 DEF Occupants
  <2> QED
    BY <1>1, <1>8, <1>10, <1>11, <2>1 DEF Sane, Settled, Idleness
<1>19. SpareIsAllowed(b')
  BY <1>1, <1>2, <1>6, <1>8, <1>9 DEF Sane, SpareIsAllowed, Registries
<1> QED
  BY <1>17, <1>18, <1>19 DEF AllocationInv, Sane, Settled

\* The occupations after some instances left.
LEMMA GoneFit ==
    ASSUME NEW g, Base(g, instances), NEW left \in SUBSET Instances, NEW ins,
           ins = [i \in Instances |-> IF i \in left THEN Gone ELSE instances[i]]
    PROVE  /\ Base(g, ins)
           /\ \A h \in Hosts : Occupants(ins, h) = Occupants(instances, h) \ left
<1>1. Gone \in Occupations /\ \A c : OccupationFits(c, Gone)
  BY DEF Gone, Occupations, OccupationFits
<1>2. ins \in [Instances -> Occupations]
  BY <1>1 DEF Base
<1>3. \A i \in Instances : OccupationFits(g, ins[i])
  BY <1>1 DEF Base
<1>4. Base(g, ins)
  BY <1>2, <1>3 DEF Base
<1> QED
  BY <1>4 DEF Occupants, Gone, Hosts, NoHost

LEMMA LeaveKeeps ==
    ASSUME AllocationInv, NEW i \in Instances, Leave(i)
    PROVE  AllocationInv'
<1> DEFINE h == instances[i].host
<1>1. /\ Sane(b, instances) /\ Base(b, instances)
      /\ instances \in [Instances -> Occupations] /\ instances[i].phase # "idle"
  BY DEF AllocationInv, Sane, Settled, Base, Leave
<1>2. h \in GetAllHosts(b) /\ h \in Hosts
  BY <1>1, BusyInstance
<1>3. instances' = [j \in Instances |-> IF j \in {i} THEN Gone ELSE instances[j]]
  BY <1>1 DEF Leave
<1>4. /\ Base(b, instances')
      /\ \A k \in Hosts : Occupants(instances', k) = Occupants(instances, k) \ {i}
  BY <1>1, <1>3, GoneFit
<1>5. b' = CleanedUp(b, h, Occupants(instances', h))
  BY <1>2, <1>4 DEF Leave, UsersOf, Occupants
<1>6. ASSUME NEW k \in Hosts \ {h} PROVE Idleness(b, instances', k)
  <2>1. Occupants(instances', k) = Occupants(instances, k)
    BY <1>4 DEF Occupants
  <2> QED
    BY <1>1, <2>1 DEF Sane, Settled, Idleness
<1>7. Settled(b', instances') /\ SpareIsAllowed(b')
  BY <1>1, <1>2, <1>4, <1>5, <1>6, CleanedUpKeeps DEF Sane
<1> QED
  BY <1>7 DEF AllocationInv, Sane

\* A change of the delays of a host, and of the lists, that leaves Base alone.
LEMMA DelayFits ==
    ASSUME NEW g, NEW ins, Base(g, ins), NEW c \in Registries,
           c.state = g.state, c.lock = g.lock, c.used = g.used, c.spare = g.spare,
           c.limit = g.limit, c.checked = g.checked,
           \A p \in Listed(c) : p[2] \in GetAllHosts(g) \ {g.spare},
           \A h \in Hosts : h \notin GetAllHosts(g) \ {g.spare} =>
                \A p \in Pairs : p[2] = h => c.delays[p] = g.delays[p]
    PROVE  Base(c, ins) /\ GetAllHosts(c) = GetAllHosts(g)
<1>1. GetAllHosts(c) = GetAllHosts(g) /\ NewHosts(c) = NewHosts(g)
  BY DEF GetAllHosts, NewHosts
<1>2. \A h \in Hosts : h \notin GetAllHosts(g) \ {g.spare} =>
                         (Undelayed(c, h) <=> Undelayed(g, h))
  BY DEF Undelayed
<1>3. HostsFit(c)
  BY <1>1, <1>2 DEF Base, HostsFit
<1>4. LockOfDedicated(c) /\ SpareIsFresh(c)
  BY <1>1, <1>2 DEF Base, LockOfDedicated, SpareIsFresh, GetAllHosts
<1>5. \A i \in Instances : OccupationFits(c, ins[i])
  BY <1>1 DEF Base, OccupationFits, LockFits
<1> QED
  BY <1>1, <1>3, <1>4, <1>5 DEF Base

\* What is listed has a host, and not the spare.
LEMMA ListedFits ==
    ASSUME NEW g, NEW ins, Base(g, ins)
    PROVE  \A p \in Listed(g) : p[2] \in GetAllHosts(g) \ {g.spare}
BY DEF Base, HostsFit, SpareIsFresh, GetAllHosts, Hosts, NoHost

LEMMA LeaveWithDelayKeeps ==
    ASSUME AllocationInv, NEW i \in Instances, LeaveWithDelay(i)
    PROVE  AllocationInv'
<1> DEFINE h == instances[i].host
           p == <<instances[i].site, h>>
           delays == [b.delays EXCEPT ![p] = 1]
           timers == b.timers \union {p}
           delayed == b.delayed \union {p}
<1>1. /\ Sane(b, instances) /\ Base(b, instances) /\ b \in Registries
      /\ instances \in [Instances -> Occupations] /\ instances[i].phase # "idle"
  BY DEF AllocationInv, Sane, Settled, Base, LeaveWithDelay
<1>2. h \in GetAllHosts(b) \ {b.spare} /\ h \in Hosts /\ p \in Pairs
  BY <1>1, BusyInstance DEF Pairs
<1>3. instances' = [j \in Instances |-> IF j \in {i} THEN Gone ELSE instances[j]]
  BY <1>1 DEF LeaveWithDelay
<1>4. /\ Base(b, instances')
      /\ \A k \in Hosts : Occupants(instances', k) = Occupants(instances, k) \ {i}
  BY <1>1, <1>3, GoneFit
<1>5. b' = [b EXCEPT !.delays = delays, !.timers = timers, !.delayed = delayed]
  BY <1>1 DEF LeaveWithDelay, Registries
<1>6. /\ delays \in [Pairs -> 0..1] /\ timers \in SUBSET Pairs /\ delayed \in SUBSET Pairs
      /\ \A q \in Pairs : delays[q] = IF q = p THEN 1 ELSE b.delays[q]
      /\ timers \subseteq b.timers \union {p} /\ delayed \subseteq b.delayed \union {p}
  BY <1>1, <1>2 DEF Registries
<1>7. p[2] = h
  OBVIOUS
<1> HIDE DEF delays, timers, delayed, p
<1>8. b' \in Registries
  BY <1>1, <1>5, <1>6 DEF Registries
<1>9. /\ b'.delays = delays /\ b'.timers = timers /\ b'.delayed = delayed
      /\ b'.sole = b.sole /\ b'.unmatched = b.unmatched /\ b'.state = b.state
      /\ b'.lock = b.lock /\ b'.used = b.used /\ b'.spare = b.spare
      /\ b'.limit = b.limit /\ b'.checked = b.checked
  BY <1>1, <1>5 DEF Registries
<1>10. \A q \in Listed(b') : q[2] \in GetAllHosts(b) \ {b.spare}
  <2>1. Listed(b') \subseteq Listed(b) \union {p}
    BY <1>6, <1>9 DEF Listed
  <2> QED
    BY <1>1, <1>2, <1>7, <2>1, ListedFits
<1>11. \A k \in Hosts : k \notin GetAllHosts(b) \ {b.spare} =>
         \A q \in Pairs : q[2] = k => b'.delays[q] = b.delays[q]
  BY <1>2, <1>6, <1>7, <1>9
<1>12. Base(b', instances') /\ GetAllHosts(b') = GetAllHosts(b)
  BY <1>4, <1>8, <1>9, <1>10, <1>11, DelayFits
<1>13. ASSUME NEW k \in Hosts PROVE Idleness(b', instances', k)
  <2>1. CASE k = h
    <3>1. ~Undelayed(b', h)
      BY <1>2, <1>6, <1>7, <1>9 DEF Undelayed
    <3> QED
      BY <2>1, <3>1 DEF Idleness
  <2>2. CASE k # h
    <3>1. Occupants(instances', k) = Occupants(instances, k)
      BY <1>4, <2>2 DEF Occupants
    <3>2. Undelayed(b', k) <=> Undelayed(b, k)
      BY <1>6, <1>7, <1>9, <2>2 DEF Undelayed
    <3> QED
      BY <1>1, <1>9, <3>1, <3>2 DEF Sane, Settled, Idleness
  <2> QED
    BY <2>1, <2>2
<1>14. SpareIsAllowed(b')
  BY <1>1, <1>9, <1>12 DEF Sane, SpareIsAllowed
<1> QED
  BY <1>12, <1>13, <1>14 DEF AllocationInv, Sane, Settled

LEMMA CancelKeeps ==
    ASSUME AllocationInv, NEW p \in Pairs, CancelShutdownDelayOf(p)
    PROVE  AllocationInv'
<1> DEFINE h == p[2]
           delays == [b.delays EXCEPT ![p] = 0]
           timers == b.timers \ {p}
           delayed == b.delayed \ {p}
           d == [b EXCEPT !.timers = timers, !.delayed = delayed, !.delays = delays]
<1>1. Sane(b, instances) /\ Base(b, instances) /\ b \in Registries
  BY DEF AllocationInv, Sane, Settled, Base
<1>2. h \in GetAllHosts(b) \ {b.spare} /\ h \in Hosts
  BY <1>1, ListedFits DEF CancelShutdownDelayOf, Listed, GetAllHosts
<1>3. b' = CleanedUp(d, h, UsersOf(h)) /\ UNCHANGED instances
  BY DEF CancelShutdownDelayOf
<1>4. UsersOf(h) = Occupants(instances, h)
  BY DEF UsersOf, Occupants
<1>5. /\ delays \in [Pairs -> 0..1] /\ timers \in SUBSET Pairs /\ delayed \in SUBSET Pairs
      /\ \A q \in Pairs : delays[q] = IF q = p THEN 0 ELSE b.delays[q]
      /\ timers \subseteq b.timers /\ delayed \subseteq b.delayed
  BY <1>1 DEF Registries
<1> HIDE DEF delays, timers, delayed
<1>6. d \in Registries
  BY <1>1, <1>5 DEF Registries
<1>7. /\ d.delays = delays /\ d.timers = timers /\ d.delayed = delayed
      /\ d.sole = b.sole /\ d.unmatched = b.unmatched /\ d.state = b.state
      /\ d.lock = b.lock /\ d.used = b.used /\ d.spare = b.spare
      /\ d.limit = b.limit /\ d.checked = b.checked
  BY <1>1 DEF Registries
<1> HIDE DEF d
<1>8. \A q \in Listed(d) : q[2] \in GetAllHosts(b) \ {b.spare}
  <2>1. Listed(d) \subseteq Listed(b)
    BY <1>5, <1>7 DEF Listed
  <2> QED
    BY <1>1, <2>1, ListedFits
<1>9. \A k \in Hosts : k \notin GetAllHosts(b) \ {b.spare} =>
        \A q \in Pairs : q[2] = k => d.delays[q] = b.delays[q]
  BY <1>2, <1>5, <1>7
<1>10. Base(d, instances) /\ GetAllHosts(d) = GetAllHosts(b)
  BY <1>1, <1>6, <1>7, <1>8, <1>9, DelayFits
<1>11. ASSUME NEW k \in Hosts \ {h} PROVE Idleness(d, instances, k)
  <2>1. Undelayed(d, k) <=> Undelayed(b, k)
    BY <1>5, <1>7 DEF Undelayed
  <2> QED
    BY <1>1, <1>7, <2>1 DEF Sane, Settled, Idleness
<1>12. SpareIsAllowed(d)
  BY <1>1, <1>7, <1>10 DEF Sane, SpareIsAllowed
<1>13. Settled(b', instances) /\ SpareIsAllowed(b')
  BY <1>2, <1>3, <1>4, <1>10, <1>11, <1>12, CleanedUpKeeps
<1> QED
  BY <1>3, <1>13 DEF AllocationInv, Sane

LEMMA DiedKeeps ==
    ASSUME AllocationInv, NEW h \in Hosts, ProcessOfHostDied(h)
    PROVE  AllocationInv'
<1> DEFINE state == [b.state EXCEPT ![h] = "dead"]
           timers == Without(b.timers, {h})
           d == [b EXCEPT !.state = state, !.timers = timers]
<1>1. Sane(b, instances) /\ b \in Registries /\ b.state[h] = "live"
  BY DEF AllocationInv, Sane, Settled, Base, ProcessOfHostDied
<1>2. d = [b EXCEPT !.state[h] = "dead", !.timers = Without(@, {h})]
  BY <1>1 DEF Registries
<1>3. /\ state \in [Hosts -> {"new", "live", "dead", "gone"}] /\ timers \in SUBSET Pairs
      /\ \A k \in Hosts : state[k] = IF k = h THEN "dead" ELSE b.state[k]
      /\ timers \subseteq b.timers
  BY <1>1 DEF Registries, Without
<1>4. b' = (IF h = b.spare THEN CleanupSpare(d) ELSE d) /\ UNCHANGED instances
  BY <1>2 DEF ProcessOfHostDied
<1> HIDE DEF state, timers
<1>5. d \in Registries
  BY <1>1, <1>3 DEF Registries
<1>6. /\ d.state = state /\ d.timers = timers /\ d.delayed = b.delayed
      /\ d.sole = b.sole /\ d.unmatched = b.unmatched /\ d.delays = b.delays
      /\ d.lock = b.lock /\ d.used = b.used /\ d.spare = b.spare
      /\ d.limit = b.limit /\ d.checked = b.checked
  BY <1>1 DEF Registries
<1> HIDE DEF d
<1>7. GetAllHosts(d) = GetAllHosts(b) /\ NewHosts(d) = NewHosts(b)
  BY <1>1, <1>3, <1>6 DEF GetAllHosts, NewHosts
<1>8. Listed(d) \subseteq Listed(b) /\ \A k : Undelayed(d, k) <=> Undelayed(b, k)
  BY <1>3, <1>6 DEF Listed, Undelayed
<1>9. HostsFit(d) /\ LockOfDedicated(d) /\ SpareIsFresh(d)
  BY <1>1, <1>6, <1>7, <1>8
     DEF Sane, Settled, Base, HostsFit, LockOfDedicated, SpareIsFresh
<1>10. \A i \in Instances : OccupationFits(d, instances[i])
  BY <1>1, <1>6, <1>7 DEF Sane, Settled, Base, OccupationFits, LockFits
<1>11. Base(d, instances)
  BY <1>1, <1>5, <1>6, <1>9, <1>10 DEF Sane, Settled, Base
<1>12. \A k \in Hosts : Idleness(d, instances, k)
  BY <1>1, <1>6, <1>8 DEF Sane, Settled, Idleness
<1>13. Settled(d, instances)
  BY <1>11, <1>12 DEF Settled
<1>14. CASE h = b.spare
  BY <1>4, <1>13, <1>14, SpareCleaned DEF AllocationInv
<1>15. CASE h # b.spare
  <2>1. SpareIsAllowed(d)
    BY <1>1, <1>3, <1>6, <1>7, <1>15 DEF Sane, SpareIsAllowed, Registries
  <2> QED
    BY <1>4, <1>13, <1>15, <2>1 DEF AllocationInv, Sane
<1> QED
  BY <1>14, <1>15

LEMMA ShutdownKeeps ==
    ASSUME AllocationInv, NEW home \in Homes, BrowserContextShutdown(home)
    PROVE  AllocationInv'
<1> DEFINE hosts == {h \in GetAllHosts(b) : b.home[h] = home}
           ended == {i \in Instances : instances[i].phase = "worker"
                                       /\ instances[i].host \in hosts}
           closed == b.closed \union {home}
           delays == [p \in Pairs |-> IF p[2] \in hosts THEN 0 ELSE b.delays[p]]
           d == [b EXCEPT !.closed = closed, !.delays = delays]
           left == {h \in hosts : UsersOf(h) \subseteq ended}
<1>1. Sane(b, instances) /\ Base(b, instances) /\ b \in Registries
  BY DEF AllocationInv, Sane, Settled, Base
<1>2. /\ instances' = [i \in Instances |-> IF i \in ended THEN Gone ELSE instances[i]]
      /\ b' = Ended(d, left)
  BY DEF BrowserContextShutdown
<1>3. /\ closed \in SUBSET Homes /\ delays \in [Pairs -> 0..1]
      /\ \A p \in Pairs : delays[p] = IF p[2] \in hosts THEN 0 ELSE b.delays[p]
  BY <1>1 DEF Registries
<1>4. /\ hosts \in SUBSET GetAllHosts(b) /\ ended \in SUBSET Instances
      /\ left \in SUBSET hosts /\ hosts \in SUBSET Hosts
  BY DEF GetAllHosts
<1>5. /\ Base(b, instances')
      /\ \A h \in Hosts : Occupants(instances', h) = Occupants(instances, h) \ ended
  BY <1>1, <1>2, <1>4, GoneFit
<1>6. /\ \A h \in left : Occupants(instances, h) \subseteq ended
      /\ \A h \in hosts \ left : ~(Occupants(instances, h) \subseteq ended)
      /\ \A i \in ended : instances[i].host \in hosts
  BY DEF UsersOf, Occupants
<1> HIDE DEF hosts, ended, closed, delays, left
<1>7. d \in Registries
  BY <1>1, <1>3 DEF Registries
<1>8. /\ d.delays = delays /\ d.state = b.state /\ d.lock = b.lock /\ d.used = b.used
      /\ d.spare = b.spare /\ d.sole = b.sole /\ d.unmatched = b.unmatched
      /\ d.delayed = b.delayed /\ d.timers = b.timers /\ d.limit = b.limit
      /\ d.checked = b.checked
  BY <1>1 DEF Registries
<1> HIDE DEF d
<1>9. GetAllHosts(d) = GetAllHosts(b) /\ NewHosts(d) = NewHosts(b) /\ Listed(d) = Listed(b)
  BY <1>8 DEF GetAllHosts, NewHosts, Listed
<1>10. /\ \A k : Undelayed(b, k) => Undelayed(d, k)
       /\ \A k \in hosts : Undelayed(d, k)
       /\ \A k \in Hosts \ hosts : Undelayed(d, k) => Undelayed(b, k)
  BY <1>3, <1>8 DEF Undelayed
<1>11. HostsFit(d) /\ LockOfDedicated(d) /\ SpareIsFresh(d)
  BY <1>5, <1>8, <1>9, <1>10
     DEF Base, HostsFit, LockOfDedicated, SpareIsFresh
<1>12. \A i \in Instances : OccupationFits(d, instances'[i])
  BY <1>5, <1>8, <1>9 DEF Base, OccupationFits, LockFits
<1>13. Base(d, instances')
  BY <1>5, <1>7, <1>8, <1>11, <1>12 DEF Base
<1>14. \A h \in left : Undelayed(d, h) /\ Occupants(instances', h) = {}
  BY <1>4, <1>5, <1>6, <1>10
<1>15. /\ Base(b', instances')
       /\ \A k \in Hosts : k \in left \/ Idleness(d, instances', k) =>
                             Idleness(b', instances', k)
  BY <1>2, <1>4, <1>9, <1>13, <1>14, EndedKeeps
<1>16. ASSUME NEW k \in Hosts, k \notin left PROVE Idleness(d, instances', k)
  <2>1. CASE k \in hosts
    <3>1. Occupants(instances', k) # {}
      BY <1>5, <1>6, <1>16, <2>1
    <3> QED
      BY <3>1 DEF Idleness
  <2>2. CASE k \notin hosts
    <3>1. Occupants(instances', k) = Occupants(instances, k)
      BY <1>5, <1>6, <2>2 DEF Occupants
    <3>2. Idleness(b, instances, k)
      BY <1>1 DEF Sane, Settled
    <3> QED
      BY <1>8, <1>10, <2>2, <3>1, <3>2 DEF Idleness
  <2> QED
    BY <2>1, <2>2
<1>17. SpareIsAllowed(d)
  BY <1>1, <1>8, <1>9 DEF Sane, SpareIsAllowed
<1>18. SpareIsAllowed(b')
  BY <1>2, <1>4, <1>7, <1>17, EndedAllows
<1> QED
  BY <1>15, <1>16, <1>18 DEF AllocationInv, Sane, Settled

LEMMA LimitKeeps ==
    ASSUME AllocationInv, NEW n \in 1..MaxLimit, SetMaxRendererProcessCount(n)
    PROVE  AllocationInv'
<1> DEFINE g == [b EXCEPT !.limit = n]
<1>1. Sane(b, instances) /\ b \in Registries
  BY DEF AllocationInv, Sane, Settled, Base
<1>2. b' = (IF SpareOver(g) THEN CleanupSpare(g) ELSE g) /\ UNCHANGED instances
  BY DEF SetMaxRendererProcessCount
<1>3. g \in Registries
  BY <1>1 DEF Registries
<1>4. /\ g.limit = n /\ g.delays = b.delays /\ g.state = b.state /\ g.lock = b.lock
      /\ g.used = b.used /\ g.spare = b.spare /\ g.sole = b.sole
      /\ g.unmatched = b.unmatched /\ g.delayed = b.delayed /\ g.timers = b.timers
      /\ g.checked = b.checked
  BY <1>1 DEF Registries
<1> HIDE DEF g
<1>5. /\ GetAllHosts(g) = GetAllHosts(b) /\ NewHosts(g) = NewHosts(b)
      /\ Listed(g) = Listed(b) /\ \A k : Undelayed(g, k) <=> Undelayed(b, k)
  BY <1>4 DEF GetAllHosts, NewHosts, Listed, Undelayed
<1>6. HostsFit(g) /\ LockOfDedicated(g) /\ SpareIsFresh(g)
  BY <1>1, <1>4, <1>5 DEF Sane, Settled, Base, HostsFit, LockOfDedicated, SpareIsFresh
<1>7. \A i \in Instances : OccupationFits(g, instances[i])
  BY <1>1, <1>4, <1>5 DEF Sane, Settled, Base, OccupationFits, LockFits
<1>8. Settled(g, instances)
  BY <1>1, <1>3, <1>4, <1>5, <1>6, <1>7 DEF Sane, Settled, Base, Idleness
<1>9. CASE SpareOver(g)
  BY <1>2, <1>8, <1>9, SpareCleaned DEF AllocationInv
<1>10. CASE ~SpareOver(g)
  <2>1. Cardinality(GetAllHosts(g)) <= g.limit
    BY <1>4, <1>10, HostsFinite, AllocationAssumption DEF SpareOver
  <2>2. SpareIsAllowed(g)
    BY <1>1, <1>4, <2>1 DEF Sane, SpareIsAllowed
  <2> QED
    BY <1>2, <1>8, <1>10, <2>2 DEF AllocationInv, Sane
<1> QED
  BY <1>9, <1>10

LEMMA WarmupKeeps ==
    ASSUME AllocationInv, NEW home \in DefaultHomes, NEW pressure \in BOOLEAN,
           \/ WarmupSpareRenderProcessHost(home, pressure)
           \/ NotifyRecentlyUsed(home, pressure)
    PROVE  AllocationInv'
<1>1. Sane(b, instances) /\ NewHosts(b) # {} /\ home \in Homes /\ UNCHANGED instances
  BY AllocationAssumption
     DEF AllocationInv, WarmupSpareRenderProcessHost, NotifyRecentlyUsed
<1>2. \/ b' = WarmupSpare(b, home, pressure)
      \/ b' = PrepareForFutureRequests(b, home, pressure)
  BY DEF WarmupSpareRenderProcessHost, NotifyRecentlyUsed
<1>3. Sane(b', instances)
  BY <1>1, <1>2, WarmedUpKeeps, PreparedKeeps
<1> QED
  BY <1>1, <1>3 DEF AllocationInv

-----------------------------------------------------------------------------
LEMMA AllocationInvInit == AllocationInit => AllocationInv
<1> SUFFICES ASSUME AllocationInit PROVE AllocationInv
  OBVIOUS
<1>1. /\ b \in Registries /\ b.checked /\ b.spare = NoHost /\ b.used = {}
      /\ Listed(b) = {}
      /\ \A h \in Hosts : b.state[h] = "new" /\ b.lock[h] = "invalid" /\ Undelayed(b, h)
  BY AllocationAssumption
     DEF AllocationInit, Registries, Listed, Undelayed, Hosts, NoHost, Pairs
<1>2. instances \in [Instances -> Occupations] /\ \A i \in Instances : instances[i] = Gone
  BY DEF AllocationInit, Gone, Occupations
<1>3. GetAllHosts(b) = {} /\ NewHosts(b) = 1..NumHosts
  BY <1>1 DEF GetAllHosts, NewHosts, Hosts
<1>4. HostsFit(b)
  <2>1. 1 \in 1..(NumHosts + 1)
    BY AllocationAssumption
  <2> QED
    BY <1>1, <1>3, <2>1 DEF HostsFit
<1>5. LockOfDedicated(b) /\ SpareIsFresh(b) /\ SpareIsAllowed(b)
  BY <1>1, AllocationAssumption DEF LockOfDedicated, SpareIsFresh, SpareIsAllowed
<1>6. \A i \in Instances : OccupationFits(b, instances[i])
  BY <1>2 DEF OccupationFits, Gone
<1>7. \A h \in Hosts : Idleness(b, instances, h)
  BY <1>1 DEF Idleness
<1> QED
  BY <1>1, <1>2, <1>4, <1>5, <1>6, <1>7 DEF AllocationInv, Sane, Settled, Base

LEMMA AllocationInvNext == AllocationInv /\ [AllocationNext]_allocationVars => AllocationInv'
<1> SUFFICES ASSUME AllocationInv, [AllocationNext]_allocationVars PROVE AllocationInv'
  OBVIOUS
<1>1. ASSUME NEW i \in Instances, NEW s \in Sites, NEW policy \in Policies,
             NEW worker \in BOOLEAN, worker => ~Siteless(s),
             \/ ReuseByPolicy(i, s, policy, worker)
             \/ MatchUnmatchedWorker(i, s, policy, worker)
             \/ \E pressure \in BOOLEAN :
                  TakeSpareProcess(i, s, policy, worker, pressure)
             \/ \E allowed, shared \in BOOLEAN :
                  UseExistingOrNew(i, s, policy, worker, allowed, shared)
      PROVE  AllocationInv'
  BY <1>1, ReuseKeeps, MatchKeeps, TakeKeeps, ExistingKeeps
<1>2. ASSUME NEW i \in Instances, Commit(i) \/ Leave(i) \/ LeaveWithDelay(i)
      PROVE  AllocationInv'
  BY <1>2, CommitKeeps, LeaveKeeps, LeaveWithDelayKeeps
<1>3. ASSUME NEW p \in Pairs, CancelShutdownDelayOf(p) PROVE AllocationInv'
  BY <1>3, CancelKeeps
<1>4. ASSUME NEW h \in Hosts, ProcessOfHostDied(h) PROVE AllocationInv'
  BY <1>4, DiedKeeps
<1>5. ASSUME NEW home \in Homes, BrowserContextShutdown(home) PROVE AllocationInv'
  BY <1>5, ShutdownKeeps
<1>6. ASSUME NEW home \in DefaultHomes, NEW pressure \in BOOLEAN,
             \/ WarmupSpareRenderProcessHost(home, pressure)
             \/ NotifyRecentlyUsed(home, pressure)
      PROVE  AllocationInv'
  BY <1>6, WarmupKeeps
<1>7. ASSUME NEW n \in 1..MaxLimit, SetMaxRendererProcessCount(n) PROVE AllocationInv'
  BY <1>7, LimitKeeps
<1>8. CASE UNCHANGED allocationVars
  BY <1>8 DEF AllocationInv, allocationVars
<1> QED
  BY <1>1, <1>2, <1>3, <1>4, <1>5, <1>6, <1>7, <1>8 DEF AllocationNext

LEMMA AllocationInvariant == AllocationSpec => []AllocationInv
BY AllocationInvInit, AllocationInvNext, PTL DEF AllocationSpec

\* The registries and the occupations keep their types.
THEOREM AllocationTypeCorrect == AllocationSpec => []AllocationTypeOK
<1>1. AllocationInv => AllocationTypeOK
  BY DEF AllocationInv, Sane, Settled, Base, AllocationTypeOK
<1> QED
  BY <1>1, AllocationInvariant, PTL

\* No process with a page of one site is locked to another, and a site that
\* requires a process of its own has one, however its process was found: a URL
\* without a site is the only thing that a host may be given without counting
\* as used, and ExpectsSiteless is what keeps such a host from being locked.
THEOREM LocksAlwaysFit == AllocationSpec => []LocksFit
<1>1. AllocationInv => LocksFit
  BY DEF AllocationInv, Sane, Settled, Base, OccupationFits, LockFits, LocksFit
<1> QED
  BY <1>1, AllocationInvariant, PTL

\* The spare process is never the one too many, for any limit and any changes
\* of it.
THEOREM SpareFitsLimit == AllocationSpec => []SpareWithinLimit
<1>1. AllocationInv => SpareWithinLimit
  BY DEF AllocationInv, Sane, SpareIsAllowed, SpareWithinLimit
<1> QED
  BY <1>1, AllocationInvariant, PTL

\* No registry names a host that is gone, delays and closed contexts included.
THEOREM RegistriesAreCurrent == AllocationSpec => []TrackedExist
<1>1. AllocationInv => TrackedExist
  <2> SUFFICES ASSUME AllocationInv PROVE TrackedExist
    OBVIOUS
  <2>1. \A p \in Listed(b) : p[2] \in GetAllHosts(b)
    BY DEF AllocationInv, Sane, Settled, Base, HostsFit
  <2>2. \A i \in Instances : instances[i].phase # "idle" =>
          instances[i].host \in GetAllHosts(b)
    BY DEF AllocationInv, Sane, Settled, Base, OccupationFits
  <2>3. b.spare # NoHost => b.spare \in GetAllHosts(b)
    BY DEF AllocationInv, Sane, Settled, Base, SpareIsFresh
  <2> QED
    BY <2>1, <2>2, <2>3 DEF TrackedExist, Listed
<1> QED
  BY <1>1, AllocationInvariant, PTL

\* The CHECKs on the way to a process never fail.
THEOREM AllocationNeverFails == AllocationSpec => []AllocationChecksHold
<1>1. AllocationInv => AllocationChecksHold
  BY UsersOccupy
     DEF AllocationInv, Sane, Settled, Base, Idleness, AllocationChecksHold, GetAllHosts
<1> QED
  BY <1>1, AllocationInvariant, PTL

-----------------------------------------------------------------------------
(* The start and the end of a browser process (BrowserMain).                  *)

Process == [stage : Stages,
            ipf : {"never", "connected", "disconnected", "unbalanced"},
            switch : BOOLEAN, process_command_line : BOOLEAN, waiting : BOOLEAN,
            posted : BOOLEAN, locale : BOOLEAN, ended : BOOLEAN]

Manager == [initial : Profiles \union {NoProfile}, loaded : SUBSET Profiles,
            calls : [Profiles -> Nat], first : Profiles \union {NoProfile},
            feature : BOOLEAN, observing : BOOLEAN, todo : SUBSET Profiles,
            looping : BOOLEAN]

Typed == /\ proc \in [Processes -> Process]
         /\ manager \in [Processes -> Manager]

-----------------------------------------------------------------------------
(* The singleton.                                                             *)

\* Whoever works with profiles has the singleton, and keeps it to its end.
Browsing(p) ==
    \/ proc[p].stage \in {"owner", "profiles", "ready", "running"}
    \/ manager[p].loaded # {}
    \/ manager[p].looping

OwnersBrowse == \A p \in Processes : Browsing(p) => singleton = p

-----------------------------------------------------------------------------
(* IPF.                                                                       *)

\* Where the end may be reached the connection is what the switch asks for: a
\* process that skipped it for want of a resource bundle does not get there.
IpfFits(q) ==
    /\ q.ipf # "unbalanced"
    /\ q.ended => q.stage = "off" /\ q.ipf # "connected"
    /\ q.stage = "launched" => q.ipf = "never"
    /\ q.stage = "early" /\ q.locale => (q.switch <=> q.ipf = "connected")
    /\ q.stage \in {"threads", "owner", "profiles", "ready", "running", "leaving"} =>
         (q.switch <=> q.ipf = "connected")
    /\ q.stage = "torn down" => q.ipf # "connected"

IpfFitsAll == \A p \in Processes : IpfFits(proc[p])

-----------------------------------------------------------------------------
(* Profiles.                                                                  *)

Fresh(m) ==
    /\ \A f \in Profiles : m.calls[f] = 0
    /\ m.first = NoProfile /\ m.todo = {} /\ ~m.observing
    /\ m.initial # NoProfile => m.initial \in m.loaded

Due(m) == IF m.feature THEN m.loaded \ m.todo ELSE m.loaded \intersect {m.initial}

\* Every loaded profile was initialised once or is still to come in the loop,
\* and who is loaded from now on is observed.
Initialised(m) ==
    /\ \A f \in Profiles : m.calls[f] = (IF f \in Due(m) THEN 1 ELSE 0)
    /\ m.initial # NoProfile => m.first = m.initial /\ m.initial \in m.loaded
    /\ m.observing = m.feature
    /\ m.todo \subseteq m.loaded \ {m.initial}
    /\ ~m.feature => m.todo = {}

ManagerFits(stage, m) ==
    /\ stage \in {"off", "launched", "early", "threads", "owner"} => m = NoManager
    /\ m.looping => stage = "profiles"
    /\ stage = "profiles" /\ ~m.looping => Fresh(m)
    /\ m.looping \/ stage \in {"ready", "running"} => Initialised(m)

ManagersFit == \A p \in Processes : ManagerFits(proc[p].stage, manager[p])

LEMMA NoManagerType == NoManager \in Manager
BY DEF NoManager, Manager

\* One call more, on the record of a manager.
LEMMA CallEffect ==
    ASSUME NEW m \in Manager, NEW f \in Profiles
    PROVE  LET c == CallPostProfileInit(m, f)
           IN  /\ c \in Manager
               /\ c.calls = [m.calls EXCEPT ![f] = m.calls[f] + 1]
               /\ c.first = IF m.first = NoProfile THEN f ELSE m.first
               /\ c.initial = m.initial /\ c.loaded = m.loaded
               /\ c.feature = m.feature /\ c.observing = m.observing
               /\ c.todo = m.todo /\ c.looping = m.looping
<1> DEFINE calls == [m.calls EXCEPT ![f] = m.calls[f] + 1]
           first == IF m.first = NoProfile THEN f ELSE m.first
           c == [m EXCEPT !.calls = calls, !.first = first]
<1>1. CallPostProfileInit(m, f) = c
  BY DEF CallPostProfileInit, Manager
<1>2. calls \in [Profiles -> Nat] /\ first \in Profiles \union {NoProfile}
  BY DEF Manager
<1> HIDE DEF calls, first
<1>3. /\ c \in Manager /\ c.calls = calls /\ c.first = first
      /\ c.initial = m.initial /\ c.loaded = m.loaded
      /\ c.feature = m.feature /\ c.observing = m.observing
      /\ c.todo = m.todo /\ c.looping = m.looping
  BY <1>2 DEF Manager
<1> HIDE DEF c
<1> QED
  BY <1>1, <1>3 DEF calls, first

\* A turn of the loop.
LEMMA LoopKeeps ==
    ASSUME NoProfile \notin Profiles,
           NEW m \in Manager, Initialised(m), NEW f \in m.todo
    PROVE  LET n == [CallPostProfileInit(m, f) EXCEPT !.todo = @ \ {f}]
           IN  n \in Manager /\ Initialised(n) /\ n.looping = m.looping
                 /\ n.loaded = m.loaded
<1> DEFINE c == CallPostProfileInit(m, f)
           n == [c EXCEPT !.todo = @ \ {f}]
<1>1. f \in Profiles
  BY DEF Manager
<1>2. /\ c \in Manager
      /\ c.calls = [m.calls EXCEPT ![f] = m.calls[f] + 1]
      /\ c.first = IF m.first = NoProfile THEN f ELSE m.first
      /\ c.initial = m.initial /\ c.loaded = m.loaded
      /\ c.feature = m.feature /\ c.observing = m.observing
      /\ c.todo = m.todo /\ c.looping = m.looping
  BY <1>1, CallEffect
<1> HIDE DEF c
<1>3. /\ n \in Manager
      /\ n.calls = [m.calls EXCEPT ![f] = m.calls[f] + 1]
      /\ n.first = IF m.first = NoProfile THEN f ELSE m.first
      /\ n.initial = m.initial /\ n.loaded = m.loaded
      /\ n.feature = m.feature /\ n.observing = m.observing
      /\ n.todo = m.todo \ {f} /\ n.looping = m.looping
  BY <1>2 DEF Manager
<1> HIDE DEF n
<1>4. m.feature /\ f \in m.loaded /\ f \notin Due(m)
  BY DEF Initialised, Due
<1>5. Due(n) = Due(m) \union {f}
  BY <1>3, <1>4 DEF Due
<1>6. \A g \in Profiles : n.calls[g] = IF g = f THEN m.calls[f] + 1 ELSE m.calls[g]
  BY <1>3, <1>1 DEF Manager
<1>7. \A g \in Profiles : n.calls[g] = (IF g \in Due(n) THEN 1 ELSE 0)
  BY <1>1, <1>4, <1>5, <1>6 DEF Initialised
<1>8. Initialised(n)
  BY <1>3, <1>7 DEF Initialised, Manager
<1> QED
  BY <1>3, <1>8 DEF n, c

\* A profile that is loaded during the loop or after it.
LEMMA LoadKeeps ==
    ASSUME NoProfile \notin Profiles,
           NEW m \in Manager, Initialised(m), NEW f \in Profiles, f \notin m.loaded
    PROVE  LET l == [m EXCEPT !.loaded = @ \union {f}]
               n == IF l.observing THEN CallPostProfileInit(l, f) ELSE l
           IN  n \in Manager /\ Initialised(n) /\ n.looping = m.looping
<1> DEFINE l == [m EXCEPT !.loaded = @ \union {f}]
           n == IF l.observing THEN CallPostProfileInit(l, f) ELSE l
<1>1. /\ l \in Manager
      /\ l.loaded = m.loaded \union {f} /\ l.calls = m.calls /\ l.first = m.first
      /\ l.initial = m.initial /\ l.feature = m.feature
      /\ l.observing = m.observing /\ l.todo = m.todo /\ l.looping = m.looping
  BY DEF Manager
<1> HIDE DEF l
<1>2. f # m.initial /\ f \notin m.todo
  BY DEF Initialised
<1>3. CASE m.feature
  <2>1. n = CallPostProfileInit(l, f)
    BY <1>1, <1>3 DEF Initialised
  <2> HIDE DEF n
  <2>2. /\ n \in Manager
        /\ n.calls = [m.calls EXCEPT ![f] = m.calls[f] + 1]
        /\ n.first = IF m.first = NoProfile THEN f ELSE m.first
        /\ n.initial = m.initial /\ n.loaded = m.loaded \union {f}
        /\ n.feature = m.feature /\ n.observing = m.observing
        /\ n.todo = m.todo /\ n.looping = m.looping
    BY <2>1, <1>1, CallEffect
  <2>3. Due(n) = Due(m) \union {f} /\ f \notin Due(m)
    BY <2>2, <1>2, <1>3 DEF Due
  <2>4. \A g \in Profiles : n.calls[g] = IF g = f THEN m.calls[f] + 1 ELSE m.calls[g]
    BY <2>2 DEF Manager
  <2>5. \A g \in Profiles : n.calls[g] = (IF g \in Due(n) THEN 1 ELSE 0)
    BY <2>3, <2>4 DEF Initialised
  <2>6. Initialised(n)
    BY <2>2, <2>5 DEF Initialised, Manager
  <2> QED
    BY <2>2, <2>6 DEF l, n
<1>4. CASE ~m.feature
  <2>1. n = l
    BY <1>1, <1>4 DEF Initialised
  <2>2. Due(l) = Due(m)
    BY <1>1, <1>2, <1>4 DEF Due
  <2>3. Initialised(l)
    BY <1>1, <2>2 DEF Initialised
  <2> QED
    BY <1>1, <2>1, <2>3 DEF l, n
<1> QED
  BY <1>3, <1>4
\* The constructor of ProfileInitManager.  Its loop is over the profiles that are
\* loaded by then, the one that the initial profile created included.
LEMMA BeginKeeps ==
    ASSUME NoProfile \notin Profiles,
           NEW m \in Manager, Fresh(m), ~m.looping, NEW feature \in BOOLEAN,
           NEW created \in SUBSET (Profiles \ m.loaded),
           created # {} => m.initial # NoProfile
    PROVE  LET i == IF m.initial = NoProfile THEN m
                    ELSE CallPostProfileInit(m, m.initial)
               c == [i EXCEPT !.loaded = i.loaded \union created, !.feature = feature]
               n == IF feature THEN ObservesFirst(c) ELSE [c EXCEPT !.looping = TRUE]
           IN  n \in Manager /\ Initialised(n) /\ n.looping
<1> DEFINE i == IF m.initial = NoProfile THEN m ELSE CallPostProfileInit(m, m.initial)
           c == [i EXCEPT !.loaded = i.loaded \union created, !.feature = feature]
           n == IF feature THEN ObservesFirst(c) ELSE [c EXCEPT !.looping = TRUE]
<1>1. /\ i \in Manager
      /\ \A f \in Profiles : i.calls[f] = (IF f = m.initial THEN 1 ELSE 0)
      /\ i.first = m.initial
      /\ i.initial = m.initial /\ i.loaded = m.loaded
      /\ i.todo = {} /\ ~i.observing
  <2>1. CASE m.initial = NoProfile
    BY <2>1 DEF Fresh
  <2>2. CASE m.initial # NoProfile
    <3>1. m.initial \in Profiles
      BY <2>2 DEF Manager
    <3>2. /\ i \in Manager
          /\ i.calls = [m.calls EXCEPT ![m.initial] = m.calls[m.initial] + 1]
          /\ i.first = IF m.first = NoProfile THEN m.initial ELSE m.first
          /\ i.initial = m.initial /\ i.loaded = m.loaded
          /\ i.observing = m.observing /\ i.todo = m.todo
      BY <2>2, <3>1, CallEffect
    <3> HIDE DEF i
    <3> QED
      BY <3>1, <3>2 DEF Fresh, Manager
  <2> QED
    BY <2>1, <2>2
<1> HIDE DEF i
<1>2. /\ c \in Manager
      /\ c.loaded = m.loaded \union created /\ c.feature = feature
      /\ c.calls = i.calls /\ c.first = m.initial /\ c.initial = m.initial
      /\ c.todo = {} /\ ~c.observing
  BY <1>1 DEF Manager
<1> HIDE DEF c
<1>3. /\ n \in Manager /\ n.looping
      /\ n.loaded = m.loaded \union created /\ n.feature = feature
      /\ n.calls = i.calls /\ n.first = m.initial /\ n.initial = m.initial
      /\ n.todo = IF feature THEN n.loaded \ {m.initial} ELSE {}
      /\ n.observing = feature
  BY <1>2 DEF Manager, ObservesFirst
<1> HIDE DEF n
<1>4. m.initial # NoProfile => m.initial \in m.loaded
  BY DEF Fresh
<1>5. Due(n) = n.loaded \intersect {m.initial}
  BY <1>3 DEF Due
<1>6. \A f \in Profiles : n.calls[f] = (IF f \in Due(n) THEN 1 ELSE 0)
  BY <1>1, <1>3, <1>4, <1>5
<1>7. Initialised(n)
  BY <1>3, <1>4, <1>6 DEF Initialised
<1> QED
  BY <1>3, <1>7 DEF i, c, n
\* Two processes cannot both be past the singleton: it is given to one process
\* at a time, and freed only by its owner, with whom the profiles go.
BrowserInv == Typed /\ OwnersBrowse /\ IpfFitsAll /\ ManagersFit

LEMMA BrowserInit == MainInit => BrowserInv
<1> SUFFICES ASSUME MainInit PROVE BrowserInv
  OBVIOUS
<1>1. NotRunning \in Process
  BY DEF NotRunning, Process, Stages
<1>2. Typed
  BY <1>1, NoManagerType DEF MainInit, Typed
<1>3. OwnersBrowse /\ IpfFitsAll /\ ManagersFit
  BY DEF MainInit, OwnersBrowse, Browsing, IpfFitsAll, IpfFits, ManagersFit, ManagerFits,
         NotRunning, NoManager
<1> QED
  BY <1>2, <1>3 DEF BrowserInv

MayBrowse(n, m) ==
    n.stage \in {"owner", "profiles", "ready", "running"} \/ m.loaded # {} \/ m.looping

\* A step of one process, to the parts n and the manager m, that leaves the
\* singleton alone or takes or frees it.
LEMMA OneMoves ==
    ASSUME BrowserInv, NEW p \in Processes, NEW n \in Process, NEW m \in Manager,
           proc' = [proc EXCEPT ![p] = n], manager' = [manager EXCEPT ![p] = m],
           singleton' = singleton \/ singleton \in {Nobody, p},
           Nobody \notin Processes,
           MayBrowse(n, m) => singleton' = p,
           IpfFits(n), ManagerFits(n.stage, m)
    PROVE  BrowserInv'
<1>1. Typed'
  BY DEF BrowserInv, Typed
<1>2. /\ proc'[p] = n /\ manager'[p] = m
      /\ \A q \in Processes \ {p} : proc'[q] = proc[q] /\ manager'[q] = manager[q]
  BY DEF BrowserInv, Typed
<1>3. OwnersBrowse'
  <2> SUFFICES ASSUME NEW q \in Processes, Browsing(q)' PROVE singleton' = q
    BY DEF OwnersBrowse
  <2>1. CASE q = p
    BY <1>2, <2>1 DEF Browsing, MayBrowse
  <2>2. CASE q # p
    <3>1. Browsing(q)
      BY <1>2, <2>2 DEF Browsing
    <3>2. singleton = q
      BY <3>1 DEF BrowserInv, OwnersBrowse
    <3> QED
      BY <2>2, <3>2
  <2> QED
    BY <2>1, <2>2
<1>4. IpfFitsAll'
  <2> SUFFICES ASSUME NEW q \in Processes PROVE IpfFits(proc'[q])
    BY DEF IpfFitsAll
  <2> QED
    BY <1>2 DEF BrowserInv, IpfFitsAll
<1>5. ManagersFit'
  <2> SUFFICES ASSUME NEW q \in Processes PROVE ManagerFits(proc'[q].stage, manager'[q])
    BY DEF ManagersFit
  <2> QED
    BY <1>2 DEF BrowserInv, ManagersFit
<1> QED
  BY <1>1, <1>3, <1>4, <1>5 DEF BrowserInv

\* What is known of one process.
LEMMA OneProcess ==
    ASSUME BrowserInv, NEW p \in Processes
    PROVE  /\ proc[p] \in Process /\ manager[p] \in Manager
           /\ IpfFits(proc[p]) /\ ManagerFits(proc[p].stage, manager[p])
           /\ MayBrowse(proc[p], manager[p]) => singleton = p
           /\ manager = [manager EXCEPT ![p] = manager[p]]
           /\ proc = [proc EXCEPT ![p] = proc[p]]
BY DEF BrowserInv, Typed, OwnersBrowse, Browsing, MayBrowse, IpfFitsAll, ManagersFit

LEMMA BrowserNext == BrowserInv /\ [MainNext]_mainVars => BrowserInv'
<1> SUFFICES ASSUME BrowserInv, [MainNext]_mainVars PROVE BrowserInv'
  OBVIOUS
<1> USE MainAssumption
<1>1. ASSUME NEW p \in Processes, NEW switch \in BOOLEAN, LaunchBrowser(p, switch)
      PROVE  BrowserInv'
  <2> DEFINE n == [NotRunning EXCEPT !.stage = "launched", !.switch = switch]
  <2>1. /\ proc[p] \in Process /\ manager[p] \in Manager
        /\ IpfFits(proc[p]) /\ ManagerFits(proc[p].stage, manager[p])
        /\ MayBrowse(proc[p], manager[p]) => singleton = p
    BY OneProcess
  <2>2. proc' = [proc EXCEPT ![p] = n] /\ UNCHANGED manager
    BY <1>1, <2>1 DEF LaunchBrowser, NotRunning, BrowserInv, Typed
  <2>3. n \in Process
    BY <2>1, <1>1 DEF Process, Stages, NotRunning
  <2>4. IpfFits(n) /\ ManagerFits(n.stage, manager[p])
    BY <2>1, <1>1 DEF LaunchBrowser, NotRunning, Process, IpfFits, ManagerFits, NoManager
  <2>5. MayBrowse(n, manager[p]) => singleton' = p
    BY <2>1, <1>1 DEF LaunchBrowser, NotRunning, Process, MayBrowse, ManagerFits, NoManager
  <2>6. singleton' = singleton \/ singleton = Nobody
    BY <1>1 DEF LaunchBrowser
  <2> HIDE DEF n
  <2> QED
    BY <2>1, <2>2, <2>3, <2>4, <2>5, <2>6, OneProcess, OneMoves
<1>2. ASSUME NEW p \in Processes, NEW locale \in BOOLEAN, PreEarlyInitialization(p, locale)
      PROVE  BrowserInv'
  <2> DEFINE n == [proc[p] EXCEPT !.stage = "early", !.locale = locale,
                    !.ipf = IF proc[p].switch /\ locale THEN "connected" ELSE @]
  <2>1. /\ proc[p] \in Process /\ manager[p] \in Manager
        /\ IpfFits(proc[p]) /\ ManagerFits(proc[p].stage, manager[p])
        /\ MayBrowse(proc[p], manager[p]) => singleton = p
    BY OneProcess
  <2>2. proc' = [proc EXCEPT ![p] = n] /\ UNCHANGED manager
    BY <1>2, <2>1 DEF PreEarlyInitialization, BrowserInv, Typed
  <2>3. n \in Process
    BY <2>1, <1>2 DEF Process, Stages
  <2>4. IpfFits(n) /\ ManagerFits(n.stage, manager[p])
    BY <2>1, <1>2 DEF PreEarlyInitialization, Process, IpfFits, ManagerFits, NoManager
  <2>5. MayBrowse(n, manager[p]) => singleton' = p
    BY <2>1, <1>2 DEF PreEarlyInitialization, Process, MayBrowse, ManagerFits, NoManager
  <2>6. singleton' = singleton \/ singleton = Nobody
    BY <1>2 DEF PreEarlyInitialization
  <2> HIDE DEF n
  <2> QED
    BY <2>1, <2>2, <2>3, <2>4, <2>5, <2>6, OneProcess, OneMoves
<1>3. ASSUME NEW p \in Processes, NEW stale \in BOOLEAN, PreEarlyInitializationFails(p, stale)
      PROVE  BrowserInv'
  <2> DEFINE n == [proc[p] EXCEPT !.stage = "off",
                    !.ipf = IF proc[p].switch /\ ~stale THEN "connected" ELSE @]
  <2>1. /\ proc[p] \in Process /\ manager[p] \in Manager
        /\ IpfFits(proc[p]) /\ ManagerFits(proc[p].stage, manager[p])
        /\ MayBrowse(proc[p], manager[p]) => singleton = p
    BY OneProcess
  <2>2. proc' = [proc EXCEPT ![p] = n] /\ UNCHANGED manager
    BY <1>3, <2>1 DEF PreEarlyInitializationFails, BrowserInv, Typed
  <2>3. n \in Process
    BY <2>1, <1>3 DEF Process, Stages
  <2>4. IpfFits(n) /\ ManagerFits(n.stage, manager[p])
    BY <2>1, <1>3 DEF PreEarlyInitializationFails, Process, IpfFits, ManagerFits, NoManager
  <2>5. MayBrowse(n, manager[p]) => singleton' = p
    BY <2>1, <1>3 DEF PreEarlyInitializationFails, Process, MayBrowse, ManagerFits, NoManager
  <2>6. singleton' = singleton \/ singleton = Nobody
    BY <1>3 DEF PreEarlyInitializationFails
  <2> HIDE DEF n
  <2> QED
    BY <2>1, <2>2, <2>3, <2>4, <2>5, <2>6, OneProcess, OneMoves
<1>4. ASSUME NEW p \in Processes, CreateThreads(p)
      PROVE  BrowserInv'
  <2> DEFINE n == [proc[p] EXCEPT !.stage = "threads"]
  <2>1. /\ proc[p] \in Process /\ manager[p] \in Manager
        /\ IpfFits(proc[p]) /\ ManagerFits(proc[p].stage, manager[p])
        /\ MayBrowse(proc[p], manager[p]) => singleton = p
    BY OneProcess
  <2>2. proc' = [proc EXCEPT ![p] = n] /\ UNCHANGED manager
    BY <1>4, <2>1 DEF CreateThreads, Go, BrowserInv, Typed
  <2>3. n \in Process
    BY <2>1, <1>4 DEF Process, Stages
  <2>4. IpfFits(n) /\ ManagerFits(n.stage, manager[p])
    BY <2>1, <1>4 DEF CreateThreads, Go, Process, IpfFits, ManagerFits, NoManager
  <2>5. MayBrowse(n, manager[p]) => singleton' = p
    BY <2>1, <1>4 DEF CreateThreads, Go, Process, MayBrowse, ManagerFits, NoManager
  <2>6. singleton' = singleton \/ singleton = Nobody
    BY <1>4 DEF CreateThreads
  <2> HIDE DEF n
  <2> QED
    BY <2>1, <2>2, <2>3, <2>4, <2>5, <2>6, OneProcess, OneMoves
<1>5. ASSUME NEW p \in Processes, ReturnsBeforeSingleton(p)
      PROVE  BrowserInv'
  <2> DEFINE n == [proc[p] EXCEPT !.stage = "leaving"]
  <2>1. /\ proc[p] \in Process /\ manager[p] \in Manager
        /\ IpfFits(proc[p]) /\ ManagerFits(proc[p].stage, manager[p])
        /\ MayBrowse(proc[p], manager[p]) => singleton = p
    BY OneProcess
  <2>2. proc' = [proc EXCEPT ![p] = n] /\ UNCHANGED manager
    BY <1>5, <2>1 DEF ReturnsBeforeSingleton, Go, BrowserInv, Typed
  <2>3. n \in Process
    BY <2>1, <1>5 DEF Process, Stages
  <2>4. IpfFits(n) /\ ManagerFits(n.stage, manager[p])
    BY <2>1, <1>5 DEF ReturnsBeforeSingleton, Go, Process, IpfFits, ManagerFits, NoManager
  <2>5. MayBrowse(n, manager[p]) => singleton' = p
    BY <2>1, <1>5 DEF ReturnsBeforeSingleton, Go, Process, MayBrowse, ManagerFits, NoManager
  <2>6. singleton' = singleton \/ singleton = Nobody
    BY <1>5 DEF ReturnsBeforeSingleton
  <2> HIDE DEF n
  <2> QED
    BY <2>1, <2>2, <2>3, <2>4, <2>5, <2>6, OneProcess, OneMoves
<1>6. ASSUME NEW p \in Processes, AcquireSingleton(p)
      PROVE  BrowserInv'
  <2> DEFINE n == [proc[p] EXCEPT !.stage = "owner"]
  <2>1. /\ proc[p] \in Process /\ manager[p] \in Manager
        /\ IpfFits(proc[p]) /\ ManagerFits(proc[p].stage, manager[p])
        /\ MayBrowse(proc[p], manager[p]) => singleton = p
    BY OneProcess
  <2>2. proc' = [proc EXCEPT ![p] = n] /\ UNCHANGED manager
    BY <1>6, <2>1 DEF AcquireSingleton, Go, BrowserInv, Typed
  <2>3. n \in Process
    BY <2>1, <1>6 DEF Process, Stages
  <2>4. IpfFits(n) /\ ManagerFits(n.stage, manager[p])
    BY <2>1, <1>6 DEF AcquireSingleton, Go, Process, IpfFits, ManagerFits, NoManager
  <2>5. MayBrowse(n, manager[p]) => singleton' = p
    BY <2>1, <1>6 DEF AcquireSingleton, Go, Process, MayBrowse, ManagerFits, NoManager
  <2>6. singleton' = singleton \/ singleton = Nobody
    BY <1>6 DEF AcquireSingleton
  <2> HIDE DEF n
  <2> QED
    BY <2>1, <2>2, <2>3, <2>4, <2>5, <2>6, OneProcess, OneMoves
<1>7. ASSUME NEW p \in Processes, SingletonInUse(p)
      PROVE  BrowserInv'
  <2> DEFINE n == [proc[p] EXCEPT !.stage = "leaving"]
  <2>1. /\ proc[p] \in Process /\ manager[p] \in Manager
        /\ IpfFits(proc[p]) /\ ManagerFits(proc[p].stage, manager[p])
        /\ MayBrowse(proc[p], manager[p]) => singleton = p
    BY OneProcess
  <2>2. proc' = [proc EXCEPT ![p] = n] /\ UNCHANGED manager
    BY <1>7, <2>1 DEF SingletonInUse, Go, AfterLockError, BrowserInv, Typed
  <2>3. n \in Process
    BY <2>1, <1>7 DEF Process, Stages
  <2>4. IpfFits(n) /\ ManagerFits(n.stage, manager[p])
    BY <2>1, <1>7 DEF SingletonInUse, Go, AfterLockError, Process, IpfFits, ManagerFits, NoManager
  <2>5. MayBrowse(n, manager[p]) => singleton' = p
    BY <2>1, <1>7 DEF SingletonInUse, Go, AfterLockError, Process, MayBrowse, ManagerFits, NoManager
  <2>6. singleton' = singleton \/ singleton = Nobody
    BY <1>7 DEF SingletonInUse
  <2> HIDE DEF n
  <2> QED
    BY <2>1, <2>2, <2>3, <2>4, <2>5, <2>6, OneProcess, OneMoves
<1>8. ASSUME NEW p \in Processes, ReturnsBeforeProfile(p)
      PROVE  BrowserInv'
  <2> DEFINE n == [proc[p] EXCEPT !.stage = "leaving"]
  <2>1. /\ proc[p] \in Process /\ manager[p] \in Manager
        /\ IpfFits(proc[p]) /\ ManagerFits(proc[p].stage, manager[p])
        /\ MayBrowse(proc[p], manager[p]) => singleton = p
    BY OneProcess
  <2>2. proc' = [proc EXCEPT ![p] = n] /\ UNCHANGED manager
    BY <1>8, <2>1 DEF ReturnsBeforeProfile, Go, BrowserInv, Typed
  <2>3. n \in Process
    BY <2>1, <1>8 DEF Process, Stages
  <2>4. IpfFits(n) /\ ManagerFits(n.stage, manager[p])
    BY <2>1, <1>8 DEF ReturnsBeforeProfile, Go, Process, IpfFits, ManagerFits, NoManager
  <2>5. MayBrowse(n, manager[p]) => singleton' = p
    BY <2>1, <1>8 DEF ReturnsBeforeProfile, Go, Process, MayBrowse, ManagerFits, NoManager
  <2>6. singleton' = singleton \/ singleton = Nobody
    BY <1>8 DEF ReturnsBeforeProfile
  <2> HIDE DEF n
  <2> QED
    BY <2>1, <2>2, <2>3, <2>4, <2>5, <2>6, OneProcess, OneMoves
<1>9. ASSUME NEW p \in Processes, DeferToOther(p)
      PROVE  BrowserInv'
  <2> DEFINE n == [proc[p] EXCEPT !.process_command_line = FALSE]
  <2>1. /\ proc[p] \in Process /\ manager[p] \in Manager
        /\ IpfFits(proc[p]) /\ ManagerFits(proc[p].stage, manager[p])
        /\ MayBrowse(proc[p], manager[p]) => singleton = p
    BY OneProcess
  <2>2. proc' = [proc EXCEPT ![p] = n] /\ UNCHANGED manager
    BY <1>9, <2>1 DEF DeferToOther, BrowserInv, Typed
  <2>3. n \in Process
    BY <2>1, <1>9 DEF Process, Stages
  <2>4. IpfFits(n) /\ ManagerFits(n.stage, manager[p])
    BY <2>1, <1>9 DEF DeferToOther, Process, IpfFits, ManagerFits, NoManager
  <2>5. MayBrowse(n, manager[p]) => singleton' = p
    BY <2>1, <1>9 DEF DeferToOther, Process, MayBrowse, ManagerFits, NoManager
  <2>6. singleton' = singleton \/ singleton = Nobody
    BY <1>9 DEF DeferToOther
  <2> HIDE DEF n
  <2> QED
    BY <2>1, <2>2, <2>3, <2>4, <2>5, <2>6, OneProcess, OneMoves
<1>10. ASSUME NEW p \in Processes, QuitsDuringFirstRun(p)
      PROVE  BrowserInv'
  <2> DEFINE n == [proc[p] EXCEPT !.stage = "leaving"]
  <2>1. /\ proc[p] \in Process /\ manager[p] \in Manager
        /\ IpfFits(proc[p]) /\ ManagerFits(proc[p].stage, manager[p])
        /\ MayBrowse(proc[p], manager[p]) => singleton = p
    BY OneProcess
  <2>2. proc' = [proc EXCEPT ![p] = n] /\ UNCHANGED manager
    BY <1>10, <2>1 DEF QuitsDuringFirstRun, Go, BrowserInv, Typed
  <2>3. n \in Process
    BY <2>1, <1>10 DEF Process, Stages
  <2>4. IpfFits(n) /\ ManagerFits(n.stage, manager[p])
    BY <2>1, <1>10 DEF QuitsDuringFirstRun, Go, Process, IpfFits, ManagerFits, NoManager
  <2>5. MayBrowse(n, manager[p]) => singleton' = p
    BY <2>1, <1>10 DEF QuitsDuringFirstRun, Go, Process, MayBrowse, ManagerFits, NoManager
  <2>6. singleton' = singleton \/ singleton = Nobody
    BY <1>10 DEF QuitsDuringFirstRun
  <2> HIDE DEF n
  <2> QED
    BY <2>1, <2>2, <2>3, <2>4, <2>5, <2>6, OneProcess, OneMoves
<1>11. ASSUME NEW p \in Processes, NEW started \in BOOLEAN, StartBrowser(p, started)
      PROVE  BrowserInv'
  <2> DEFINE n == [proc[p] EXCEPT !.stage = IF started THEN "running" ELSE "leaving",
                    !.posted = @ \/ proc[p].waiting, !.waiting = FALSE]
  <2>1. /\ proc[p] \in Process /\ manager[p] \in Manager
        /\ IpfFits(proc[p]) /\ ManagerFits(proc[p].stage, manager[p])
        /\ MayBrowse(proc[p], manager[p]) => singleton = p
    BY OneProcess
  <2>2. proc' = [proc EXCEPT ![p] = n] /\ UNCHANGED manager
    BY <1>11, <2>1 DEF StartBrowser, BrowserInv, Typed
  <2>3. n \in Process
    BY <2>1, <1>11 DEF Process, Stages
  <2>4. IpfFits(n) /\ ManagerFits(n.stage, manager[p])
    BY <2>1, <1>11 DEF StartBrowser, Process, IpfFits, ManagerFits, NoManager
  <2>5. MayBrowse(n, manager[p]) => singleton' = p
    BY <2>1, <1>11 DEF StartBrowser, Process, MayBrowse, ManagerFits, NoManager
  <2>6. singleton' = singleton \/ singleton = Nobody
    BY <1>11 DEF StartBrowser
  <2> HIDE DEF n
  <2> QED
    BY <2>1, <2>2, <2>3, <2>4, <2>5, <2>6, OneProcess, OneMoves
<1>12. ASSUME NEW p \in Processes, HandleRequest(p)
      PROVE  BrowserInv'
  <2> DEFINE n == [proc[p] EXCEPT !.posted = FALSE]
  <2>1. /\ proc[p] \in Process /\ manager[p] \in Manager
        /\ IpfFits(proc[p]) /\ ManagerFits(proc[p].stage, manager[p])
        /\ MayBrowse(proc[p], manager[p]) => singleton = p
    BY OneProcess
  <2>2. proc' = [proc EXCEPT ![p] = n] /\ UNCHANGED manager
    BY <1>12, <2>1 DEF HandleRequest, BrowserInv, Typed
  <2>3. n \in Process
    BY <2>1, <1>12 DEF Process, Stages
  <2>4. IpfFits(n) /\ ManagerFits(n.stage, manager[p])
    BY <2>1, <1>12 DEF HandleRequest, Process, IpfFits, ManagerFits, NoManager
  <2>5. MayBrowse(n, manager[p]) => singleton' = p
    BY <2>1, <1>12 DEF HandleRequest, Process, MayBrowse, ManagerFits, NoManager
  <2>6. singleton' = singleton \/ singleton = Nobody
    BY <1>12 DEF HandleRequest
  <2> HIDE DEF n
  <2> QED
    BY <2>1, <2>2, <2>3, <2>4, <2>5, <2>6, OneProcess, OneMoves
<1>13. ASSUME NEW p \in Processes, Quit(p)
      PROVE  BrowserInv'
  <2> DEFINE n == [proc[p] EXCEPT !.stage = "leaving"]
  <2>1. /\ proc[p] \in Process /\ manager[p] \in Manager
        /\ IpfFits(proc[p]) /\ ManagerFits(proc[p].stage, manager[p])
        /\ MayBrowse(proc[p], manager[p]) => singleton = p
    BY OneProcess
  <2>2. proc' = [proc EXCEPT ![p] = n] /\ UNCHANGED manager
    BY <1>13, <2>1 DEF Quit, Go, BrowserInv, Typed
  <2>3. n \in Process
    BY <2>1, <1>13 DEF Process, Stages
  <2>4. IpfFits(n) /\ ManagerFits(n.stage, manager[p])
    BY <2>1, <1>13 DEF Quit, Go, Process, IpfFits, ManagerFits, NoManager
  <2>5. MayBrowse(n, manager[p]) => singleton' = p
    BY <2>1, <1>13 DEF Quit, Go, Process, MayBrowse, ManagerFits, NoManager
  <2>6. singleton' = singleton \/ singleton = Nobody
    BY <1>13 DEF Quit
  <2> HIDE DEF n
  <2> QED
    BY <2>1, <2>2, <2>3, <2>4, <2>5, <2>6, OneProcess, OneMoves
<1>14. ASSUME NEW p \in Processes, PostMainMessageLoopRun(p)
      PROVE  BrowserInv'
  <2> DEFINE n == [proc[p] EXCEPT !.stage = "torn down", !.posted = FALSE, !.waiting = FALSE,
                    !.ipf = IF ~proc[p].switch THEN @
                            ELSE IF @ = "connected" THEN "disconnected"
                            ELSE "unbalanced"]
  <2>1. /\ proc[p] \in Process /\ manager[p] \in Manager
        /\ IpfFits(proc[p]) /\ ManagerFits(proc[p].stage, manager[p])
        /\ MayBrowse(proc[p], manager[p]) => singleton = p
    BY OneProcess
  <2>2. proc' = [proc EXCEPT ![p] = n] /\ UNCHANGED manager
    BY <1>14, <2>1 DEF PostMainMessageLoopRun, Disconnects, BrowserInv, Typed
  <2>3. n \in Process
    BY <2>1, <1>14 DEF Process, Stages
  <2>4. IpfFits(n) /\ ManagerFits(n.stage, manager[p])
    BY <2>1, <1>14 DEF PostMainMessageLoopRun, Disconnects, Process, IpfFits, ManagerFits, NoManager
  <2>5. MayBrowse(n, manager[p]) => singleton' = p
    BY <2>1, <1>14 DEF PostMainMessageLoopRun, Disconnects, Process, MayBrowse, ManagerFits, NoManager
  <2>6. singleton' = singleton \/ singleton = Nobody
    BY <1>14 DEF PostMainMessageLoopRun
  <2> HIDE DEF n
  <2> QED
    BY <2>1, <2>2, <2>3, <2>4, <2>5, <2>6, OneProcess, OneMoves
<1>15. ASSUME NEW p \in Processes, PreCreateThreadsFails(p)
      PROVE  BrowserInv'
  <2> DEFINE n == [proc[p] EXCEPT !.stage = "off", !.waiting = FALSE, !.posted = FALSE]
  <2>1. /\ proc[p] \in Process /\ IpfFits(proc[p])
    BY OneProcess
  <2>2. /\ proc' = [proc EXCEPT ![p] = n] /\ manager' = [manager EXCEPT ![p] = NoManager]
        /\ singleton' = singleton \/ singleton = p
    BY <1>15, <2>1 DEF PreCreateThreadsFails, End, BrowserInv, Typed
  <2>3. n \in Process
    BY <2>1 DEF Process, Stages
  <2>4. IpfFits(n) /\ ManagerFits(n.stage, NoManager)
    BY <2>1, <1>15 DEF PreCreateThreadsFails, End, Process, IpfFits, ManagerFits, NoManager
  <2>5. ~MayBrowse(n, NoManager)
    BY <2>1 DEF Process, MayBrowse, NoManager
  <2> HIDE DEF n
  <2> QED
    BY <2>2, <2>3, <2>4, <2>5, NoManagerType, OneMoves
<1>16. ASSUME NEW p \in Processes, Crash(p)
      PROVE  BrowserInv'
  <2> DEFINE n == [proc[p] EXCEPT !.stage = "off", !.waiting = FALSE, !.posted = FALSE]
  <2>1. /\ proc[p] \in Process /\ IpfFits(proc[p])
    BY OneProcess
  <2>2. /\ proc' = [proc EXCEPT ![p] = n] /\ manager' = [manager EXCEPT ![p] = NoManager]
        /\ singleton' = singleton \/ singleton = p
    BY <1>16, <2>1 DEF Crash, End, BrowserInv, Typed
  <2>3. n \in Process
    BY <2>1 DEF Process, Stages
  <2>4. IpfFits(n) /\ ManagerFits(n.stage, NoManager)
    BY <2>1, <1>16 DEF Crash, End, Process, IpfFits, ManagerFits, NoManager
  <2>5. ~MayBrowse(n, NoManager)
    BY <2>1 DEF Process, MayBrowse, NoManager
  <2> HIDE DEF n
  <2> QED
    BY <2>2, <2>3, <2>4, <2>5, NoManagerType, OneMoves
<1>17. ASSUME NEW p \in Processes, PostDestroyThreads(p)
      PROVE  BrowserInv'
  <2> DEFINE n == [proc[p] EXCEPT !.stage = "off", !.ended = TRUE]
  <2>1. /\ proc[p] \in Process /\ IpfFits(proc[p])
    BY OneProcess
  <2>2. /\ proc' = [proc EXCEPT ![p] = n] /\ manager' = [manager EXCEPT ![p] = NoManager]
        /\ singleton' = singleton \/ singleton = p
    BY <1>17, <2>1 DEF PostDestroyThreads, BrowserInv, Typed
  <2>3. n \in Process
    BY <2>1 DEF Process, Stages
  <2>4. IpfFits(n) /\ ManagerFits(n.stage, NoManager)
    BY <2>1, <1>17 DEF PostDestroyThreads, Process, IpfFits, ManagerFits, NoManager
  <2>5. ~MayBrowse(n, NoManager)
    BY <2>1 DEF Process, MayBrowse, NoManager
  <2> HIDE DEF n
  <2> QED
    BY <2>2, <2>3, <2>4, <2>5, NoManagerType, OneMoves
<1>18. ASSUME NEW p \in Processes, NotifyOther(p)
      PROVE  BrowserInv'
  <2> DEFINE n == [proc[p] EXCEPT !.stage = "leaving"]
  <2> DEFINE running == proc[singleton].stage = "running"
             o == [proc[singleton] EXCEPT !.posted = @ \/ running,
                                          !.waiting = @ \/ ~running]
  <2>1. /\ singleton # p /\ UNCHANGED <<manager, singleton>>
        /\ proc' = [proc EXCEPT ![p].stage = "leaving",
                                ![singleton].posted = @ \/ running,
                                ![singleton].waiting = @ \/ ~running]
    BY <1>18 DEF NotifyOther
  <2>2. proc \in [Processes -> Process] /\ manager \in [Processes -> Manager]
    BY DEF BrowserInv, Typed
  <2>3. n \in Process
    BY <2>2 DEF Process, Stages
  <2>4. singleton \in Processes =>
          /\ o \in Process /\ o.stage = proc[singleton].stage
          /\ o.ipf = proc[singleton].ipf /\ o.switch = proc[singleton].switch
          /\ o.locale = proc[singleton].locale /\ o.ended = proc[singleton].ended
    BY <2>2 DEF Process
  <2>5. proc' = [q \in Processes |-> IF q = p THEN n
                                     ELSE IF q = singleton THEN o ELSE proc[q]]
    <3> DEFINE p1 == [proc EXCEPT ![p] = n]
               p2 == [p1 EXCEPT ![singleton].posted = @ \/ running]
               p3 == [p2 EXCEPT ![singleton].waiting = @ \/ ~running]
    <3> HIDE DEF running
    <3>1. proc' = p3
      BY <2>1
    <3>2. p1 = [q \in Processes |-> IF q = p THEN n ELSE proc[q]]
      BY <2>2
    <3> HIDE DEF n
    <3>3. p2 = [q \in Processes |-> IF q = p THEN n ELSE IF q = singleton
                     THEN [proc[q] EXCEPT !.posted = @ \/ running] ELSE proc[q]]
      <4> HIDE DEF p1
      <4> QED
        BY <2>1, <3>2
    <3>4. singleton \in Processes =>
            o = [[proc[singleton] EXCEPT !.posted = @ \/ running]
                    EXCEPT !.waiting = @ \/ ~running]
      BY <2>2 DEF Process
    <3> HIDE DEF o
    <3>5. p3 = [q \in Processes |-> IF q = p THEN n ELSE IF q = singleton
                     THEN o ELSE proc[q]]
      <4>1. p3 = [q \in Processes |-> IF q = singleton
                       THEN [p2[singleton] EXCEPT !.waiting = @ \/ ~running]
                       ELSE p2[q]]
        <5> HIDE DEF p2
        <5> QED
          BY <3>3
      <4> HIDE DEF p2, p3
      <4>2. singleton \in Processes => [p2[singleton] EXCEPT !.waiting = @ \/ ~running] = o
        <5> SUFFICES ASSUME singleton \in Processes
                     PROVE  [p2[singleton] EXCEPT !.waiting = @ \/ ~running] = o
          OBVIOUS
        <5>1. p2[singleton] = [proc[singleton] EXCEPT !.posted = @ \/ running]
          BY <2>1, <3>3
        <5> QED
          BY <5>1, <3>4
      <4>3. \A q \in Processes : q # singleton => p2[q] = IF q = p THEN n ELSE proc[q]
        BY <3>3
      <4> QED
        BY <2>1, <4>1, <4>2, <4>3
    <3> QED
      BY <3>1, <3>5
  <2> HIDE DEF n, o
  <2>6. Typed'
    BY <2>1, <2>2, <2>3, <2>4, <2>5 DEF Typed
  <2>7. /\ proc'[p] = n /\ UNCHANGED <<manager, singleton>>
        /\ \A q \in Processes \ {p} :
             /\ proc'[q].stage = proc[q].stage /\ proc'[q].ipf = proc[q].ipf
             /\ proc'[q].switch = proc[q].switch /\ proc'[q].locale = proc[q].locale
             /\ proc'[q].ended = proc[q].ended
    BY <2>1, <2>4, <2>5
  <2>8. /\ proc[p] \in Process /\ proc[p].stage = "threads"
        /\ IpfFits(proc[p]) /\ manager[p] = NoManager
    BY <1>18, OneProcess DEF NotifyOther, ManagerFits
  <2>9. IpfFits(n) /\ n.stage = "leaving"
    BY <2>8 DEF Process, IpfFits, n
  <2>10. OwnersBrowse'
    BY <2>7, <2>8, <2>9 DEF BrowserInv, OwnersBrowse, Browsing, NoManager
  <2>11. IpfFitsAll'
    <3> SUFFICES ASSUME NEW q \in Processes PROVE IpfFits(proc'[q])
      BY DEF IpfFitsAll
    <3>1. CASE q = p
      BY <2>7, <2>9, <3>1
    <3>2. CASE q # p
      <4>1. IpfFits(proc[q])
        BY DEF BrowserInv, IpfFitsAll
      <4> QED
        BY <2>7, <3>2, <4>1 DEF IpfFits
    <3> QED
      BY <3>1, <3>2
  <2>12. ManagersFit'
    BY <2>7, <2>8, <2>9 DEF BrowserInv, ManagersFit, ManagerFits, NoManager
  <2> QED
    BY <2>6, <2>10, <2>11, <2>12 DEF BrowserInv
<1>19. ASSUME NEW p \in Processes, NEW initial \in Profiles \union {NoProfile},
             NEW autoloaded \in SUBSET Profiles,
             CreateInitialProfile(p, initial, autoloaded)
      PROVE  BrowserInv'
  <2> DEFINE n == [proc[p] EXCEPT !.stage = "profiles"]
             m == [NoManager EXCEPT
                    !.initial = initial,
                    !.loaded = autoloaded \union (IF initial = NoProfile THEN {}
                                                 ELSE {initial})]
  <2>1. /\ proc[p] \in Process /\ proc[p].stage = "owner" /\ IpfFits(proc[p])
        /\ singleton = p /\ manager[p] = NoManager
    BY <1>19, OneProcess DEF CreateInitialProfile, ManagerFits, MayBrowse
  <2>2. /\ proc' = [proc EXCEPT ![p] = n] /\ manager' = [manager EXCEPT ![p] = m]
        /\ UNCHANGED singleton
    BY <1>19, <2>1 DEF CreateInitialProfile, Go, BrowserInv, Typed
  <2>3. n \in Process /\ n.stage = "profiles" /\ IpfFits(n)
    BY <2>1 DEF Process, Stages, IpfFits
  <2>4. m \in Manager
    BY NoManagerType DEF Manager
  <2>5. Fresh(m) /\ ~m.looping
    BY DEF Fresh, NoManager
  <2> HIDE DEF n, m
  <2>6. ManagerFits(n.stage, m)
    BY <2>3, <2>5 DEF ManagerFits
  <2> QED
    BY <2>1, <2>2, <2>3, <2>4, <2>6, OneMoves
<1>20. ASSUME NEW p \in Processes, NEW feature \in BOOLEAN,
             NEW created \in SUBSET (Profiles \ manager[p].loaded),
             BeginProfileInit(p, feature, created)
      PROVE  BrowserInv'
  <2> DEFINE i == IF manager[p].initial = NoProfile THEN manager[p]
                  ELSE CallPostProfileInit(manager[p], manager[p].initial)
             c == [i EXCEPT !.loaded = i.loaded \union created, !.feature = feature]
             m == IF feature THEN ObservesFirst(c) ELSE [c EXCEPT !.looping = TRUE]
  <2>1. /\ proc[p] \in Process /\ proc[p].stage = "profiles" /\ IpfFits(proc[p])
        /\ manager[p] \in Manager /\ Fresh(manager[p]) /\ ~manager[p].looping
        /\ singleton = p
    BY <1>20, OneProcess DEF BeginProfileInit, ManagerFits, MayBrowse
  <2>2. /\ manager' = [manager EXCEPT ![p] = m] /\ UNCHANGED <<proc, singleton>>
        /\ created # {} => manager[p].initial # NoProfile
    BY <1>20 DEF BeginProfileInit
  <2>3. m \in Manager /\ Initialised(m) /\ m.looping
    BY <2>1, <2>2, BeginKeeps
  <2> HIDE DEF m
  <2>4. ManagerFits(proc[p].stage, m)
    BY <2>1, <2>3 DEF ManagerFits
  <2> QED
    BY <2>1, <2>2, <2>3, <2>4, OneProcess, OneMoves
<1>21. ASSUME NEW p \in Processes, NEW f \in Profiles, InitLoadedProfile(p, f)
      PROVE  BrowserInv'
  <2> DEFINE m == [CallPostProfileInit(manager[p], f) EXCEPT !.todo = @ \ {f}]
  <2>1. /\ proc[p] \in Process /\ IpfFits(proc[p]) /\ proc[p].stage = "profiles"
        /\ manager[p] \in Manager /\ Initialised(manager[p]) /\ manager[p].looping
        /\ singleton = p
    BY <1>21, OneProcess DEF InitLoadedProfile, ManagerFits, MayBrowse
  <2>2. manager' = [manager EXCEPT ![p] = m] /\ UNCHANGED <<proc, singleton>>
    BY <1>21 DEF InitLoadedProfile
  <2>3. m \in Manager /\ Initialised(m) /\ m.looping
    BY <1>21, <2>1, LoopKeeps DEF InitLoadedProfile
  <2> HIDE DEF m
  <2>4. ManagerFits(proc[p].stage, m)
    BY <2>1, <2>3 DEF ManagerFits
  <2> QED
    BY <2>1, <2>2, <2>3, <2>4, OneProcess, OneMoves
<1>22. ASSUME NEW p \in Processes, NEW f \in Profiles, LoadProfile(p, f)
      PROVE  BrowserInv'
  <2> DEFINE l == [manager[p] EXCEPT !.loaded = @ \union {f}]
             m == IF l.observing THEN CallPostProfileInit(l, f) ELSE l
  <2>1. /\ proc[p] \in Process /\ IpfFits(proc[p])
        /\ proc[p].stage \in {"profiles", "ready", "running"}
        /\ proc[p].stage = "profiles" <=> manager[p].looping
        /\ manager[p] \in Manager /\ Initialised(manager[p])
        /\ singleton = p
    BY <1>22, OneProcess DEF LoadProfile, ManagerFits, MayBrowse
  <2>2. manager' = [manager EXCEPT ![p] = m] /\ UNCHANGED <<proc, singleton>>
    BY <1>22 DEF LoadProfile
  <2>3. m \in Manager /\ Initialised(m) /\ m.looping = manager[p].looping
    BY <1>22, <2>1, LoadKeeps DEF LoadProfile
  <2> HIDE DEF m
  <2>4. ManagerFits(proc[p].stage, m)
    BY <2>1, <2>3 DEF ManagerFits
  <2> QED
    BY <2>1, <2>2, <2>3, <2>4, OneProcess, OneMoves
<1>23. ASSUME NEW p \in Processes, EndProfileInit(p)
      PROVE  BrowserInv'
  <2> DEFINE n == [proc[p] EXCEPT !.stage = "ready"]
             m == [manager[p] EXCEPT !.looping = FALSE]
  <2>1. /\ proc[p] \in Process /\ IpfFits(proc[p]) /\ proc[p].stage = "profiles"
        /\ manager[p] \in Manager /\ Initialised(manager[p])
        /\ singleton = p
    BY <1>23, OneProcess DEF EndProfileInit, ManagerFits, MayBrowse
  <2>2. /\ proc' = [proc EXCEPT ![p] = n] /\ manager' = [manager EXCEPT ![p] = m]
        /\ UNCHANGED singleton
    BY <1>23, <2>1 DEF EndProfileInit, Go, BrowserInv, Typed
  <2>3. n \in Process /\ n.stage = "ready" /\ IpfFits(n)
    BY <2>1 DEF Process, Stages, IpfFits
  <2>4. /\ m \in Manager /\ ~m.looping
        /\ m.calls = manager[p].calls /\ m.first = manager[p].first
        /\ m.initial = manager[p].initial /\ m.loaded = manager[p].loaded
        /\ m.feature = manager[p].feature /\ m.observing = manager[p].observing
        /\ m.todo = manager[p].todo
    BY <2>1 DEF Manager
  <2> HIDE DEF n, m
  <2>5. Initialised(m)
    BY <2>1, <2>4 DEF Initialised, Due
  <2>6. ManagerFits(n.stage, m)
    BY <2>3, <2>4, <2>5 DEF ManagerFits
  <2> QED
    BY <2>1, <2>2, <2>3, <2>4, <2>6, OneMoves
<1>24. CASE UNCHANGED mainVars
  BY <1>24 DEF mainVars, BrowserInv, Typed, OwnersBrowse, Browsing, IpfFitsAll, ManagersFit
<1> QED
  BY <1>1, <1>2, <1>3, <1>4, <1>5, <1>6, <1>7, <1>8, <1>9, <1>10, <1>11, <1>12, <1>13, <1>14, <1>15, <1>16, <1>17, <1>18, <1>19, <1>20, <1>21, <1>22, <1>23, <1>24 DEF MainNext

\* Among any number of processes on one user data directory, wherever each of
\* them returns early or crashes, only the holder of the singleton has profiles.
THEOREM OnlyOwnerHasProfiles == MainSpec => []ProfilesOnlyOfOwner
<1>1. BrowserInv => ProfilesOnlyOfOwner
  BY DEF BrowserInv, OwnersBrowse, Browsing, ProfilesOnlyOfOwner
<1> QED
  BY <1>1, BrowserInit, BrowserNext, PTL DEF MainSpec

\* Every process that is torn down ends its connection to IPF if it had one, and
\* never one that it had not, from whichever stage it left.
THEOREM IpfConnectionsEnd == MainSpec => []IpfBalanced
<1>1. BrowserInv => IpfBalanced
  BY DEF BrowserInv, IpfFitsAll, IpfFits, IpfBalanced
<1> QED
  BY <1>1, BrowserInit, BrowserNext, PTL DEF MainSpec

\* For any set of profiles, loaded before, in or after the loop in any order:
\* each is initialised once, the initial profile first.
THEOREM ProfilesInitialisedOnce == MainSpec => []EveryProfileInitialisedOnce
<1>1. BrowserInv => EveryProfileInitialisedOnce
  BY DEF BrowserInv, ManagersFit, ManagerFits, Initialised, Due,
         EveryProfileInitialisedOnce
<1> QED
  BY <1>1, BrowserInit, BrowserNext, PTL DEF MainSpec
\* PostProfileInit was called at most once for each profile, in any stage.
CallsBounded ==
    /\ singleton \in Processes \union {Nobody}
    /\ \A p \in Processes : \A f \in Profiles : manager[p].calls[f] \in 0..1

LEMMA CallsMove ==
    ASSUME BrowserInv', CallsBounded, singleton' \in Processes \union {Nobody},
           NEW p \in Processes,
           \A q \in Processes \ {p} : manager'[q] = manager[q],
           \/ manager'[p] = NoManager
           \/ manager'[p].calls = manager[p].calls
           \/ manager'[p].looping
           \/ proc'[p].stage \in {"ready", "running"}
    PROVE  CallsBounded'
<1> SUFFICES ASSUME NEW q \in Processes, NEW f \in Profiles
             PROVE  manager'[q].calls[f] \in 0..1
  BY DEF CallsBounded
<1>1. CASE q # p \/ manager'[p].calls = manager[p].calls
  BY <1>1 DEF CallsBounded
<1>2. CASE q = p /\ manager'[p] = NoManager
  BY <1>2 DEF NoManager
<1>3. CASE q = p /\ (manager'[p].looping \/ proc'[p].stage \in {"ready", "running"})
  <2>1. ManagerFits(proc'[p].stage, manager'[p])
    BY DEF BrowserInv, ManagersFit
  <2>2. Initialised(manager'[p])
    BY <1>3, <2>1 DEF ManagerFits
  <2> QED
    BY <1>3, <2>2 DEF Initialised
<1> QED
  BY <1>1, <1>2, <1>3

LEMMA CallsNext ==
    BrowserInv /\ BrowserInv' /\ CallsBounded /\ [MainNext]_mainVars => CallsBounded'
<1> SUFFICES ASSUME BrowserInv, BrowserInv', CallsBounded, [MainNext]_mainVars
             PROVE  CallsBounded'
  OBVIOUS
<1>1. CASE UNCHANGED manager /\ singleton' \in Processes \union {Nobody}
  BY <1>1 DEF CallsBounded
<1>2. singleton \in Processes \union {Nobody}
  BY DEF CallsBounded
<1>3. \A p \in Processes : manager[p] \in Manager /\ DOMAIN manager = Processes
  BY DEF BrowserInv, Typed
<1>4. ASSUME NEW p \in Processes, NEW m, manager' = [manager EXCEPT ![p] = m],
             singleton' \in Processes \union {Nobody},
             \/ m = NoManager
             \/ m.calls = manager[p].calls
             \/ m.looping
             \/ proc'[p].stage \in {"ready", "running"}
      PROVE  CallsBounded'
  <2>1. manager'[p] = m /\ \A q \in Processes \ {p} : manager'[q] = manager[q]
    BY <1>3, <1>4
  <2> QED
    BY <1>4, <2>1, CallsMove
<1>5. ASSUME NEW p \in Processes, End(p) \/ PostDestroyThreads(p) PROVE CallsBounded'
  BY <1>2, <1>4, <1>5 DEF End, PostDestroyThreads
<1>6. ASSUME NEW p \in Processes, NEW initial, NEW autoloaded,
             CreateInitialProfile(p, initial, autoloaded)
      PROVE  CallsBounded'
  <2> DEFINE m == [manager[p] EXCEPT
                     !.initial = initial,
                     !.loaded = autoloaded \union (IF initial = NoProfile THEN {} ELSE {initial})]
  <2>1. manager' = [manager EXCEPT ![p] = m] /\ singleton' = singleton
    BY <1>3, <1>6 DEF CreateInitialProfile
  <2>2. m.calls = manager[p].calls
    BY <1>3 DEF Manager
  <2> HIDE DEF m
  <2> QED
    BY <1>2, <1>4, <2>1, <2>2
<1>7. ASSUME NEW p \in Processes, NEW feature, NEW created, BeginProfileInit(p, feature, created)
      PROVE  CallsBounded'
  <2> DEFINE i == IF manager[p].initial = NoProfile THEN manager[p]
                  ELSE CallPostProfileInit(manager[p], manager[p].initial)
             c == [i EXCEPT !.loaded = i.loaded \union created, !.feature = feature]
             m == IF feature THEN ObservesFirst(c) ELSE [c EXCEPT !.looping = TRUE]
  <2>1. manager' = [manager EXCEPT ![p] = m] /\ singleton' = singleton
    BY <1>3, <1>7 DEF BeginProfileInit
  <2>2. "looping" \in DOMAIN c
    BY <1>3 DEF Manager, CallPostProfileInit
  <2>3. m.looping
    <3> HIDE DEF c
    <3> QED
      BY <2>2 DEF ObservesFirst
  <2> HIDE DEF m
  <2> QED
    BY <1>2, <1>4, <2>1, <2>3
<1>8. ASSUME NEW p \in Processes, NEW f, InitLoadedProfile(p, f) PROVE CallsBounded'
  <2> DEFINE m == [CallPostProfileInit(manager[p], f) EXCEPT !.todo = @ \ {f}]
  <2>1. manager' = [manager EXCEPT ![p] = m] /\ singleton' = singleton
    BY <1>8 DEF InitLoadedProfile
  <2>2. m.looping
    BY <1>3, <1>8 DEF InitLoadedProfile, CallPostProfileInit, Manager
  <2> HIDE DEF m
  <2> QED
    BY <1>2, <1>4, <2>1, <2>2
<1>9. ASSUME NEW p \in Processes, NEW f, LoadProfile(p, f) PROVE CallsBounded'
  <2> DEFINE l == [manager[p] EXCEPT !.loaded = @ \union {f}]
             m == IF l.observing THEN CallPostProfileInit(l, f) ELSE l
  <2>1. /\ manager' = [manager EXCEPT ![p] = m] /\ singleton' = singleton
        /\ manager[p].looping \/ proc'[p].stage \in {"ready", "running"}
    BY <1>9 DEF LoadProfile
  <2>2. m.looping = manager[p].looping
    BY <1>3 DEF Manager, CallPostProfileInit
  <2> HIDE DEF m
  <2> QED
    BY <1>2, <1>4, <2>1, <2>2
<1>10. ASSUME NEW p \in Processes, EndProfileInit(p) PROVE CallsBounded'
  <2> DEFINE m == [manager[p] EXCEPT !.looping = FALSE]
  <2>1. manager' = [manager EXCEPT ![p] = m] /\ singleton' = singleton
    BY <1>3, <1>10 DEF EndProfileInit
  <2>2. m.calls = manager[p].calls
    BY <1>3 DEF Manager
  <2> HIDE DEF m
  <2> QED
    BY <1>2, <1>4, <2>1, <2>2
<1>11. ASSUME NEW p \in Processes,
              \/ \E switch \in BOOLEAN : LaunchBrowser(p, switch)
              \/ \E locale \in BOOLEAN : PreEarlyInitialization(p, locale)
              \/ \E stale \in BOOLEAN : PreEarlyInitializationFails(p, stale)
              \/ CreateThreads(p) \/ ReturnsBeforeSingleton(p) \/ AcquireSingleton(p)
              \/ NotifyOther(p) \/ SingletonInUse(p) \/ ReturnsBeforeProfile(p)
              \/ DeferToOther(p) \/ QuitsDuringFirstRun(p)
              \/ \E started \in BOOLEAN : StartBrowser(p, started)
              \/ HandleRequest(p) \/ Quit(p) \/ PostMainMessageLoopRun(p)
       PROVE  CallsBounded'
  <2>1. UNCHANGED manager /\ singleton' \in {singleton, p}
    BY <1>11 DEF LaunchBrowser, PreEarlyInitialization, PreEarlyInitializationFails,
         CreateThreads, ReturnsBeforeSingleton, AcquireSingleton, NotifyOther,
         SingletonInUse, ReturnsBeforeProfile, DeferToOther, QuitsDuringFirstRun,
         StartBrowser, HandleRequest, Quit, PostMainMessageLoopRun
  <2> QED
    BY <1>1, <1>2, <2>1
<1>12. CASE UNCHANGED mainVars
  BY <1>1, <1>2, <1>12 DEF mainVars
<1> QED
  BY <1>5, <1>6, <1>7, <1>8, <1>9, <1>10, <1>11, <1>12
     DEF MainNext, PreCreateThreadsFails, Crash

\* The parts and the managers of every process keep their types; no profile is
\* ever initialised more often than once.
THEOREM MainTypeCorrect == MainSpec => []MainTypeOK
<1>1. MainInit => CallsBounded
  BY DEF MainInit, CallsBounded, NoManager
<1>2. BrowserInv /\ CallsBounded => MainTypeOK
  <2> SUFFICES ASSUME BrowserInv, CallsBounded PROVE MainTypeOK
    OBVIOUS
  <2> DEFINE Bounded ==
        [initial : Profiles \union {NoProfile}, loaded : SUBSET Profiles,
         calls : [Profiles -> 0..2], first : Profiles \union {NoProfile},
         feature : BOOLEAN, observing : BOOLEAN, todo : SUBSET Profiles,
         looping : BOOLEAN]
  <2>1. ASSUME NEW p \in Processes PROVE manager[p] \in Bounded
    <3>1. manager[p] \in Manager
      BY DEF BrowserInv, Typed
    <3>2. manager[p].calls \in [Profiles -> 0..2]
      BY <3>1 DEF CallsBounded, Manager
    <3> QED
      BY <3>1, <3>2 DEF Manager
  <2> HIDE DEF Bounded
  <2>2. manager \in [Processes -> Bounded]
    BY <2>1 DEF BrowserInv, Typed
  <2>3. proc \in [Processes -> Process]
    BY DEF BrowserInv, Typed
  <2> QED
    BY <2>2, <2>3 DEF MainTypeOK, CallsBounded, Bounded, Process
<1> QED
  BY <1>1, <1>2, BrowserInit, BrowserNext, CallsNext, PTL DEF MainSpec
-----------------------------------------------------------------------------
(* The setting of the device service (DeviceServiceSetting).                  *)

\* Why the readers agree: a renderer lives within a browser process and has a
\* copy of its switch, which does not change, and a tracker only while it
\* lives; a mode was set only by the provider, IPF is connected at the start.
SwitchIsCopied ==
    \A r \in Renderers :
        /\ renderers[r].running =>
              browser.running /\ renderers[r].switch = browser.switch
        /\ renderers[r].tracker # "none" =>
              /\ renderers[r].running
              /\ renderers[r].tracker = "on" <=> browser.switch # "disabled"

ModeIsOfProvider ==
    /\ browser.provider => browser.running
    /\ ~browser.provider => browser.mode = 0
    /\ browser.running => (browser.ipf <=> ConnectsIPF(browser.switch))

SettingInv == SettingTypeOK /\ SwitchIsCopied /\ ModeIsOfProvider /\ OneSettingPerSession

LEMMA SettingInvInit == SettingInit => SettingInv
<1> SUFFICES ASSUME SettingInit PROVE SettingInv
  OBVIOUS
<1>1. SettingTypeOK
  BY DEF SettingInit, SettingTypeOK, Settings, Values, Switches, Absent, NoBrowser, NoRenderer
<1>2. SwitchIsCopied /\ ModeIsOfProvider /\ OneSettingPerSession
  BY DEF SettingInit, SwitchIsCopied, ModeIsOfProvider, OneSettingPerSession,
         ShownIsRunning, OneSetting, Absent, NoBrowser, NoRenderer
<1> QED
  BY <1>1, <1>2 DEF SettingInv

\* A change of what is stored leaves the processes alone.
LEMMA StoreKeeps ==
    ASSUME SettingInv, NEW choice \in Settings, Store(choice)
    PROVE  SettingInv'
<1>1. SettingTypeOK'
  BY DEF SettingInv, SettingTypeOK, Store
<1>2. flags'.ipfBuilt = flags.ipfBuilt /\ UNCHANGED <<browser, renderers>>
  BY DEF SettingInv, SettingTypeOK, Store
<1>3. SwitchIsCopied' /\ ModeIsOfProvider' /\ OneSetting'
  BY <1>2 DEF SettingInv, SwitchIsCopied, ModeIsOfProvider, OneSettingPerSession,
              OneSetting, ConnectsIPF, ModeOf
<1>4. ShownIsRunning'
  BY DEF SettingInv, SettingTypeOK, OneSettingPerSession, ShownIsRunning, Store
<1> QED
  BY <1>1, <1>3, <1>4 DEF SettingInv, OneSettingPerSession

\* The first receiver creates the provider, in the mode of the session.
LEMMA BindKeeps ==
    ASSUME SettingInv, NEW r \in Renderers, NEW way \in Ways,
           renderers[r].running, browser.switch # "disabled",
           Bind(<<r, way>>), UNCHANGED <<flags, renderers>>
    PROVE  SettingInv'
<1>1. browser.running
  BY DEF SettingInv, SwitchIsCopied
<1>2. ModeOf(browser.switch) \in 0..3
  BY DEF ModeOf
<1>3. /\ browser'.provider
      /\ browser'.mode = IF browser.provider THEN browser.mode ELSE ModeOf(browser.switch)
      /\ browser'.switch = browser.switch /\ browser'.running = browser.running
      /\ browser'.ipf = browser.ipf /\ browser'.byFlags = browser.byFlags
  BY DEF Bind, SettingInv, SettingTypeOK
<1>4. SettingTypeOK'
  <2>1. <<r, way>> \in Renderers \X Ways
    OBVIOUS
  <2>2. browser.receivers \union {<<r, way>>} \in SUBSET (Renderers \X Ways)
    BY <2>1 DEF SettingInv, SettingTypeOK
  <2> DEFINE receivers == browser.receivers \union {<<r, way>>}
  <2> HIDE DEF receivers
  <2>3. browser' = [browser EXCEPT
            !.provider = TRUE,
            !.mode = IF browser.provider THEN browser.mode ELSE ModeOf(browser.switch),
            !.receivers = receivers]
    BY DEF Bind, receivers
  <2> QED
    BY <1>2, <2>2, <2>3 DEF SettingInv, SettingTypeOK, receivers
<1>5. SwitchIsCopied'
  BY <1>3 DEF SettingInv, SwitchIsCopied
<1>6. ModeIsOfProvider'
  BY <1>1, <1>3 DEF SettingInv, ModeIsOfProvider, ConnectsIPF
<1>7. ModeOf(browser.switch) = 2 => browser.ipf
  BY <1>1 DEF ModeOf, SettingInv, ModeIsOfProvider, ConnectsIPF
<1>8. OneSettingPerSession'
  BY <1>3, <1>7 DEF SettingInv, OneSettingPerSession, ShownIsRunning, OneSetting, ModeOf
<1> QED
  BY <1>4, <1>5, <1>6, <1>8 DEF SettingInv

LEMMA SettingInvNext == SettingInv /\ [SettingNext]_settingVars => SettingInv'
<1> SUFFICES ASSUME SettingInv, [SettingNext]_settingVars PROVE SettingInv'
  OBVIOUS
<1>1. ASSUME NEW choice \in Settings, SetFeatureEntryEnabled(choice) PROVE SettingInv'
  BY <1>1, StoreKeeps DEF SetFeatureEntryEnabled
<1>2. CASE ResetAllFlags
  BY <1>2, StoreKeeps DEF ResetAllFlags, Settings
<1>3. ASSUME NEW given \in Switches, NEW noExperiments \in BOOLEAN,
             LaunchBrowserWith(given, noExperiments)
      PROVE  SettingInv'
  <2> DEFINE switch == ConvertFlagsToSwitches(given, noExperiments)
  <2>1. switch \in Switches
    BY DEF ConvertFlagsToSwitches, SettingInv, SettingTypeOK, Switches
  <2>2. /\ browser' = [NoBrowser EXCEPT !.running = TRUE, !.switch = switch,
                          !.byFlags = ~noExperiments /\ given = Absent,
                          !.ipf = ConnectsIPF(switch)]
        /\ ~browser.running
        /\ flags' = [flags EXCEPT !.changed = FALSE]
        /\ UNCHANGED renderers
    BY <1>3 DEF LaunchBrowserWith
  <2>3. browser'.byFlags => switch = flags.chosen
    BY <2>2 DEF ConvertFlagsToSwitches, NoBrowser
  <2> HIDE DEF switch
  <2>4. /\ browser'.running /\ browser'.switch = switch
        /\ browser'.ipf = ConnectsIPF(switch)
        /\ ~browser'.provider /\ browser'.mode = 0
    BY <2>2 DEF NoBrowser
  <2>5. flags'.ipfBuilt = flags.ipfBuilt /\ flags'.chosen = flags.chosen
    BY <2>2 DEF SettingInv, SettingTypeOK
  <2>6. SettingTypeOK'
    <3>1. ConnectsIPF(switch) \in BOOLEAN
      BY DEF ConnectsIPF, SettingInv, SettingTypeOK
    <3>2. browser' = [running |-> TRUE, byFlags |-> ~noExperiments /\ given = Absent,
                      switch |-> switch, ipf |-> ConnectsIPF(switch),
                      provider |-> FALSE, mode |-> 0, receivers |-> {}]
      BY <2>2 DEF NoBrowser
    <3>3. (~noExperiments /\ given = Absent) \in BOOLEAN
      OBVIOUS
    <3> DEFINE R == SUBSET (Renderers \X Ways)
    <3>4. {} \in R
      OBVIOUS
    <3> HIDE DEF R
    <3>5. browser' \in [running : BOOLEAN, byFlags : BOOLEAN, switch : Switches,
                        ipf : BOOLEAN, provider : BOOLEAN, mode : 0..3, receivers : R]
      BY <2>1, <3>1, <3>2, <3>3, <3>4
    <3>6. /\ flags' \in [chosen : Settings, changed : BOOLEAN, ipfBuilt : BOOLEAN]
          /\ UNCHANGED renderers
      BY <2>2 DEF SettingInv, SettingTypeOK
    <3> QED
      BY <3>5, <3>6 DEF SettingInv, SettingTypeOK, R
  <2>7. \A r \in Renderers : ~renderers[r].running /\ renderers[r].tracker = "none"
    BY <2>2 DEF SettingInv, SwitchIsCopied
  <2>8. SwitchIsCopied' /\ ModeIsOfProvider'
    BY <2>2, <2>4, <2>5, <2>7 DEF SwitchIsCopied, ModeIsOfProvider, ConnectsIPF
  <2>9. OneSettingPerSession'
    BY <2>2, <2>3, <2>4, <2>5, <2>7 DEF OneSettingPerSession, ShownIsRunning, OneSetting
  <2> QED
    BY <2>6, <2>8, <2>9 DEF SettingInv
<1>4. CASE EndBrowser
  <2>1. browser' = NoBrowser /\ renderers' = [r \in Renderers |-> NoRenderer] /\ flags' = flags
    BY <1>4 DEF EndBrowser
  <2>2. SettingTypeOK'
    BY <2>1 DEF SettingInv, SettingTypeOK, NoBrowser, NoRenderer, Switches, Settings, Absent
  <2>3. SwitchIsCopied' /\ ModeIsOfProvider' /\ OneSettingPerSession'
    BY <2>1 DEF SwitchIsCopied, ModeIsOfProvider, OneSettingPerSession,
                ShownIsRunning, OneSetting, NoBrowser, NoRenderer, Absent
  <2> QED
    BY <2>2, <2>3 DEF SettingInv
<1>5. ASSUME NEW r \in Renderers, LaunchRenderer(r) PROVE SettingInv'
  <2>1. /\ browser.running /\ UNCHANGED <<flags, browser>>
        /\ renderers' = [renderers EXCEPT
              ![r] = [NoRenderer EXCEPT !.running = TRUE, !.switch = browser.switch]]
    BY <1>5 DEF LaunchRenderer, PropagateBrowserCommandLineToRenderer
  <2>2. SettingTypeOK'
    BY <2>1 DEF SettingInv, SettingTypeOK, NoRenderer
  <2>3. SwitchIsCopied'
    BY <2>1 DEF SettingInv, SettingTypeOK, SwitchIsCopied, NoRenderer
  <2>4. ModeIsOfProvider'
    BY <2>1 DEF SettingInv, ModeIsOfProvider, ConnectsIPF
  <2>5. OneSettingPerSession'
    BY <2>1, <2>3 DEF SettingInv, OneSettingPerSession, ShownIsRunning, OneSetting,
                      SwitchIsCopied, ModeOf
  <2> QED
    BY <2>2, <2>3, <2>4, <2>5 DEF SettingInv
<1>6. ASSUME NEW r \in Renderers, ExitRenderer(r) PROVE SettingInv'
  <2>1. /\ renderers' = [renderers EXCEPT ![r] = NoRenderer] /\ UNCHANGED flags
        /\ browser' = [browser EXCEPT !.receivers = {c \in browser.receivers : c[1] # r}]
    BY <1>6 DEF ExitRenderer
  <2>2. SettingTypeOK'
    BY <2>1 DEF SettingInv, SettingTypeOK, NoRenderer, Switches, Settings, Absent
  <2>3. /\ browser'.running = browser.running /\ browser'.switch = browser.switch
        /\ browser'.ipf = browser.ipf /\ browser'.provider = browser.provider
        /\ browser'.mode = browser.mode /\ browser'.byFlags = browser.byFlags
    BY <2>1 DEF SettingInv, SettingTypeOK
  <2>4. SwitchIsCopied'
    BY <2>1, <2>3 DEF SettingInv, SettingTypeOK, SwitchIsCopied, NoRenderer
  <2>5. ModeIsOfProvider'
    BY <2>1, <2>3 DEF SettingInv, ModeIsOfProvider, ConnectsIPF
  <2>6. OneSettingPerSession'
    BY <2>1, <2>3, <2>4 DEF SettingInv, OneSettingPerSession, ShownIsRunning,
                            OneSetting, SwitchIsCopied, ModeOf
  <2> QED
    BY <2>2, <2>4, <2>5, <2>6 DEF SettingInv
<1>7. ASSUME NEW r \in Renderers, CreateTracker(r) PROVE SettingInv'
  <2>1. /\ renderers[r].running /\ UNCHANGED <<flags, browser>>
        /\ renderers' = [renderers EXCEPT ![r].tracker =
                            IF renderers[r].switch # "disabled" THEN "on" ELSE "off"]
    BY <1>7 DEF CreateTracker
  <2>2. SettingTypeOK'
    BY <2>1 DEF SettingInv, SettingTypeOK
  <2>3. SwitchIsCopied'
    BY <2>1 DEF SettingInv, SettingTypeOK, SwitchIsCopied
  <2>4. ModeIsOfProvider'
    BY <2>1 DEF SettingInv, ModeIsOfProvider, ConnectsIPF
  <2>5. OneSettingPerSession'
    BY <2>1, <2>3 DEF SettingInv, OneSettingPerSession, ShownIsRunning, OneSetting,
                      SwitchIsCopied, ModeOf
  <2> QED
    BY <2>2, <2>3, <2>4, <2>5 DEF SettingInv
<1>8. ASSUME NEW r \in Renderers, BindFromThread(r) PROVE SettingInv'
  <2>1. renderers[r].running /\ browser.switch # "disabled"
    BY <1>8 DEF BindFromThread, SettingInv, SwitchIsCopied
  <2> QED
    BY <1>8, <2>1, BindKeeps DEF BindFromThread, Ways
<1>9. ASSUME NEW r \in Renderers, BindFromFrame(r) PROVE SettingInv'
  <2>1. CASE browser.switch # "disabled"
    BY <1>9, <2>1, BindKeeps DEF BindFromFrame, Ways
  <2>2. CASE browser.switch = "disabled"
    <3>1. UNCHANGED settingVars
      BY <1>9, <2>2 DEF BindFromFrame, settingVars
    <3> QED
      BY <3>1 DEF settingVars, SettingInv, SettingTypeOK, SwitchIsCopied, ModeIsOfProvider,
                  OneSettingPerSession, ShownIsRunning, OneSetting, ConnectsIPF, ModeOf
  <2> QED
    BY <2>1, <2>2
<1>10. CASE UNCHANGED settingVars
  BY <1>10 DEF settingVars, SettingInv, SettingTypeOK, SwitchIsCopied, ModeIsOfProvider,
               OneSettingPerSession, ShownIsRunning, OneSetting, ConnectsIPF, ModeOf
<1> QED
  BY <1>1, <1>2, <1>3, <1>4, <1>5, <1>6, <1>7, <1>8, <1>9, <1>10 DEF SettingNext

\* In any number of renderers: as long as a browser process lives, whoever reads
\* the setting of the service reads the same one, and chrome://flags shows it
\* unless it asks for a restart.
THEOREM SessionsHaveOneSetting == SettingSpec => []OneSettingPerSession
<1>1. SettingInv => OneSettingPerSession
  BY DEF SettingInv
<1> QED
  BY <1>1, SettingInvInit, SettingInvNext, PTL DEF SettingSpec

-----------------------------------------------------------------------------
(* The features of a renderer (RuntimeFeatures), for any defaults of           *)
(* base::Features and any number of settings.                                  *)

\* What each function has established once it was called, and what the later
\* ones leave of it: only an explicit list overrules a switch, and only what
\* the browser process does not support overrules the lists.
DisabledAreOff == on \intersect FeaturesFromSwitch("disable") = {}

EventPathFits ==
    ~Explicit("EventPath") =>
        /\ HasSwitch("event-path-policy=1") => "EventPath" \in on
        /\ HasSwitch("event-path-policy=0") => "EventPath" \notin on

DatabaseFits ==
    HasSwitch("disable-databases") /\ ~Explicit("Database") => "Database" \notin on

WebGPUFits ==
    HasSwitch("enable-unsafe-webgpu") /\ ~Explicit("WebGPU") => "WebGPU" \in on

FeatureInv ==
    /\ FeatureTypeOK
    /\ IsConfiguration(config)
    /\ called > 0 /\ <<"profile", "off-the-record">> \in config =>
         HasSwitch("disable-databases")
    /\ called > 5 => EventPathFits /\ DatabaseFits
    /\ called > 6 => WebGPUFits
    /\ called > 7 => DisabledAreOff
    /\ called > 8 => ("Portals" \in on => IsEnabled("Portals"))

LEMMA FeatureInvInit == FeatureInit => FeatureInv
BY DEF FeatureInit, FeatureInv, FeatureTypeOK, IsConfiguration

\* The launch adds a switch that is in no pair of contradicting settings.
LEMMA StartKeeps == FeatureInv /\ StartRenderer => FeatureInv'
<1> SUFFICES ASSUME FeatureInv, StartRenderer PROVE FeatureInv'
  OBVIOUS
<1> DEFINE added == IF <<"profile", "off-the-record">> \in config
                    THEN {<<"switch", "disable-databases">>} ELSE {}
<1>1. config' = config \union added /\ called' = 1 /\ on' = Stable
  BY DEF StartRenderer
<1>2. <<"switch", "disable-databases">> \in FeatureSettings
  BY DEF FeatureSettings, SwitchNames
<1>3. FeatureTypeOK'
  <2>1. config' \subseteq FeatureSettings
    BY <1>1, <1>2 DEF FeatureInv, FeatureTypeOK
  <2>2. called' \in 0..9
    BY <1>1
  <2>3. on' \subseteq Features
    BY <1>1 DEF Features
  <2> QED
    BY <2>1, <2>2, <2>3 DEF FeatureTypeOK
<1>4. IsConfiguration(config')
  BY <1>1 DEF FeatureInv, IsConfiguration
<1>5. <<"profile", "off-the-record">> \in config' => HasSwitch("disable-databases")'
  BY <1>1 DEF HasSwitch
<1> QED
  BY <1>1, <1>3, <1>4, <1>5 DEF FeatureInv

\* A function that leaves the configuration alone.
LEMMA CallKeeps ==
    ASSUME FeatureInv, NEW n \in 1..8, NEW features \in SUBSET Features,
           Call(n, features)
    PROVE  /\ called = n /\ called' = n + 1 /\ on' = features
           /\ FeatureTypeOK' /\ IsConfiguration(config)' /\ UNCHANGED config
           /\ <<"profile", "off-the-record">> \in config =>
                HasSwitch("disable-databases")
BY DEF FeatureInv, FeatureTypeOK, Call, IsConfiguration

\* The functions change only features.
LEMMA TablesType ==
    ASSUME FeatureTypeOK
    PROVE  /\ EnableExperimentalFeatures \in SUBSET Features
           /\ DisableOriginTrials \in SUBSET Features
           /\ SetRuntimeFeaturesFromChromiumFeatures \in SUBSET Features
           /\ UpdateStatusFromBaseFeatures \in SUBSET Features
           /\ SetRuntimeFeaturesFromCommandLine \in SUBSET Features
           /\ SetCustomizedRuntimeFeaturesFromCombinedArgs \in SUBSET Features
           /\ SetExplicitFeatures \in SUBSET Features
           /\ ResolveInvalidConfigurations \in SUBSET Features
<1>1. on \in SUBSET Features
  BY DEF FeatureTypeOK
<1>2. EnableExperimentalFeatures \in SUBSET Features
  BY <1>1 DEF EnableExperimentalFeatures, Features
<1>3. DisableOriginTrials \in SUBSET Features
  BY <1>1 DEF DisableOriginTrials
<1>4. \A features \in SUBSET Features, f \in Features, base \in BaseFeatures :
         /\ kDefault(features, f, base) \in SUBSET Features
         /\ kSetOnlyIfOverridden(features, f, base) \in SUBSET Features
  BY DEF kDefault, kSetOnlyIfOverridden, Set
<1>5. SetRuntimeFeaturesFromChromiumFeatures \in SUBSET Features
  <2> DEFINE a == kDefault(on, "HardwareProfiling", "HardwareProfiling")
             b2 == kSetOnlyIfOverridden(a, "FencedFrames", "PrivacySandboxAdsAPIsOverride")
             c == kSetOnlyIfOverridden(b2, "Fledge", "Fledge")
  <2>1. /\ {"HardwareProfiling", "FencedFrames", "Fledge"} \subseteq Features
        /\ {"HardwareProfiling", "PrivacySandboxAdsAPIsOverride", "Fledge"}
             \subseteq BaseFeatures
    BY DEF Features, Experimental, OriginTrial, BaseFeatures
  <2>2. a \in SUBSET Features
    BY <1>1, <1>4, <2>1
  <2> HIDE DEF a
  <2>3. b2 \in SUBSET Features
    BY <2>2, <1>4, <2>1
  <2> HIDE DEF b2
  <2>4. c \in SUBSET Features
    BY <2>3, <1>4, <2>1
  <2> HIDE DEF c
  <2>5. kSetOnlyIfOverridden(c, "Fledge", "PrivacySandboxAdsAPIsOverride") \in SUBSET Features
    BY <2>4, <1>4, <2>1
  <2> QED
    BY <2>5 DEF SetRuntimeFeaturesFromChromiumFeatures, a, b2, c
<1>6. UpdateStatusFromBaseFeatures \in SUBSET Features
  <2> DEFINE a == kSetOnlyIfOverridden(on, "Portals", "Portals")
             b2 == kDefault(a, "EventPath", "EventPath")
  <2>1. {"Portals", "EventPath", "StorageAccessAPIForOriginExtension"}
            \subseteq Features \intersect BaseFeatures
    BY DEF Features, Test, OriginTrial, BaseFeatures
  <2>2. a \in SUBSET Features
    BY <1>1, <1>4, <2>1
  <2> HIDE DEF a
  <2>3. b2 \in SUBSET Features
    BY <2>2, <1>4, <2>1
  <2> HIDE DEF b2
  <2>4. kDefault(b2, "StorageAccessAPIForOriginExtension",
                 "StorageAccessAPIForOriginExtension") \in SUBSET Features
    BY <2>3, <1>4, <2>1
  <2> QED
    BY <2>4 DEF UpdateStatusFromBaseFeatures, a, b2
<1>7. SetRuntimeFeaturesFromCommandLine \in SUBSET Features
  BY <1>1 DEF SetRuntimeFeaturesFromCommandLine, Features
<1>8. SetCustomizedRuntimeFeaturesFromCombinedArgs \in SUBSET Features
  BY <1>1 DEF SetCustomizedRuntimeFeaturesFromCombinedArgs, Set, Features, OriginTrial
<1>9. SetExplicitFeatures \in SUBSET Features
  BY <1>1 DEF SetExplicitFeatures, FeaturesFromSwitch
<1>10. ResolveInvalidConfigurations \in SUBSET Features
  BY <1>1 DEF ResolveInvalidConfigurations
<1> QED
  BY <1>2, <1>3, <1>5, <1>6, <1>7, <1>8, <1>9, <1>10

LEMMA FeatureInvNext == FeatureInv /\ [FeatureNext]_featureVars => FeatureInv'
<1> SUFFICES ASSUME FeatureInv, [FeatureNext]_featureVars PROVE FeatureInv'
  OBVIOUS
<1>1. FeatureTypeOK
  BY DEF FeatureInv
<1>2. ASSUME NEW setting \in FeatureSettings, Configure(setting) PROVE FeatureInv'
  BY <1>2 DEF FeatureInv, FeatureTypeOK, Configure
<1>3. ASSUME StartRenderer PROVE FeatureInv'
  BY <1>3, StartKeeps
<1>4. ASSUME NEW n \in 1..4, NEW features \in SUBSET Features, Call(n, features)
      PROVE  FeatureInv'
  BY <1>4, CallKeeps DEF FeatureInv, HasSwitch
<1>5. ASSUME Call(5, SetRuntimeFeaturesFromCommandLine) PROVE FeatureInv'
  <2>1. /\ called' = 6 /\ on' = SetRuntimeFeaturesFromCommandLine
        /\ FeatureTypeOK' /\ IsConfiguration(config)' /\ UNCHANGED config
        /\ <<"profile", "off-the-record">> \in config => HasSwitch("disable-databases")
    BY <1>5, <1>1, CallKeeps, TablesType
  <2>2. EventPathFits' /\ DatabaseFits'
    BY <2>1 DEF EventPathFits, DatabaseFits, SetRuntimeFeaturesFromCommandLine,
                HasSwitch, IsConfiguration
  <2> QED
    BY <2>1, <2>2 DEF FeatureInv, HasSwitch
<1>6. ASSUME Call(6, SetCustomizedRuntimeFeaturesFromCombinedArgs) PROVE FeatureInv'
  <2>1. /\ called = 6 /\ called' = 7
        /\ on' = SetCustomizedRuntimeFeaturesFromCombinedArgs
        /\ FeatureTypeOK' /\ IsConfiguration(config)' /\ UNCHANGED config
        /\ <<"profile", "off-the-record">> \in config => HasSwitch("disable-databases")
    BY <1>6, <1>1, CallKeeps, TablesType
  <2>2. \A f \in {"EventPath", "Database"} : f \in on' <=> f \in on
    BY <2>1 DEF SetCustomizedRuntimeFeaturesFromCombinedArgs, Set
  <2>3. EventPathFits' /\ DatabaseFits'
    BY <2>1, <2>2 DEF FeatureInv, EventPathFits, DatabaseFits, HasSwitch, Explicit
  <2>4. WebGPUFits'
    BY <2>1 DEF WebGPUFits, SetCustomizedRuntimeFeaturesFromCombinedArgs, HasSwitch, Set
  <2> QED
    BY <2>1, <2>3, <2>4 DEF FeatureInv, HasSwitch
<1>7. ASSUME Call(7, SetExplicitFeatures) PROVE FeatureInv'
  <2>1. /\ called = 7 /\ called' = 8 /\ on' = SetExplicitFeatures
        /\ FeatureTypeOK' /\ IsConfiguration(config)' /\ UNCHANGED config
        /\ <<"profile", "off-the-record">> \in config => HasSwitch("disable-databases")
    BY <1>7, <1>1, CallKeeps, TablesType
  <2>2. \A f \in {"EventPath", "Database", "WebGPU"} :
           ~Explicit(f) => (f \in on' <=> f \in on)
    BY <2>1 DEF SetExplicitFeatures, FeaturesFromSwitch, Explicit
  <2>3. EventPathFits' /\ DatabaseFits' /\ WebGPUFits'
    BY <2>1, <2>2 DEF FeatureInv, EventPathFits, DatabaseFits, WebGPUFits, HasSwitch,
                      Explicit
  <2>4. DisabledAreOff'
    BY <2>1 DEF DisabledAreOff, SetExplicitFeatures, FeaturesFromSwitch
  <2> QED
    BY <2>1, <2>3, <2>4 DEF FeatureInv, HasSwitch
<1>8. ASSUME Call(8, ResolveInvalidConfigurations) PROVE FeatureInv'
  <2>1. /\ called = 8 /\ called' = 9 /\ on' = ResolveInvalidConfigurations
        /\ FeatureTypeOK' /\ IsConfiguration(config)' /\ UNCHANGED config
        /\ <<"profile", "off-the-record">> \in config => HasSwitch("disable-databases")
    BY <1>8, <1>1, CallKeeps, TablesType
  <2>2. /\ \A f \in {"EventPath", "Database", "WebGPU"} : f \in on' <=> f \in on
        /\ on' \subseteq on
        /\ "Portals" \in on' => IsEnabled("Portals")
    BY <2>1 DEF ResolveInvalidConfigurations
  <2>3. EventPathFits' /\ DatabaseFits' /\ WebGPUFits'
    BY <2>1, <2>2 DEF FeatureInv, EventPathFits, DatabaseFits, WebGPUFits, HasSwitch,
                      Explicit
  <2>4. DisabledAreOff'
    BY <2>1, <2>2 DEF FeatureInv, DisabledAreOff, FeaturesFromSwitch
  <2>5. ("Portals" \in on => IsEnabled("Portals"))'
    BY <2>1, <2>2 DEF IsEnabled
  <2> QED
    BY <2>1, <2>3, <2>4, <2>5 DEF FeatureInv, HasSwitch
<1>9. CASE UNCHANGED featureVars
  BY <1>9 DEF featureVars, FeatureInv, FeatureTypeOK, IsConfiguration, HasSwitch,
              EventPathFits, DatabaseFits, WebGPUFits, DisabledAreOff, Explicit,
              FeaturesFromSwitch, IsEnabled
<1> QED
  BY <1>1, <1>2, <1>3, <1>4, <1>5, <1>6, <1>7, <1>8, <1>9, TablesType DEF FeatureNext

\* For any configuration: what is disabled explicitly, Portals without their
\* base::Feature and, unless an explicit list says otherwise, databases off the
\* record are off; EventPath is as its policy has it, and WebGPU on where
\* --enable-unsafe-webgpu asks for it, again but for an explicit list.
THEOREM SettingsAlwaysPrevail == FeatureSpec => []SettingsPrevail
<1>1. FeatureInv => SettingsPrevail
  BY DEF FeatureInv, SettingsPrevail, EventPathFits, DatabaseFits, WebGPUFits,
         DisabledAreOff
<1> QED
  BY <1>1, FeatureInvInit, FeatureInvNext, PTL DEF FeatureSpec

\* No function turns on anything that is not a feature, or stops half way.
THEOREM FeatureTypeCorrect == FeatureSpec => []FeatureTypeOK
<1>1. FeatureInv => FeatureTypeOK
  BY DEF FeatureInv
<1> QED
  BY <1>1, FeatureInvInit, FeatureInvNext, PTL DEF FeatureSpec
-----------------------------------------------------------------------------
(* The parts together (MCBrowserProcess).                                     *)

\* A run that moves one part is a run of every part: the others stutter.
LEMMA EveryPartIsRun ==
    MCSpec => HostSpec /\ PrioritySpec /\ AllocationSpec /\ MainSpec /\ SettingSpec
              /\ FeatureSpec
<1>1. MCInit => HostInit /\ PriorityInit /\ AllocationInit /\ MainInit /\ SettingInit
                /\ FeatureInit
  BY DEF MCInit
<1>2. [MCNext]_allVars =>
        /\ [HostNext]_hostVars /\ [PriorityNext]_priorityVars
        /\ [AllocationNext]_allocationVars /\ [MainNext]_mainVars
        /\ [SettingNext]_settingVars /\ [FeatureNext]_featureVars
  BY DEF MCNext, allVars
<1> QED
  BY <1>1, <1>2, PTL
     DEF MCSpec, HostSpec, PrioritySpec, AllocationSpec, MainSpec, SettingSpec, FeatureSpec

LEMMA SettingTypeCorrect == SettingSpec => []SettingTypeOK
<1>1. SettingInv => SettingTypeOK
  BY DEF SettingInv
<1> QED
  BY <1>1, SettingInvInit, SettingInvNext, PTL DEF SettingSpec

\* Every member of every part keeps its type, whichever part is moved.
THEOREM TypesAreKept == MCSpec => []TypesOK
<1>1. HostTypeOK /\ PriorityTypeOK /\ AllocationTypeOK /\ MainTypeOK /\ SettingTypeOK
      /\ FeatureTypeOK => TypesOK
  BY DEF TypesOK
<1> QED
  BY <1>1, EveryPartIsRun, HostTypeCorrect, PriorityTypeCorrect, AllocationTypeCorrect,
     MainTypeCorrect, SettingTypeCorrect, FeatureTypeCorrect, PTL

\* The CHECKs and DCHECKs that ChecksHold names hold in every order of launches,
\* deaths, clean-ups, updates and requests.
THEOREM ChecksAlwaysHold == MCSpec => []ChecksHold
<1>1. HostChecksHold /\ LaunchCheckHolds /\ AllocationChecksHold => ChecksHold
  BY DEF ChecksHold
<1> QED
  BY <1>1, EveryPartIsRun, HostChecksNeverFail, LaunchesAsSupposed,
     AllocationNeverFails, PTL
================================================================================
