--------------------------- MODULE SubagentPoolProofs ---------------------------
(* The safety properties of the runner pool, for any number of turns,        *)
(* channels, hosts and crashes: an inductive invariant and one step lemma    *)
(* per action of SubagentPool.                                               *)
EXTENDS SubagentPool, FairQueueProofs, FiniteSetTheorems, WellFoundedInduction, TLAPS

-----------------------------------------------------------------------------
(* Placement *)

(* A non-empty set of naturals has a least element.                          *)
LEMMA LeastNatural ==
    ASSUME NEW S, S \subseteq Nat, S # {}
    PROVE  \E m \in S : \A n \in S : m <= n
<1>1. PICK m \in S : \A n \in S : ~(<< n, m >> \in OpToRel(<, Nat))
    BY NatLessThanWellFounded, WFMin
<1>2. ASSUME NEW n \in S PROVE m <= n
    <2>1. << n, m >> \in Nat \X Nat /\ ~(n < m)
        BY <1>1 DEF OpToRel
    <2>2. QED
        BY <2>1
<1>3. QED
    BY <1>2

(* When some runner has room, leastLoaded() names one that does.             *)
LEMMA LeastLoadedOpen ==
    ASSUME TypeOK, HasRoom
    PROVE  LeastLoaded \in runners /\ HasRoomOn(LeastLoaded)
<1>1. /\ runners \subseteq Hosts /\ inFlight \in [Hosts -> Nat] /\ Hosts \subseteq Nat
    BY PoolConstants DEF TypeOK, Hosts
<1> DEFINE open == {r \in runners : HasRoomOn(r)}
           loads == {inFlight[r] : r \in open}
<1>2. open # {} /\ open \subseteq Hosts
    BY <1>1 DEF HasRoom
<1>3. loads \subseteq Nat /\ loads # {}
    BY <1>1, <1>2
<1>4. PICK n \in loads : \A m \in loads : n <= m
    BY <1>3, LeastNatural
<1> DEFINE best == {r \in open : inFlight[r] = n}
<1>5. best \subseteq Nat /\ best # {}
    BY <1>1, <1>2, <1>4
<1>6. PICK r \in best : \A s \in best : r <= s
    BY <1>5, LeastNatural
<1>7. ASSUME NEW s \in runners, HasRoomOn(s)
      PROVE  inFlight[r] < inFlight[s] \/ (inFlight[r] = inFlight[s] /\ r <= s)
    <2>1. inFlight[s] \in loads /\ inFlight[s] \in Nat /\ n \in Nat
        BY <1>1, <1>3, <1>4, <1>7
    <2>2. CASE inFlight[s] = n
        BY <1>6, <1>7, <2>2
    <2>3. CASE inFlight[s] # n
        BY <1>4, <1>6, <2>1, <2>3
    <2>4. QED
        BY <2>2, <2>3
<1>8. \E x \in runners :
        /\ HasRoomOn(x)
        /\ \A s \in runners : HasRoomOn(s) =>
              inFlight[x] < inFlight[s] \/ (inFlight[x] = inFlight[s] /\ x <= s)
    BY <1>6, <1>7
<1>9. QED
    BY <1>8 DEF LeastLoaded

(* place() answers a listed live host below its admission limit.             *)
LEMMA PlaceLive ==
    ASSUME TypeOK, RoutesLive, NEW t \in Turns, Place(t) # NoHost
    PROVE  /\ Place(t) \in runners /\ Place(t) \in Hosts /\ Place(t) \notin dead
           /\ inFlight[Place(t)] < MaxTurns
<1>1. ChannelOf[t] \in Channels /\ runners \subseteq Hosts
    BY PoolConstants DEF TypeOK
<1>2. CASE route[ChannelOf[t]] # NoHost /\ route[ChannelOf[t]] \notin dead
    BY <1>1, <1>2 DEF Place, RoutesLive
<1>3. CASE ~(route[ChannelOf[t]] # NoHost /\ route[ChannelOf[t]] \notin dead)
    <2>1. HasRoom /\ Place(t) = LeastLoaded
        BY <1>3 DEF Place
    <2>2. QED
        BY <1>1, <2>1, LeastLoadedOpen DEF HasRoomOn
<1>4. QED
    BY <1>2, <1>3

-----------------------------------------------------------------------------
(* The inductive invariant *)

(* States of a turn that nothing has executed yet.                           *)
Waiting == {"new", "cold", "woken", "queued", "awaiting", "refused"}

(* A host no turn was ever placed on.                                        *)
Untouched(h) == h \notin runners /\ inFlight[h] = 0 /\ PlacedOn(h) = {}

(* Hosts not constructed, and the one booting until the pool lists it.       *)
Fresh(h) ==
    \/ h > forked
    \/ spawning # NoSpawn /\ h = spawning.host /\ (phase = "idle" \/ after # "boot")

FreshUntouched == \A h \in Hosts : Fresh(h) => Untouched(h)

SpawnKnown ==
    spawning # NoSpawn => /\ spawning.host <= forked
                          /\ born[spawning.host] = spawning.gen

HandedOver == \A t \in Turns : pc[t] \in Placed => at[t] \in Hosts \X Nat

RanAtMostOnce ==
    \A t \in Turns : /\ pc[t] \in Waiting => ran[t] = {}
                     /\ \E p \in Nat \X Nat : ran[t] \subseteq {p}

QueueKept ==
    /\ QueueHoldsWaiting /\ RotationExact(queue)
    /\ phase = "idle" => deferred = << >>

IInv ==
    /\ TypeOK /\ AdmissionExact /\ HandedOver /\ RoutesLive
    /\ RanAtMostOnce /\ QueueKept
    /\ NoRunnerOfAnOldEpoch /\ WithinCap /\ SpawnKnown /\ FreshUntouched

-----------------------------------------------------------------------------
(* Growth *)

(* What a step that may fork a runner does to the spawn variables.           *)
Growth ==
    \/ UNCHANGED spawnVars
    \/ spawning = NoSpawn /\ Cardinality(runners) < Cap /\ StartSpawn

(* The pool lists finitely many hosts: host ids are a bounded range.         *)
LEMMA RunnersFinite ==
    ASSUME TypeOK
    PROVE  IsFiniteSet(runners) /\ Cardinality(runners) \in Nat
<1>1. IsFiniteSet(Hosts)
    BY PoolConstants, FS_Interval DEF Hosts
<1>2. QED
    BY <1>1, FS_Subset, FS_CardinalityType DEF TypeOK

(* considerGrowth() is the growth step, or nothing at all.                   *)
LEMMA ConsiderGrowthIsGrowth ==
    ASSUME NEW pressure, NEW load, ConsiderGrowth(pressure, load)
    PROVE  Growth
BY DEF ConsiderGrowth, GrowthAllowed, Growth

(* Growth forks a host nothing was placed on and keeps the cap.              *)
LEMMA GrowthKeeps ==
    ASSUME IInv, Growth, UNCHANGED << runners, generation >>
    PROVE  /\ spawning' \in [host : Hosts, gen : Nat] \cup {NoSpawn}
           /\ forked' \in 0 .. MaxHosts /\ born' \in [Hosts -> Nat]
           /\ SpawnKnown' /\ NoRunnerOfAnOldEpoch' /\ WithinCap'
           /\ \A h \in Hosts :
                 h > forked' \/ (spawning' # NoSpawn /\ h = spawning'.host)
                   => h > forked \/ (spawning # NoSpawn /\ h = spawning.host)
<1> USE DEF IInv
<1>1. /\ spawning \in [host : Hosts, gen : Nat] \cup {NoSpawn}
      /\ forked \in 0 .. MaxHosts /\ born \in [Hosts -> Nat]
      /\ generation \in Nat /\ MaxHosts \in Nat /\ runners \subseteq Hosts
    BY PoolConstants DEF TypeOK
<1>2. CASE UNCHANGED spawnVars
    BY <1>1, <1>2 DEF spawnVars, SpawnKnown, NoRunnerOfAnOldEpoch, WithinCap
<1>3. CASE spawning = NoSpawn /\ Cardinality(runners) < Cap /\ StartSpawn
    <2>1. /\ forked + 1 \in Hosts /\ forked' = forked + 1
          /\ spawning' = [host |-> forked + 1, gen |-> generation]
          /\ born' = [born EXCEPT ![forked + 1] = generation]
        BY <1>1, <1>3 DEF StartSpawn, Hosts
    <2>2. SpawnKnown'
        BY <1>1, <2>1 DEF SpawnKnown
    <2>3. forked + 1 \notin runners
        BY <1>1, <2>1 DEF FreshUntouched, Fresh, Untouched
    <2>4. NoRunnerOfAnOldEpoch'
        BY <1>1, <2>1, <2>3 DEF NoRunnerOfAnOldEpoch
    <2>5. WithinCap'
        BY <1>1, <1>3, RunnersFinite, PoolConstants DEF WithinCap
    <2>6. QED
        BY <1>1, <2>1, <2>2, <2>4, <2>5 DEF Hosts
<1>4. QED
    BY <1>2, <1>3 DEF Growth

-----------------------------------------------------------------------------
(* Dispatch *)

(* A settled or not yet placed turn joins a host: that host's load grows by  *)
(* one and every other host's stays.                                         *)
LEMMA PlacedOnGrows ==
    ASSUME TypeOK, NEW t \in Turns, pc[t] \notin Placed, NEW state \in Placed,
           NEW p \in Hosts \X Nat,
           pc' = [pc EXCEPT ![t] = state], at' = [at EXCEPT ![t] = p]
    PROVE  /\ Cardinality(PlacedOn(p[1])') = Cardinality(PlacedOn(p[1])) + 1
           /\ \A h \in Hosts : h # p[1] => PlacedOn(h)' = PlacedOn(h)
<1>1. /\ pc \in [Turns -> {"new"} \cup Unsettled \cup Settled]
      /\ at \in [Turns -> (Hosts \X Nat) \cup {NoProc}]
    BY DEF TypeOK
<1>2. PlacedOn(p[1])' = PlacedOn(p[1]) \cup {t}
    BY <1>1 DEF PlacedOn
<1>3. t \notin PlacedOn(p[1]) /\ IsFiniteSet(PlacedOn(p[1]))
    BY PoolConstants, FS_Subset DEF PlacedOn
<1>4. \A h \in Hosts : h # p[1] => PlacedOn(h)' = PlacedOn(h)
    BY <1>1 DEF PlacedOn
<1>5. QED
    BY <1>2, <1>3, <1>4, FS_AddElement

(* host.run(): the turn is handed to a process of the host and runs there    *)
(* at most now.                                                              *)
LEMMA HostRunKeeps ==
    ASSUME TypeOK, RanAtMostOnce, NEW t \in Turns, pc[t] \in Waiting,
           NEW r \in Hosts, HostRun(t, r)
    PROVE  /\ child' \in [Hosts -> Nat] /\ forks' \in [Hosts -> Nat]
           /\ proc' \in [Procs -> {"none", "boot", "up", "term", "dead", "gone"}]
           /\ running' \subseteq (Hosts \X Nat) \X Channels
           /\ dead' = dead /\ cooling' = cooling
           /\ ran' \in [Turns -> SUBSET (Nat \X Nat)] /\ RanAtMostOnce'
           /\ \E state \in {"awaiting", "posted", "refused"}, p \in {r} \X Nat :
                 pc' = [pc EXCEPT ![t] = state] /\ at' = [at EXCEPT ![t] = p]
<1>1. /\ child \in [Hosts -> Nat] /\ forks \in [Hosts -> Nat]
      /\ proc \in [Procs -> {"none", "boot", "up", "term", "dead", "gone"}]
      /\ running \subseteq (Hosts \X Nat) \X Channels
      /\ ran \in [Turns -> SUBSET (Nat \X Nat)]
      /\ pc \in [Turns -> {"new"} \cup Unsettled \cup Settled]
      /\ at \in [Turns -> (Hosts \X Nat) \cup {NoProc}]
    BY DEF TypeOK

<1>. ChannelOf[t] \in Channels /\ Hosts \subseteq Nat
    BY PoolConstants DEF Hosts
<1>2. /\ << r, child[r] >> \in Hosts \X Nat /\ << r, forks[r] >> \in Hosts \X Nat
      /\ << r, forks[r] + 1 >> \in Hosts \X Nat /\ forks[r] + 1 \in Nat
    BY <1>1
<1>3. \/ /\ pc' = [pc EXCEPT ![t] = "posted"] /\ at' = [at EXCEPT ![t] = << r, child[r] >>]
         /\ ran' = [ran EXCEPT ![t] = @ \cup {<< r, child[r] >>}]
         /\ running' = running \cup {<< << r, child[r] >>, ChannelOf[t] >>}
         /\ UNCHANGED << child, forks, dead, cooling, proc >>
      \/ /\ \E state \in {"posted", "refused"} :
              pc' = [pc EXCEPT ![t] = state] /\ at' = [at EXCEPT ![t] = << r, child[r] >>]
         /\ UNCHANGED << ran, child, forks, dead, cooling, proc, running >>
      \/ /\ pc' = [pc EXCEPT ![t] = "awaiting"] /\ at' = [at EXCEPT ![t] = << r, child[r] >>]
         /\ UNCHANGED << ran, child, forks, dead, cooling, proc, running >>
      \/ /\ pc' = [pc EXCEPT ![t] = "refused"] /\ at' = [at EXCEPT ![t] = << r, forks[r] >>]
         /\ UNCHANGED << ran, child, forks, dead, cooling, proc, running >>
      \/ /\ pc' = [pc EXCEPT ![t] = "awaiting"] /\ at' = [at EXCEPT ![t] = << r, forks[r] + 1 >>]
         /\ forks' = [forks EXCEPT ![r] = forks[r] + 1]
         /\ child' = [child EXCEPT ![r] = forks[r] + 1]
         /\ proc' = [proc EXCEPT ![<< r, forks[r] + 1 >>] = "boot"]
         /\ UNCHANGED << ran, dead, cooling, running >>
    BY DEF HostRun, hostVars
<1>4. /\ child' \in [Hosts -> Nat] /\ forks' \in [Hosts -> Nat]
      /\ proc' \in [Procs -> {"none", "boot", "up", "term", "dead", "gone"}]
      /\ running' \subseteq (Hosts \X Nat) \X Channels
      /\ dead' = dead /\ cooling' = cooling
    BY <1>1, <1>2, <1>3
<1>5. \E state \in {"awaiting", "posted", "refused"}, p \in {r} \X Nat :
         pc' = [pc EXCEPT ![t] = state] /\ at' = [at EXCEPT ![t] = p]
    BY <1>1, <1>2, <1>3
<1>6. ran[t] = {}
    BY DEF RanAtMostOnce
<1>7. ran' \in [Turns -> SUBSET (Nat \X Nat)]
    BY <1>1, <1>2, <1>3
<1>8. RanAtMostOnce'
    <2>1. ASSUME NEW u \in Turns, u # t
          PROVE  pc'[u] = pc[u] /\ ran'[u] = ran[u]
        BY <1>1, <1>3, <2>1
    <2>2. \/ pc'[t] = "posted" /\ ran'[t] = {<< r, child[r] >>}
          \/ ran'[t] = {}
        BY <1>1, <1>3, <1>6
    <2>3. << r, child[r] >> \in Nat \X Nat
        BY <1>1, <1>2
    <2>4. QED
        BY <2>1, <2>2, <2>3 DEF RanAtMostOnce, Waiting
<1>9. QED
    BY <1>4, <1>5, <1>7, <1>8

(* Dispatching a waiting turn to a host with room.                           *)
LEMMA DispatchKeeps ==
    ASSUME IInv, NEW t \in Turns, pc[t] \in Waiting \ Placed,
           NEW r \in runners, r \notin dead, inFlight[r] < MaxTurns,
           Dispatch(t, r), UNCHANGED << runners, generation, phase, after >>
    PROVE  /\ child' \in [Hosts -> Nat] /\ forks' \in [Hosts -> Nat]
           /\ proc' \in [Procs -> {"none", "boot", "up", "term", "dead", "gone"}]
           /\ running' \subseteq (Hosts \X Nat) \X Channels
           /\ dead' = dead /\ cooling' = cooling
           /\ ran' \in [Turns -> SUBSET (Nat \X Nat)] /\ RanAtMostOnce'
           /\ inFlight' \in [Hosts -> Nat]
           /\ route' \in [Channels -> Hosts \cup {NoHost}]
           /\ spawning' \in [host : Hosts, gen : Nat] \cup {NoSpawn}
           /\ forked' \in 0 .. MaxHosts /\ born' \in [Hosts -> Nat]
           /\ at' \in [Turns -> (Hosts \X Nat) \cup {NoProc}] /\ HandedOver'
           /\ \E state \in {"awaiting", "posted", "refused"} : pc' = [pc EXCEPT ![t] = state]
           /\ AdmissionExact' /\ RoutesLive'
           /\ SpawnKnown' /\ NoRunnerOfAnOldEpoch' /\ WithinCap' /\ FreshUntouched'
<1>1. /\ r \in Hosts /\ Hosts \subseteq Nat /\ runners \subseteq Hosts
      /\ inFlight \in [Hosts -> Nat]
      /\ route \in [Channels -> Hosts \cup {NoHost}]
      /\ pc \in [Turns -> {"new"} \cup Unsettled \cup Settled]
      /\ at \in [Turns -> (Hosts \X Nat) \cup {NoProc}]
    <2>1. TypeOK
        BY DEF IInv
    <2>2. Hosts \subseteq Nat
        BY PoolConstants DEF Hosts
    <2>3. QED
        BY <2>1, <2>2 DEF TypeOK
<1>2. /\ inFlight' = [inFlight EXCEPT ![r] = inFlight[r] + 1]
      /\ route' = [route EXCEPT ![ChannelOf[t]] = r]
      /\ HostRun(t, r) /\ ConsiderGrowth(inFlight[r] >= 1, inFlight')
    BY DEF Dispatch
<1>3. /\ child' \in [Hosts -> Nat] /\ forks' \in [Hosts -> Nat]
      /\ proc' \in [Procs -> {"none", "boot", "up", "term", "dead", "gone"}]
      /\ running' \subseteq (Hosts \X Nat) \X Channels
      /\ dead' = dead /\ cooling' = cooling
      /\ ran' \in [Turns -> SUBSET (Nat \X Nat)] /\ RanAtMostOnce'
      /\ \E state \in {"awaiting", "posted", "refused"}, p \in {r} \X Nat :
            pc' = [pc EXCEPT ![t] = state] /\ at' = [at EXCEPT ![t] = p]
    BY <1>1, <1>2, HostRunKeeps DEF IInv
<1>4. PICK state \in {"awaiting", "posted", "refused"}, p \in {r} \X Nat :
         pc' = [pc EXCEPT ![t] = state] /\ at' = [at EXCEPT ![t] = p]
    BY <1>3
<1>5. p \in Hosts \X Nat /\ p[1] = r /\ state \in Placed
    BY <1>1 DEF Placed
<1>6. /\ Cardinality(PlacedOn(r)') = Cardinality(PlacedOn(r)) + 1
      /\ \A h \in Hosts : h # r => PlacedOn(h)' = PlacedOn(h)
    <2>1. TypeOK /\ pc[t] \notin Placed
        BY DEF IInv
    <2>2. /\ Cardinality(PlacedOn(p[1])') = Cardinality(PlacedOn(p[1])) + 1
          /\ \A h \in Hosts : h # p[1] => PlacedOn(h)' = PlacedOn(h)
        BY <1>4, <1>5, <2>1, PlacedOnGrows
    <2>3. QED
        BY <1>5, <2>2
<1>7. /\ at' \in [Turns -> (Hosts \X Nat) \cup {NoProc}] /\ HandedOver'
    BY <1>1, <1>4, <1>5 DEF IInv, HandedOver
<1>8. inFlight' \in [Hosts -> Nat] /\ route' \in [Channels -> Hosts \cup {NoHost}]
    <2>1. inFlight[r] + 1 \in Nat
        BY <1>1
    <2>2. QED
        BY <1>1, <1>2, <2>1
<1>9. AdmissionExact'
    <2>1. ASSUME NEW h \in runners
          PROVE  inFlight'[h] = Cardinality(PlacedOn(h)') /\ inFlight'[h] <= MaxTurns
        <3>1. inFlight[h] = Cardinality(PlacedOn(h)) /\ inFlight[h] <= MaxTurns
            BY DEF IInv, AdmissionExact
        <3>2. CASE h = r
            <4>1. inFlight'[r] = inFlight[r] + 1 /\ inFlight[r] \in Nat /\ MaxTurns \in Nat
                BY <1>1, <1>2, PoolConstants
            <4>2. QED
                BY <1>6, <3>1, <3>2, <4>1
        <3>3. CASE h # r
            BY <1>1, <1>2, <1>6, <3>1, <3>3
        <3>4. QED
            BY <3>2, <3>3
    <2>2. QED
        BY <2>1 DEF AdmissionExact
<1>10. RoutesLive'
    BY <1>1, <1>2, <1>3 DEF IInv, RoutesLive
<1>11. /\ spawning' \in [host : Hosts, gen : Nat] \cup {NoSpawn}
       /\ forked' \in 0 .. MaxHosts /\ born' \in [Hosts -> Nat]
       /\ SpawnKnown' /\ NoRunnerOfAnOldEpoch' /\ WithinCap'
       /\ \A h \in Hosts :
             h > forked' \/ (spawning' # NoSpawn /\ h = spawning'.host)
               => h > forked \/ (spawning # NoSpawn /\ h = spawning.host)
    BY <1>2, ConsiderGrowthIsGrowth, GrowthKeeps
<1>12. FreshUntouched'
    <2>1. ASSUME NEW h \in Hosts, Fresh(h)' PROVE Untouched(h)'
        <3>1. spawning # NoSpawn => UNCHANGED << spawning, forked >>
            BY <1>2 DEF ConsiderGrowth, GrowthAllowed, spawnVars
        <3>2. Fresh(h)
            BY <1>11, <2>1, <3>1 DEF Fresh
        <3>3. Untouched(h) /\ h # r
            BY <3>2 DEF IInv, FreshUntouched, Untouched
        <3>4. h \notin runners' /\ inFlight'[h] = 0 /\ PlacedOn(h)' = {}
            BY <1>1, <1>2, <1>6, <3>3 DEF Untouched
        <3>5. QED
            BY <3>4 DEF Untouched
    <2>2. QED
        BY <2>1 DEF FreshUntouched
<1>13. QED
    BY <1>3, <1>4, <1>7, <1>8, <1>9, <1>10, <1>11, <1>12

-----------------------------------------------------------------------------
(* What a step keeps by leaving variables alone *)

(* Turns that keep their place keep every host's load.                       *)
LEMMA LoadKept ==
    ASSUME IInv, at' = at,
           \A t \in Turns : (pc'[t] \in Placed) <=> (pc[t] \in Placed)
    PROVE  HandedOver' /\ \A h : PlacedOn(h)' = PlacedOn(h)
BY DEF IInv, HandedOver, PlacedOn

(* Admission stays exact when neither the list nor any load changes.         *)
LEMMA AdmissionKept ==
    ASSUME IInv, runners' \subseteq runners,
           \A h \in runners' : inFlight'[h] = inFlight[h] /\ PlacedOn(h)' = PlacedOn(h)
    PROVE  AdmissionExact'
BY DEF IInv, AdmissionExact

(* A fork in progress keeps its fresh host when no turn moves onto one.      *)
LEMMA FreshKept ==
    ASSUME IInv, runners' \subseteq runners, UNCHANGED << spawning, forked >>,
           UNCHANGED << phase, after >> \/ phase = "idle",
           \A h \in Hosts \ runners : inFlight[h] = 0 => inFlight'[h] = 0,
           \A h \in Hosts \ runners : PlacedOn(h) = {} => PlacedOn(h)' = {}
    PROVE  FreshUntouched'
<1>1. ASSUME NEW h \in Hosts, Fresh(h)' PROVE Untouched(h)'
    <2>1. Fresh(h)
        BY <1>1 DEF Fresh
    <2>2. Untouched(h) /\ h \in Hosts \ runners
        BY <2>1 DEF IInv, FreshUntouched, Untouched
    <2>3. h \notin runners' /\ inFlight'[h] = 0 /\ PlacedOn(h)' = {}
        BY <2>2 DEF Untouched
    <2>4. QED
        BY <2>3 DEF Untouched
<1>2. QED
    BY <1>1 DEF FreshUntouched

(* The queue parts survive a step that leaves queue and waiters alone.       *)
LEMMA QueueUntouched ==
    ASSUME IInv, UNCHANGED << queue, deferred >>,
           \A t \in Turns : (pc'[t] = "queued") <=> (pc[t] = "queued"),
           phase' = "idle" => deferred = << >>
    PROVE  QueueKept'
BY DEF IInv, QueueKept, QueueHoldsWaiting

(* drain() starts from an idle pool, with nothing set aside.                 *)
LEMMA StartDrainKeeps ==
    ASSUME IInv, phase = "idle", NEW then \in {"none", "grow", "force"},
           StartDrain(then)
    PROVE  /\ phase' \in {"idle", "drain", "restore"}
           /\ after' \in {"none", "grow", "force", "boot"}
           /\ deferred = << >>
BY DEF IInv, TypeOK, StartDrain, QueueKept

-----------------------------------------------------------------------------
(* Steps that move no turn *)

(* A step that touches no turn, queue or placement keeps the invariant.      *)
LEMMA IdleTurnsKeep ==
    ASSUME IInv, UNCHANGED << queue, runners, inFlight, pc, at, ran, deferred,
                              generation >>,
           Growth, RoutesLive',
           UNCHANGED << phase, after >> \/ phase = "idle",
           phase' = "idle" => deferred = << >>
    PROVE  /\ AdmissionExact' /\ HandedOver' /\ RoutesLive' /\ RanAtMostOnce'
           /\ QueueKept' /\ NoRunnerOfAnOldEpoch' /\ WithinCap' /\ SpawnKnown'
           /\ FreshUntouched'
<1>1. HandedOver' /\ \A h : PlacedOn(h)' = PlacedOn(h)
    BY LoadKept
<1>2. AdmissionExact'
    BY <1>1, AdmissionKept
<1>3. RanAtMostOnce'
    BY DEF IInv, RanAtMostOnce
<1>4. QueueKept'
    BY QueueUntouched
<1>5. SpawnKnown' /\ NoRunnerOfAnOldEpoch' /\ WithinCap'
    BY GrowthKeeps
<1>6. FreshUntouched'
    <2>1. ASSUME NEW h \in Hosts, Fresh(h)' PROVE Untouched(h)'
        <3>1. spawning # NoSpawn => UNCHANGED << spawning, forked >>
            BY DEF Growth, spawnVars
        <3>2. h > forked \/ (spawning # NoSpawn /\ h = spawning.host)
            BY <2>1, GrowthKeeps DEF Fresh
        <3>3. Fresh(h)
            BY <2>1, <3>1, <3>2 DEF Fresh
        <3>4. QED
            BY <1>1, <3>3 DEF IInv, FreshUntouched, Untouched
    <2>2. QED
        BY <2>1 DEF FreshUntouched
<1>7. QED
    BY <1>1, <1>2, <1>3, <1>4, <1>5, <1>6

(* The drain gives up offering: no room, or an empty queue.                  *)
LEMMA StopOfferingStep == ASSUME IInv, StopOffering PROVE IInv'
<1>1. TypeOK'
    BY DEF IInv, TypeOK, StopOffering, spawnVars, hostVars
<1>2. Growth /\ RoutesLive'
    BY DEF IInv, RoutesLive, StopOffering, hostVars, Growth
<1>3. phase # "idle" /\ phase' = "restore" /\ UNCHANGED after
    BY DEF StopOffering
<1>4. FreshUntouched'
    BY <1>3 DEF IInv, FreshUntouched, Fresh, Untouched, PlacedOn, StopOffering, spawnVars
<1>5. QED
    BY <1>1, <1>2, <1>3, <1>4, LoadKept, AdmissionKept, QueueUntouched, GrowthKeeps
       DEF IInv, StopOffering, RanAtMostOnce

(* A runner process dies; the daemon has not heard of it yet.                *)
LEMMA CrashStep == ASSUME IInv, NEW p \in Procs, Crash(p) PROVE IInv'
<1>1. TypeOK'
    BY DEF IInv, TypeOK, Crash, spawnVars
<1>2. Growth /\ RoutesLive'
    BY DEF IInv, RoutesLive, Crash, Growth
<1>3. phase = "idle" => deferred = << >>
    BY DEF IInv, QueueKept
<1>4. QED
    BY <1>1, <1>2, <1>3, IdleTurnsKeep DEF IInv, Crash

(* A process told to leave exits on its own.                                 *)
LEMMA LeaveStep == ASSUME IInv, NEW p \in Procs, Leave(p) PROVE IInv'
<1>1. TypeOK'
    BY DEF IInv, TypeOK, Leave, spawnVars
<1>2. Growth /\ RoutesLive'
    BY DEF IInv, RoutesLive, Leave, Growth
<1>3. phase = "idle" => deferred = << >>
    BY DEF IInv, QueueKept
<1>4. QED
    BY <1>1, <1>2, <1>3, IdleTurnsKeep DEF IInv, Leave

(* The maintenance tick: stale routes go, idle runners are reaped.           *)
LEMMA MaintainStep == ASSUME IInv, NEW idle \in SUBSET runners, Maintain(idle) PROVE IInv'
<1>1. phase = "idle" /\ StartDrain("force")
    BY DEF Maintain, Quiet
<1>2. /\ phase' \in {"idle", "drain", "restore"} /\ deferred = << >>
      /\ after' \in {"none", "grow", "force", "boot"}
    BY <1>1, StartDrainKeeps
<1>3. /\ child' \in [Hosts -> Nat] /\ timer' \in BOOLEAN
      /\ proc' \in [Procs -> {"none", "boot", "up", "term", "dead", "gone"}]
    BY DEF IInv, TypeOK, Maintain
<1>4. TypeOK'
    BY <1>2, <1>3 DEF IInv, TypeOK, Maintain, spawnVars
<1>5. Growth /\ RoutesLive'
    BY DEF IInv, RoutesLive, Maintain, Growth
<1>6. QED
    BY <1>1, <1>2, <1>4, <1>5, IdleTurnsKeep DEF IInv, Maintain

(* release() up to its await, for one session or from the sweep.             *)
LEMMA AskReleaseStep ==
    ASSUME IInv, NEW c \in Channels, NEW sweep \in BOOLEAN, AskRelease(c, sweep) PROVE IInv'
<1>1. /\ route[c] \in Hosts /\ child[route[c]] \in Nat
      /\ route \in [Channels -> Hosts \cup {NoHost}]
      /\ asked \in [Channels -> [proc : (Hosts \X Nat) \cup {NoProc}, busy : BOOLEAN]]
    BY DEF IInv, TypeOK, AskRelease
<1>2. \/ route' = [route EXCEPT ![c] = NoHost] /\ asked' = asked
      \/ /\ route' = route
         /\ asked' = [asked EXCEPT ![c] =
                [proc |-> << route[c], child[route[c]] >>,
                 busy |-> << << route[c], child[route[c]] >>, c >> \in running]]
    BY DEF AskRelease, Forget
<1>3. /\ route' \in [Channels -> Hosts \cup {NoHost}]
      /\ asked' \in [Channels -> [proc : (Hosts \X Nat) \cup {NoProc}, busy : BOOLEAN]]
    <2> DEFINE p == << route[c], child[route[c]] >>
               question == [proc |-> p, busy |-> << p, c >> \in running]
    <2>1. question \in [proc : (Hosts \X Nat) \cup {NoProc}, busy : BOOLEAN]
        BY <1>1
    <2>2. asked' = asked \/ asked' = [asked EXCEPT ![c] = question]
        BY <1>2
    <2> HIDE DEF question
    <2>3. asked' \in [Channels -> [proc : (Hosts \X Nat) \cup {NoProc}, busy : BOOLEAN]]
        BY <1>1, <2>1, <2>2
    <2>4. QED
        BY <1>1, <1>2, <2>3
<1>4. TypeOK'
    BY <1>3 DEF IInv, TypeOK, AskRelease, spawnVars, hostVars
<1>5. RoutesLive'
    BY <1>1, <1>2 DEF IInv, RoutesLive, AskRelease, hostVars
<1>6. Growth
    BY DEF AskRelease, Growth
<1>7. phase = "idle" => deferred = << >>
    BY DEF IInv, QueueKept
<1>8. QED
    BY <1>4, <1>5, <1>6, <1>7, IdleTurnsKeep DEF IInv, AskRelease

(* release() after its await: an idle channel loses its route.               *)
LEMMA ReleasedStep == ASSUME IInv, NEW c \in Channels, Released(c) PROVE IInv'
<1>1. /\ route \in [Channels -> Hosts \cup {NoHost}]
      /\ asked \in [Channels -> [proc : (Hosts \X Nat) \cup {NoProc}, busy : BOOLEAN]]
    BY DEF IInv, TypeOK
<1>2. /\ route' = route \/ route' = [route EXCEPT ![c] = NoHost]
      /\ asked' = [asked EXCEPT ![c] = [proc |-> NoProc, busy |-> FALSE]]
    BY DEF Released, Forget, NotAsked
<1>3. /\ route' \in [Channels -> Hosts \cup {NoHost}]
      /\ asked' \in [Channels -> [proc : (Hosts \X Nat) \cup {NoProc}, busy : BOOLEAN]]
    BY <1>1, <1>2
<1>4. TypeOK'
    BY <1>3 DEF IInv, TypeOK, Released, spawnVars, hostVars
<1>5. RoutesLive'
    BY <1>1, <1>2 DEF IInv, RoutesLive, Released, hostVars
<1>6. Growth
    BY DEF Released, Growth
<1>7. phase = "idle" => deferred = << >>
    BY DEF IInv, QueueKept
<1>8. QED
    BY <1>4, <1>5, <1>6, <1>7, IdleTurnsKeep DEF IInv, Released

(* A child session announced by a listed runner is pinned to it.             *)
LEMMA NestedEdgeStep ==
    ASSUME IInv, NEW t \in Turns, NEW nested \in Nested, NestedEdge(t, nested) PROVE IInv'
<1>1. /\ route \in [Channels -> Hosts \cup {NoHost}]
      /\ nested \in Channels /\ ChannelOf[t] \in Channels
      /\ pc[t] \in Placed
    BY PoolConstants DEF IInv, TypeOK, NestedEdge, Placed
<1>2. at[t] \in Hosts \X Nat /\ at[t][1] \in Hosts /\ at[t][1] # NoHost
    BY <1>1, PoolConstants DEF IInv, HandedOver
<1>3. /\ route' = [route EXCEPT ![nested] = at[t][1]]
      /\ route[ChannelOf[t]] = at[t][1]
    BY DEF NestedEdge, EdgeAccepted
<1>4. TypeOK'
    BY <1>1, <1>2, <1>3 DEF IInv, TypeOK, NestedEdge, spawnVars, hostVars
<1>5. RoutesLive'
    BY <1>1, <1>2, <1>3 DEF IInv, RoutesLive, NestedEdge, hostVars
<1>6. Growth
    BY DEF NestedEdge, Growth
<1>7. phase = "idle" => deferred = << >>
    BY DEF IInv, QueueKept
<1>8. QED
    BY <1>4, <1>5, <1>6, <1>7, IdleTurnsKeep DEF IInv, NestedEdge

(* A saturated heartbeat streak asks for growth.                             *)
LEMMA HeartbeatStep == ASSUME IInv, Heartbeat PROVE IInv'
<1>1. Growth /\ RoutesLive'
    BY DEF IInv, RoutesLive, Heartbeat, GrowthAllowed, Growth, hostVars
<1>2. TypeOK'
    <2>1. /\ spawning' \in [host : Hosts, gen : Nat] \cup {NoSpawn}
          /\ forked' \in 0 .. MaxHosts /\ born' \in [Hosts -> Nat]
        BY <1>1, GrowthKeeps DEF Heartbeat
    <2>2. QED
        BY <2>1 DEF IInv, TypeOK, Heartbeat, hostVars
<1>3. phase = "idle" => deferred = << >>
    BY DEF IInv, QueueKept
<1>4. QED
    BY <1>1, <1>2, <1>3, IdleTurnsKeep DEF IInv, Heartbeat

-----------------------------------------------------------------------------
(* Steps that move turns *)

(* Any number of turns that nothing executed yet move between states in      *)
(* which they hold no slot, or run in the daemon.                            *)
LEMMA FallBackKeeps ==
    ASSUME IInv, NEW ts \in SUBSET Turns, \A t \in ts : pc[t] \in Waiting,
           FallBack(ts)
    PROVE  /\ pc' \in [Turns -> {"new"} \cup Unsettled \cup Settled]
           /\ ran' \in [Turns -> SUBSET (Nat \X Nat)]
           /\ RanAtMostOnce'
           /\ \A t \in Turns : pc'[t] = IF t \in ts THEN "inprocess" ELSE pc[t]
<1>1. /\ pc \in [Turns -> {"new"} \cup Unsettled \cup Settled]
      /\ ran \in [Turns -> SUBSET (Nat \X Nat)]
    BY DEF IInv, TypeOK
<1>2. /\ pc' = [t \in Turns |-> IF t \in ts THEN "inprocess" ELSE pc[t]]
      /\ ran' = [t \in Turns |-> IF t \in ts THEN ran[t] \cup {Daemon} ELSE ran[t]]
    BY DEF FallBack
<1>3. Daemon \in Nat \X Nat
    BY DEF Daemon
<1>4. /\ pc' \in [Turns -> {"new"} \cup Unsettled \cup Settled]
      /\ ran' \in [Turns -> SUBSET (Nat \X Nat)]
    BY <1>1, <1>2, <1>3 DEF Settled
<1>5. ASSUME NEW t \in Turns
      PROVE  /\ pc'[t] \in Waiting => ran'[t] = {}
             /\ \E p \in Nat \X Nat : ran'[t] \subseteq {p}
    <2>1. /\ pc[t] \in Waiting => ran[t] = {}
          /\ \E p \in Nat \X Nat : ran[t] \subseteq {p}
        BY DEF IInv, RanAtMostOnce
    <2>2. CASE t \in ts
        <3>1. ran'[t] = {Daemon} /\ pc'[t] = "inprocess"
            BY <1>2, <2>1, <2>2
        <3>2. QED
            BY <1>3, <3>1 DEF Waiting
    <2>3. CASE t \notin ts
        BY <1>2, <2>1, <2>3
    <2>4. QED
        BY <2>2, <2>3
<1>6. RanAtMostOnce'
    BY <1>5 DEF RanAtMostOnce
<1>7. QED
    BY <1>2, <1>4, <1>6

(* A placed turn that settles takes its slot off its host's load, if the     *)
(* host is still listed.                                                     *)
LEMMA UnloadKeeps ==
    ASSUME IInv, NEW t \in Turns, pc[t] \in Placed, at' = at,
           UNCHANGED << runners, spawnVars >>, inFlight' = Unload(at[t][1]),
           pc'[t] \notin Placed, \A u \in Turns : u # t => pc'[u] = pc[u],
           phase = "idle"
    PROVE  /\ inFlight' \in [Hosts -> Nat] /\ AdmissionExact' /\ HandedOver'
           /\ FreshUntouched'
<1> DEFINE r == at[t][1]
<1>1. at[t] \in Hosts \X Nat /\ r \in Hosts
    BY DEF IInv, HandedOver
<1>2. /\ inFlight \in [Hosts -> Nat] /\ runners \subseteq Hosts
      /\ inFlight' = [inFlight EXCEPT ![r] = IF r \in runners THEN inFlight[r] - 1 ELSE 0]
    BY DEF IInv, TypeOK, Unload
<1>3. PlacedOn(r)' = PlacedOn(r) \ {t} /\ t \in PlacedOn(r)
    BY DEF PlacedOn
<1>4. IsFiniteSet(PlacedOn(r)) /\ Cardinality(PlacedOn(r)) \in Nat
    BY PoolConstants, FS_Subset, FS_CardinalityType DEF PlacedOn
<1>5. /\ Cardinality(PlacedOn(r)') = Cardinality(PlacedOn(r)) - 1
      /\ Cardinality(PlacedOn(r)) # 0
    <2> DEFINE S == PlacedOn(r)
    <2>1. IsFiniteSet(S) /\ t \in S /\ S # {} /\ PlacedOn(r)' = S \ {t}
        BY <1>3, <1>4
    <2> HIDE DEF S
    <2>2. Cardinality(S) # 0
        BY <2>1, FS_EmptySet
    <2>3. Cardinality(S \ {t}) = Cardinality(S) - 1
        BY <2>1, FS_RemoveElement
    <2>4. QED
        BY <2>1, <2>2, <2>3 DEF S
<1>6. \A h : h # r => PlacedOn(h)' = PlacedOn(h)
    BY DEF PlacedOn
<1>7. HandedOver'
    BY DEF IInv, HandedOver
<1>7a. \A h : h = r => PlacedOn(h)' = PlacedOn(r)'
    BY DEF PlacedOn
<1> HIDE DEF r
<1>8. \A h \in runners : inFlight[h] = Cardinality(PlacedOn(h)) /\ inFlight[h] <= MaxTurns
    BY DEF IInv, AdmissionExact
<1>9. r \in runners => inFlight[r] - 1 \in Nat
    BY <1>1, <1>2, <1>4, <1>5, <1>8
<1>10. inFlight' \in [Hosts -> Nat]
    BY <1>1, <1>2, <1>9
<1>11. AdmissionExact'
    <2>1. ASSUME NEW h \in runners
          PROVE  inFlight'[h] = Cardinality(PlacedOn(h)') /\ inFlight'[h] <= MaxTurns
        <3>1. CASE h = r
            <4>1. inFlight'[h] = inFlight[h] - 1 /\ inFlight[h] \in Nat /\ MaxTurns \in Nat
                BY <1>1, <1>2, <3>1, PoolConstants
            <4>2. inFlight[h] = Cardinality(PlacedOn(r)) /\ inFlight[h] <= MaxTurns
                BY <1>8, <3>1
            <4>3. Cardinality(PlacedOn(h)') = Cardinality(PlacedOn(r)) - 1
                BY <1>5, <1>7a, <3>1
            <4>4. QED
                BY <4>1, <4>2, <4>3
        <3>2. CASE h # r
            BY <1>1, <1>2, <1>6, <1>8, <3>2
        <3>3. QED
            BY <3>1, <3>2
    <2>2. QED
        BY <2>1 DEF AdmissionExact
<1>12. FreshUntouched'
    <2>1. \A h \in Hosts \ runners : inFlight[h] = 0 => inFlight'[h] = 0
        BY <1>1, <1>2
    <2>2. \A h \in Hosts \ runners : PlacedOn(h) = {} => PlacedOn(h)' = {}
        BY <1>3, <1>6
    <2>3. QED
        BY <2>1, <2>2, FreshKept DEF spawnVars
<1>13. QED
    BY <1>7, <1>10, <1>11, <1>12

(* The dispatcher runs a refused turn in the daemon.                         *)
LEMMA SettleRefusedStep == ASSUME IInv, NEW t \in Turns, SettleRefused(t) PROVE IInv'
<1>1. phase = "idle" /\ pc[t] = "refused" /\ StartDrain("none")
    BY DEF SettleRefused
<1>2. /\ phase' \in {"idle", "drain", "restore"} /\ deferred = << >>
      /\ after' \in {"none", "grow", "force", "boot"}
    BY <1>1, StartDrainKeeps
<1>3. /\ pc' \in [Turns -> {"new"} \cup Unsettled \cup Settled]
      /\ ran' \in [Turns -> SUBSET (Nat \X Nat)]
      /\ RanAtMostOnce'
      /\ \A u \in Turns : pc'[u] = IF u = t THEN "inprocess" ELSE pc[u]
    BY <1>1, FallBackKeeps DEF SettleRefused, Waiting
<1>4. /\ inFlight' \in [Hosts -> Nat] /\ AdmissionExact' /\ HandedOver'
      /\ FreshUntouched'
    BY <1>1, <1>3, UnloadKeeps DEF SettleRefused, Placed
<1>5. QueueKept'
    BY <1>1, <1>2, <1>3, QueueUntouched DEF SettleRefused
<1>6. SpawnKnown' /\ NoRunnerOfAnOldEpoch' /\ WithinCap'
    BY GrowthKeeps DEF SettleRefused, Growth
<1>7. TypeOK'
    BY <1>2, <1>3, <1>4 DEF IInv, TypeOK, SettleRefused, spawnVars, hostVars
<1>8. RoutesLive'
    BY DEF IInv, RoutesLive, SettleRefused, hostVars
<1>9. QED
    BY <1>3, <1>4, <1>5, <1>6, <1>7, <1>8 DEF IInv

(* A reply or an error settles a turn and frees its slot.                    *)
LEMMA TurnEndsStep == ASSUME IInv, NEW t \in Turns, TurnEnds(t) PROVE IInv'
<1>1. /\ phase = "idle" /\ pc[t] = "posted" /\ StartDrain("none")
      /\ pc' = [pc EXCEPT ![t] = "done"]
    BY DEF TurnEnds, Quiet
<1>2. /\ phase' \in {"idle", "drain", "restore"} /\ deferred = << >>
      /\ after' \in {"none", "grow", "force", "boot"}
    BY <1>1, StartDrainKeeps
<1>3. pc \in [Turns -> {"new"} \cup Unsettled \cup Settled]
    BY DEF IInv, TypeOK
<1>4. /\ pc' \in [Turns -> {"new"} \cup Unsettled \cup Settled]
      /\ pc'[t] = "done" /\ \A u \in Turns : u # t => pc'[u] = pc[u]
    BY <1>1, <1>3 DEF Settled
<1>5. /\ inFlight' \in [Hosts -> Nat] /\ AdmissionExact' /\ HandedOver'
      /\ FreshUntouched'
    BY <1>1, <1>4, UnloadKeeps DEF TurnEnds, Placed, spawnVars
<1>6. RanAtMostOnce'
    BY <1>4 DEF IInv, RanAtMostOnce, TurnEnds, Waiting
<1>7. QueueKept'
    BY <1>1, <1>2, <1>4, QueueUntouched DEF TurnEnds
<1>8. SpawnKnown' /\ NoRunnerOfAnOldEpoch' /\ WithinCap'
    BY GrowthKeeps DEF TurnEnds, Growth
<1>9. /\ asked' \in [Channels -> [proc : (Hosts \X Nat) \cup {NoProc}, busy : BOOLEAN]]
      /\ running' \subseteq (Hosts \X Nat) \X Channels
    BY DEF IInv, TypeOK, TurnEnds
<1>10. TypeOK'
    BY <1>2, <1>4, <1>5, <1>9 DEF IInv, TypeOK, TurnEnds, spawnVars
<1>11. RoutesLive'
    BY DEF IInv, RoutesLive, TurnEnds
<1>12. QED
    BY <1>5, <1>6, <1>7, <1>8, <1>10, <1>11 DEF IInv

-----------------------------------------------------------------------------
(* run() and the drain *)

(* A turn that finds no room joins the lane of the session that delegated it.*)
LEMMA EnqueueKeeps ==
    ASSUME IInv, NEW t \in Turns, pc[t] \in {"new", "woken"}, phase = "idle",
           Enqueue(t), UNCHANGED << runners, generation, phase, after, deferred >>
    PROVE  /\ queue' \in QueueType(Parents, Turns)
           /\ pc' \in [Turns -> {"new"} \cup Unsettled \cup Settled]
           /\ spawning' \in [host : Hosts, gen : Nat] \cup {NoSpawn}
           /\ forked' \in 0 .. MaxHosts /\ born' \in [Hosts -> Nat]
           /\ AdmissionExact' /\ HandedOver' /\ RoutesLive' /\ RanAtMostOnce'
           /\ QueueKept' /\ NoRunnerOfAnOldEpoch' /\ WithinCap' /\ SpawnKnown'
           /\ FreshUntouched'
<1>1. /\ pc \in [Turns -> {"new"} \cup Unsettled \cup Settled]
      /\ queue \in QueueType(Parents, Turns) /\ ParentOf[t] \in Parents
    BY PoolConstants DEF IInv, TypeOK
<1>2. /\ queue' = Push(queue, ParentOf[t], t)
      /\ pc' = [pc EXCEPT ![t] = "queued"]
      /\ UNCHANGED << inFlight, route, dead, at, ran >>
      /\ Growth
    BY ConsiderGrowthIsGrowth DEF Enqueue, hostVars
<1>3. /\ pc' \in [Turns -> {"new"} \cup Unsettled \cup Settled]
      /\ pc'[t] = "queued" /\ \A u \in Turns : u # t => pc'[u] = pc[u]
    BY <1>1, <1>2 DEF Unsettled
<1>4. HandedOver' /\ \A h : PlacedOn(h)' = PlacedOn(h)
    BY <1>2, <1>3, LoadKept DEF Placed
<1>5. AdmissionExact'
    BY <1>2, <1>4, AdmissionKept
<1>6. RanAtMostOnce'
    BY <1>2, <1>3 DEF IInv, RanAtMostOnce, Waiting
<1>7. RoutesLive'
    BY <1>2 DEF IInv, RoutesLive
<1>8. /\ spawning' \in [host : Hosts, gen : Nat] \cup {NoSpawn}
      /\ forked' \in 0 .. MaxHosts /\ born' \in [Hosts -> Nat]
      /\ SpawnKnown' /\ NoRunnerOfAnOldEpoch' /\ WithinCap'
      /\ \A h \in Hosts :
            h > forked' \/ (spawning' # NoSpawn /\ h = spawning'.host)
              => h > forked \/ (spawning # NoSpawn /\ h = spawning.host)
    BY <1>2, GrowthKeeps
<1>9. FreshUntouched'
    BY <1>2, <1>4, <1>8 DEF IInv, FreshUntouched, Fresh, Untouched
<1>10. deferred = << >> /\ ~Member(deferred, t)
    BY DEF IInv, QueueKept, QueueHoldsWaiting
<1>11. /\ QueueHoldsWaiting /\ RotationExact(queue)
       /\ \A k \in Parents : Once(queue.lanes[k]) /\ ~Holds(queue, k, t)
    BY <1>1 DEF IInv, QueueKept, QueueHoldsWaiting
<1>12. /\ queue' \in QueueType(Parents, Turns)
       /\ \A j \in Parents : \A y : Holds(queue', j, y)
                                 <=> (Holds(queue, j, y) \/ (j = ParentOf[t] /\ y = t))
       /\ \A j \in Parents : Once(queue'.lanes[j])
       /\ RotationExact(queue')
    <2> DEFINE k == ParentOf[t]
               p == Push(queue, k, t)
    <2>1. /\ k \in Parents /\ queue' = p /\ RotationExact(queue)
          /\ ~Holds(queue, k, t) /\ \A j \in Parents : Once(queue.lanes[j])
        BY <1>1, <1>2, <1>11
    <2>2. /\ p \in QueueType(Parents, Turns)
          /\ \A j \in Parents : \A y : Holds(p, j, y)
                                       <=> (Holds(queue, j, y) \/ (j = k /\ y = t))
          /\ \A j \in Parents : Once(p.lanes[j])
          /\ RotationExact(p)
        BY <1>1, <2>1, PushKeeps
    <2> HIDE DEF p
    <2>3. QED
        BY <2>1, <2>2
<1>13. QueueKept'
    <2>1. ASSUME NEW u \in Turns
          PROVE  (pc'[u] = "queued")
                    <=> (Holds(queue', ParentOf[u], u) \/ Member(deferred', u))
        <3>1. ParentOf[u] \in Parents
            BY PoolConstants
        <3>2. QED
            BY <1>3, <1>11, <1>12, <3>1 DEF QueueHoldsWaiting
    <2>2. ASSUME NEW k \in Parents, NEW u \in Turns, Holds(queue', k, u)
          PROVE  k = ParentOf[u] /\ ~Member(deferred', u)
        BY <1>10, <1>11, <1>12, <2>2 DEF QueueHoldsWaiting
    <2>3. QueueHoldsWaiting'
        BY <1>11, <1>12, <2>1, <2>2 DEF QueueHoldsWaiting
    <2>4. QED
        BY <1>10, <1>12, <2>3 DEF QueueKept
<1>14. QED
    BY <1>3, <1>4, <1>5, <1>6, <1>7, <1>8, <1>9, <1>12, <1>13

(* run() finds room, at once or when the spawn it awaited resolves.          *)
LEMMA RunDispatches ==
    ASSUME IInv, NEW t \in Turns, pc[t] \in {"new", "woken"}, phase = "idle",
           Place(t) # NoHost, Dispatch(t, Place(t)),
           UNCHANGED << queue, runners, generation, timer, asked, phase, after,
                        deferred, resets, reaps, crashes, releases >>
    PROVE  IInv'
<1>1. TypeOK /\ RoutesLive
    BY DEF IInv
<1>2. pc \in [Turns -> {"new"} \cup Unsettled \cup Settled]
    BY <1>1 DEF TypeOK
<1>3. /\ Place(t) \in runners /\ Place(t) \notin dead
      /\ inFlight[Place(t)] < MaxTurns /\ pc[t] \in Waiting \ Placed
    BY <1>1, PlaceLive DEF Waiting, Placed
<1>4. /\ child' \in [Hosts -> Nat] /\ forks' \in [Hosts -> Nat]
      /\ proc' \in [Procs -> {"none", "boot", "up", "term", "dead", "gone"}]
      /\ running' \subseteq (Hosts \X Nat) \X Channels
      /\ dead' = dead /\ cooling' = cooling
      /\ ran' \in [Turns -> SUBSET (Nat \X Nat)] /\ RanAtMostOnce'
      /\ inFlight' \in [Hosts -> Nat]
      /\ route' \in [Channels -> Hosts \cup {NoHost}]
      /\ spawning' \in [host : Hosts, gen : Nat] \cup {NoSpawn}
      /\ forked' \in 0 .. MaxHosts /\ born' \in [Hosts -> Nat]
      /\ at' \in [Turns -> (Hosts \X Nat) \cup {NoProc}] /\ HandedOver'
      /\ \E state \in {"awaiting", "posted", "refused"} : pc' = [pc EXCEPT ![t] = state]
      /\ AdmissionExact' /\ RoutesLive'
      /\ SpawnKnown' /\ NoRunnerOfAnOldEpoch' /\ WithinCap' /\ FreshUntouched'
    BY <1>3, DispatchKeeps
<1>5. /\ pc' \in [Turns -> {"new"} \cup Unsettled \cup Settled]
      /\ \A u \in Turns : (pc'[u] = "queued") <=> (pc[u] = "queued")
    BY <1>2, <1>4 DEF Unsettled
<1>6. QueueKept'
    BY <1>5, QueueUntouched DEF IInv, QueueKept
<1>7. TypeOK'
    BY <1>1, <1>4, <1>5 DEF TypeOK
<1>8. QED
    BY <1>4, <1>6, <1>7 DEF IInv

(* run() finds none, and some runner lives to wait for.                      *)
LEMMA RunEnqueues ==
    ASSUME IInv, NEW t \in Turns, pc[t] \in {"new", "woken"}, phase = "idle",
           Enqueue(t),
           UNCHANGED << runners, generation, timer, asked, phase, after,
                        deferred, resets, reaps, crashes, releases >>
    PROVE  IInv'
<1>1. TypeOK
    BY DEF IInv
<1>2. /\ queue' \in QueueType(Parents, Turns)
      /\ pc' \in [Turns -> {"new"} \cup Unsettled \cup Settled]
      /\ spawning' \in [host : Hosts, gen : Nat] \cup {NoSpawn}
      /\ forked' \in 0 .. MaxHosts /\ born' \in [Hosts -> Nat]
      /\ AdmissionExact' /\ HandedOver' /\ RoutesLive' /\ RanAtMostOnce'
      /\ QueueKept' /\ NoRunnerOfAnOldEpoch' /\ WithinCap' /\ SpawnKnown'
      /\ FreshUntouched'
    BY EnqueueKeeps
<1>3. TypeOK'
    BY <1>1, <1>2 DEF TypeOK, Enqueue, hostVars
<1>4. QED
    BY <1>2, <1>3 DEF IInv

(* run(), up to its first await.                                             *)
LEMMA SubmitStep == ASSUME IInv, NEW t \in Turns, Submit(t) PROVE IInv'
<1>1. /\ phase = "idle" /\ pc[t] = "new"
      /\ UNCHANGED << runners, generation, timer, asked, phase, after, deferred,
                      resets, reaps, crashes, releases >>
    BY DEF Submit, Quiet, bounds
<1>2. TypeOK /\ RoutesLive
    BY DEF IInv
<1>3. pc \in [Turns -> {"new"} \cup Unsettled \cup Settled]
    BY <1>2 DEF TypeOK
<1>4. CASE Place(t) # NoHost /\ Dispatch(t, Place(t)) /\ UNCHANGED queue
    BY <1>1, <1>4, RunDispatches
<1>5. CASE /\ Place(t) = NoHost /\ runners = {}
           /\ pc' = [pc EXCEPT ![t] = "cold"]
           /\ IF spawning = NoSpawn THEN StartSpawn ELSE UNCHANGED spawnVars
           /\ UNCHANGED << queue, inFlight, route, hostVars, at, ran >>
    <2>1. Growth
        BY <1>5, PoolConstants, FS_EmptySet DEF Growth
    <2>2. /\ pc' \in [Turns -> {"new"} \cup Unsettled \cup Settled]
          /\ pc'[t] = "cold" /\ \A u \in Turns : u # t => pc'[u] = pc[u]
        BY <1>3, <1>5 DEF Unsettled
    <2>3. HandedOver' /\ \A h : PlacedOn(h)' = PlacedOn(h)
        BY <1>1, <1>5, <2>2, LoadKept DEF Placed
    <2>4. AdmissionExact'
        BY <1>1, <1>5, <2>3, AdmissionKept
    <2>5. RanAtMostOnce'
        BY <1>1, <1>5, <2>2 DEF IInv, RanAtMostOnce, Waiting
    <2>6. QueueKept'
        BY <1>1, <1>5, <2>2, QueueUntouched DEF IInv, QueueKept
    <2>7. /\ spawning' \in [host : Hosts, gen : Nat] \cup {NoSpawn}
          /\ forked' \in 0 .. MaxHosts /\ born' \in [Hosts -> Nat]
          /\ SpawnKnown' /\ NoRunnerOfAnOldEpoch' /\ WithinCap'
          /\ \A h \in Hosts :
                h > forked' \/ (spawning' # NoSpawn /\ h = spawning'.host)
                  => h > forked \/ (spawning # NoSpawn /\ h = spawning.host)
        BY <1>1, <2>1, GrowthKeeps
    <2>8. FreshUntouched'
        BY <1>1, <1>5, <2>3, <2>7 DEF IInv, FreshUntouched, Fresh, Untouched
    <2>9. RoutesLive'
        BY <1>1, <1>2, <1>5 DEF RoutesLive, hostVars
    <2>10. TypeOK'
        BY <1>1, <1>2, <1>5, <2>2, <2>7 DEF TypeOK, hostVars
    <2>11. QED
        BY <2>3, <2>4, <2>5, <2>6, <2>7, <2>8, <2>9, <2>10 DEF IInv
<1>6. CASE Enqueue(t)
    BY <1>1, <1>6, RunEnqueues
<1>7. QED
    BY <1>4, <1>5, <1>6 DEF Submit

(* run() again, once the spawn it awaited has resolved.                      *)
LEMMA WakeStep == ASSUME IInv, NEW t \in Turns, Wake(t) PROVE IInv'
<1>1. /\ phase = "idle" /\ pc[t] = "woken"
      /\ UNCHANGED << runners, generation, timer, asked, phase, after, deferred,
                      resets, reaps, crashes, releases >>
    BY DEF Wake, bounds
<1>2. CASE Place(t) # NoHost /\ Dispatch(t, Place(t)) /\ UNCHANGED queue
    BY <1>1, <1>2, RunDispatches
<1>3. CASE /\ FallBack({t})
           /\ UNCHANGED << queue, inFlight, route, hostVars, spawnVars, at >>
    <2>1. /\ pc' \in [Turns -> {"new"} \cup Unsettled \cup Settled]
          /\ ran' \in [Turns -> SUBSET (Nat \X Nat)]
          /\ RanAtMostOnce'
          /\ \A u \in Turns : pc'[u] = IF u = t THEN "inprocess" ELSE pc[u]
        BY <1>1, <1>3, FallBackKeeps DEF Waiting
    <2>2. HandedOver' /\ \A h : PlacedOn(h)' = PlacedOn(h)
        BY <1>1, <1>3, <2>1, LoadKept DEF Placed
    <2>3. AdmissionExact' /\ FreshUntouched'
        BY <1>1, <1>3, <2>2, AdmissionKept, FreshKept DEF spawnVars
    <2>4. QueueKept'
        BY <1>1, <1>3, <2>1, QueueUntouched DEF IInv, QueueKept
    <2>5. SpawnKnown' /\ NoRunnerOfAnOldEpoch' /\ WithinCap'
        BY <1>1, <1>3, GrowthKeeps DEF Growth
    <2>6. RoutesLive'
        BY <1>1, <1>3 DEF IInv, RoutesLive, hostVars
    <2>7. TypeOK'
        BY <1>1, <1>3, <2>1 DEF IInv, TypeOK, spawnVars, hostVars
    <2>8. QED
        BY <2>1, <2>2, <2>3, <2>4, <2>5, <2>6, <2>7 DEF IInv
<1>4. CASE Enqueue(t)
    BY <1>1, <1>4, RunEnqueues
<1>5. QED
    BY <1>2, <1>3, <1>4 DEF Wake

(* What shift() hands the drain: a turn that was waiting, now held nowhere.  *)
LEMMA ShiftedTurn ==
    ASSUME IInv, ~Exhausted(queue), queue' = ShiftRest(queue), NEW t, t = NextItem(queue)
    PROVE  /\ t \in Turns /\ pc[t] = "queued" /\ ~Member(deferred, t)
           /\ queue' \in QueueType(Parents, Turns) /\ RotationExact(queue')
           /\ \A j \in Parents : Once(queue'.lanes[j])
           /\ \A j \in Parents, u \in Turns :
                 Holds(queue', j, u) <=> (Holds(queue, j, u) /\ u # t)
<1>1. /\ queue \in QueueType(Parents, Turns) /\ RotationExact(queue)
      /\ QueueHoldsWaiting /\ \A j \in Parents : Once(queue.lanes[j])
    BY DEF IInv, TypeOK, QueueKept, QueueHoldsWaiting
<1> DEFINE k == NextKey(queue)
           rest == ShiftRest(queue)
<1>2. /\ k \in Parents /\ t \in Turns /\ Holds(queue, k, t)
      /\ rest \in QueueType(Parents, Turns)
      /\ \A j \in Parents : \A y : Holds(rest, j, y)
            <=> (Holds(queue, j, y) /\ ~(j = k /\ y = t))
      /\ \A j \in Parents : Once(rest.lanes[j])
      /\ RotationExact(rest)
    BY <1>1, ShiftKeeps
<1> HIDE DEF k, rest
<1>3. queue' = rest
    BY DEF rest
<1>4. /\ k = ParentOf[t] /\ ~Member(deferred, t) /\ pc[t] = "queued"
      /\ \A j \in Parents : Holds(queue, j, t) => j = k
    BY <1>1, <1>2 DEF QueueHoldsWaiting
<1>5. \A j \in Parents, u \in Turns :
         Holds(rest, j, u) <=> (Holds(queue, j, u) /\ u # t)
    BY <1>2, <1>4
<1>6. QED
    BY <1>2, <1>3, <1>4, <1>5

(* One iteration of the drain: the turn is placed, or set aside.             *)
LEMMA OfferStep == ASSUME IInv, Offer PROVE IInv'
<1> DEFINE t == NextItem(queue)
<1>1. /\ phase = "drain" /\ ~Exhausted(queue) /\ queue' = ShiftRest(queue)
      /\ UNCHANGED << runners, generation, timer, asked, phase, after,
                      resets, reaps, crashes, releases >>
    BY DEF Offer, MoreToOffer, bounds
<1>2. /\ t \in Turns /\ pc[t] = "queued" /\ ~Member(deferred, t)
      /\ queue' \in QueueType(Parents, Turns) /\ RotationExact(queue')
      /\ \A j \in Parents : Once(queue'.lanes[j])
      /\ \A j \in Parents, u \in Turns :
            Holds(queue', j, u) <=> (Holds(queue, j, u) /\ u # t)
    BY <1>1, ShiftedTurn
<1>3. \/ /\ deferred' = Append(deferred, t)
         /\ UNCHANGED << inFlight, route, hostVars, spawnVars, pc, at, ran >>
      \/ /\ Place(t) # NoHost /\ Dispatch(t, Place(t)) /\ UNCHANGED deferred
    BY DEF Offer
<1> HIDE DEF t
<1>4. /\ QueueHoldsWaiting /\ TypeOK /\ RoutesLive /\ Once(deferred)
      /\ deferred \in Seq(Turns) /\ ParentOf \in [Turns -> Parents]
      /\ pc \in [Turns -> {"new"} \cup Unsettled \cup Settled]
    BY PoolConstants DEF IInv, QueueKept, TypeOK, QueueHoldsWaiting
<1>5. CASE /\ deferred' = Append(deferred, t)
           /\ UNCHANGED << inFlight, route, hostVars, spawnVars, pc, at, ran >>
    <2> DEFINE aside == Append(deferred, t)
    <2>1. /\ aside \in Seq(Turns) /\ Once(aside)
          /\ \A u : Member(aside, u) <=> (Member(deferred, u) \/ u = t)
        BY <1>2, <1>4, AppendMembers
    <2> HIDE DEF aside
    <2>2. deferred' = aside
        BY <1>5 DEF aside
    <2>3. ASSUME NEW u \in Turns
          PROVE  (pc'[u] = "queued")
                    <=> (Holds(queue', ParentOf[u], u) \/ Member(deferred', u))
        BY <1>2, <1>4, <1>5, <2>1, <2>2 DEF QueueHoldsWaiting
    <2>4. ASSUME NEW k \in Parents, NEW u \in Turns, Holds(queue', k, u)
          PROVE  k = ParentOf[u] /\ ~Member(deferred', u)
        BY <1>2, <1>4, <2>1, <2>2, <2>4 DEF QueueHoldsWaiting
    <2>5. QueueKept'
        <3>1. QueueHoldsWaiting'
            BY <1>2, <2>1, <2>2, <2>3, <2>4 DEF QueueHoldsWaiting
        <3>2. QED
            BY <1>1, <1>2, <3>1 DEF QueueKept
    <2>6. HandedOver' /\ \A h : PlacedOn(h)' = PlacedOn(h)
        BY <1>5, LoadKept
    <2>7. AdmissionExact' /\ FreshUntouched'
        BY <1>1, <1>5, <2>6, AdmissionKept, FreshKept DEF spawnVars
    <2>8. SpawnKnown' /\ NoRunnerOfAnOldEpoch' /\ WithinCap'
        BY <1>1, <1>5, GrowthKeeps DEF Growth
    <2>9. RoutesLive' /\ RanAtMostOnce'
        BY <1>1, <1>5 DEF IInv, RoutesLive, RanAtMostOnce, hostVars
    <2>10. TypeOK'
        BY <1>1, <1>2, <1>4, <1>5, <2>1, <2>2 DEF TypeOK, spawnVars, hostVars
    <2>11. QED
        BY <2>5, <2>6, <2>7, <2>8, <2>9, <2>10 DEF IInv
<1>6. CASE Place(t) # NoHost /\ Dispatch(t, Place(t)) /\ UNCHANGED deferred
    <2>1. /\ Place(t) \in runners /\ Place(t) \notin dead
          /\ inFlight[Place(t)] < MaxTurns /\ pc[t] \in Waiting \ Placed
        BY <1>2, <1>4, <1>6, PlaceLive DEF Waiting, Placed
    <2>2. /\ child' \in [Hosts -> Nat] /\ forks' \in [Hosts -> Nat]
          /\ proc' \in [Procs -> {"none", "boot", "up", "term", "dead", "gone"}]
          /\ running' \subseteq (Hosts \X Nat) \X Channels
          /\ dead' = dead /\ cooling' = cooling
          /\ ran' \in [Turns -> SUBSET (Nat \X Nat)] /\ RanAtMostOnce'
          /\ inFlight' \in [Hosts -> Nat]
          /\ route' \in [Channels -> Hosts \cup {NoHost}]
          /\ spawning' \in [host : Hosts, gen : Nat] \cup {NoSpawn}
          /\ forked' \in 0 .. MaxHosts /\ born' \in [Hosts -> Nat]
          /\ at' \in [Turns -> (Hosts \X Nat) \cup {NoProc}] /\ HandedOver'
          /\ \E state \in {"awaiting", "posted", "refused"} : pc' = [pc EXCEPT ![t] = state]
          /\ AdmissionExact' /\ RoutesLive'
          /\ SpawnKnown' /\ NoRunnerOfAnOldEpoch' /\ WithinCap' /\ FreshUntouched'
        BY <1>1, <1>2, <1>6, <2>1, DispatchKeeps
    <2>3. /\ pc' \in [Turns -> {"new"} \cup Unsettled \cup Settled]
          /\ \A u \in Turns : (pc'[u] = "queued") <=> (pc[u] = "queued" /\ u # t)
        BY <1>2, <1>4, <2>2 DEF Unsettled
    <2>4. ASSUME NEW u \in Turns
          PROVE  (pc'[u] = "queued")
                    <=> (Holds(queue', ParentOf[u], u) \/ Member(deferred', u))
        BY <1>2, <1>4, <1>6, <2>3 DEF QueueHoldsWaiting
    <2>5. ASSUME NEW k \in Parents, NEW u \in Turns, Holds(queue', k, u)
          PROVE  k = ParentOf[u] /\ ~Member(deferred', u)
        BY <1>2, <1>4, <1>6, <2>5 DEF QueueHoldsWaiting
    <2>6. QueueKept'
        <3>1. QueueHoldsWaiting'
            BY <1>2, <1>4, <1>6, <2>4, <2>5 DEF QueueHoldsWaiting
        <3>2. QED
            BY <1>1, <1>2, <3>1 DEF QueueKept
    <2>7. TypeOK'
        BY <1>1, <1>2, <1>4, <1>6, <2>2, <2>3 DEF TypeOK
    <2>8. QED
        BY <2>2, <2>6, <2>7 DEF IInv
<1>7. QED
    BY <1>3, <1>5, <1>6

(* The last turn set aside returns to the head of its lane.                  *)
LEMMA PutBackStep == ASSUME IInv, PutBack PROVE IInv'
<1> DEFINE t == deferred[Len(deferred)]
           rest == SubSeq(deferred, 1, Len(deferred) - 1)
           k == ParentOf[t]
           q == Unshift(queue, k, t)
<1>1. /\ phase = "restore" /\ deferred # << >> /\ queue' = q /\ deferred' = rest
      /\ UNCHANGED << runners, inFlight, route, spawnVars, generation, timer,
                      hostVars, pc, at, ran, asked, phase, after, bounds >>
    BY DEF PutBack
<1>2. /\ QueueHoldsWaiting /\ TypeOK /\ Once(deferred) /\ RotationExact(queue)
      /\ deferred \in Seq(Turns) /\ queue \in QueueType(Parents, Turns)
      /\ \A j \in Parents : Once(queue.lanes[j])
    BY DEF IInv, QueueKept, TypeOK, QueueHoldsWaiting
<1>3. /\ Len(deferred) \in Nat \ {0} /\ DOMAIN deferred = 1 .. Len(deferred)
      /\ \A i \in 1 .. Len(deferred) : deferred[i] \in Turns
    BY <1>1, <1>2, EmptySeq, LenProperties
<1>4. t \in Turns /\ Member(deferred, t) /\ k \in Parents
    BY <1>3, PoolConstants DEF Member
<1>5. /\ rest \in Seq(Turns) /\ Len(rest) = Len(deferred) - 1
      /\ \A i \in 1 .. Len(deferred) - 1 : rest[i] = deferred[i]
    BY <1>2, <1>3, SubSeqProperties
<1>6. DOMAIN rest = 1 .. Len(deferred) - 1
    BY <1>5, LenProperties
<1>7. Once(rest) /\ \A u : Member(rest, u) <=> (Member(deferred, u) /\ u # t)
    <2> HIDE DEF rest
    <2>1. Once(rest)
        BY <1>2, <1>3, <1>5, <1>6 DEF Once
    <2>2. ASSUME NEW u, Member(rest, u) PROVE Member(deferred, u) /\ u # t
        <3>1. PICK i \in DOMAIN rest : rest[i] = u
            BY <2>2 DEF Member
        <3>2. i \in DOMAIN deferred /\ deferred[i] = u /\ i # Len(deferred)
            BY <1>3, <1>5, <1>6, <3>1
        <3>3. QED
            BY <1>2, <1>3, <3>2 DEF Member, Once
    <2>3. ASSUME NEW u, Member(deferred, u), u # t PROVE Member(rest, u)
        <3>1. PICK i \in DOMAIN deferred : deferred[i] = u
            BY <2>3 DEF Member
        <3>2. i \in DOMAIN rest /\ rest[i] = u
            BY <1>3, <1>5, <1>6, <2>3, <3>1
        <3>3. QED
            BY <3>2 DEF Member
    <2>4. QED
        BY <2>1, <2>2, <2>3
<1>8. ~Holds(queue, k, t)
    BY <1>2, <1>4 DEF QueueHoldsWaiting
<1>9. /\ q \in QueueType(Parents, Turns)
      /\ \A j \in Parents : \A y : Holds(q, j, y)
                                  <=> (Holds(queue, j, y) \/ (j = k /\ y = t))
      /\ \A j \in Parents : Once(q.lanes[j])
      /\ RotationExact(q)
    BY <1>2, <1>4, <1>8, UnshiftKeeps
<1>10. k = ParentOf[t]
    OBVIOUS
<1> HIDE DEF t, rest, k, q
<1>11. ASSUME NEW u \in Turns
       PROVE  (pc'[u] = "queued")
                 <=> (Holds(queue', ParentOf[u], u) \/ Member(deferred', u))
    <2>1. ParentOf[u] \in Parents
        BY PoolConstants
    <2>2. QED
        BY <1>1, <1>2, <1>4, <1>7, <1>9, <1>10, <2>1 DEF QueueHoldsWaiting
<1>12. ASSUME NEW j \in Parents, NEW u \in Turns, Holds(queue', j, u)
       PROVE  j = ParentOf[u] /\ ~Member(deferred', u)
    BY <1>1, <1>2, <1>4, <1>7, <1>9, <1>10, <1>12 DEF QueueHoldsWaiting
<1>13. QueueKept'
    <2>1. QueueHoldsWaiting'
        BY <1>1, <1>7, <1>9, <1>11, <1>12 DEF QueueHoldsWaiting
    <2>2. QED
        BY <1>1, <1>9, <2>1 DEF QueueKept
<1>14. HandedOver' /\ \A h : PlacedOn(h)' = PlacedOn(h)
    BY <1>1, LoadKept
<1>15. AdmissionExact' /\ FreshUntouched'
    BY <1>1, <1>14, AdmissionKept, FreshKept DEF spawnVars
<1>16. SpawnKnown' /\ NoRunnerOfAnOldEpoch' /\ WithinCap'
    BY <1>1, GrowthKeeps DEF Growth
<1>17. RoutesLive' /\ RanAtMostOnce'
    BY <1>1 DEF IInv, RoutesLive, RanAtMostOnce, hostVars
<1>18. TypeOK'
    BY <1>1, <1>2, <1>5, <1>9 DEF TypeOK, spawnVars, hostVars
<1>19. QED
    BY <1>13, <1>14, <1>15, <1>16, <1>17, <1>18 DEF IInv

(* The turns that awaited a spawn resume; no slot changes hands.             *)
LEMMA WakeColdKeeps ==
    ASSUME IInv, WakeCold, UNCHANGED << at, ran >>
    PROVE  /\ pc' \in [Turns -> {"new"} \cup Unsettled \cup Settled]
           /\ HandedOver' /\ RanAtMostOnce' /\ \A h : PlacedOn(h)' = PlacedOn(h)
           /\ \A t \in Turns : (pc'[t] = "queued") <=> (pc[t] = "queued")
<1>1. /\ pc \in [Turns -> {"new"} \cup Unsettled \cup Settled]
      /\ pc' = [t \in Turns |-> IF pc[t] = "cold" THEN "woken" ELSE pc[t]]
    BY DEF IInv, TypeOK, WakeCold
<1>2. pc' \in [Turns -> {"new"} \cup Unsettled \cup Settled]
    BY <1>1 DEF Unsettled
<1>3. HandedOver' /\ \A h : PlacedOn(h)' = PlacedOn(h)
    BY <1>1, LoadKept DEF Placed
<1>4. RanAtMostOnce'
    BY <1>1 DEF IInv, RanAtMostOnce, Waiting
<1>5. QED
    BY <1>1, <1>2, <1>3, <1>4

(* The microtasks after the last offer.                                      *)
LEMMA DrainEndStep == ASSUME IInv, DrainEnd PROVE IInv'
<1>1. /\ deferred = << >> /\ phase' = "idle" /\ after' = "none"
      /\ UNCHANGED << queue, runners, inFlight, route, generation, timer, hostVars,
                      at, ran, asked, deferred, bounds >>
    BY DEF DrainEnd
<1>2. TypeOK
    BY DEF IInv
<1>3. RoutesLive'
    BY <1>1 DEF IInv, RoutesLive, hostVars
<1>4. CASE after = "boot" /\ spawning' = NoSpawn /\ WakeCold /\ UNCHANGED << forked, born >>
    <2>1. /\ pc' \in [Turns -> {"new"} \cup Unsettled \cup Settled]
          /\ HandedOver' /\ RanAtMostOnce' /\ \A h : PlacedOn(h)' = PlacedOn(h)
          /\ \A t \in Turns : (pc'[t] = "queued") <=> (pc[t] = "queued")
        BY <1>1, <1>4, WakeColdKeeps
    <2>2. AdmissionExact' /\ QueueKept'
        BY <1>1, <2>1, AdmissionKept, QueueUntouched
    <2>3. SpawnKnown' /\ NoRunnerOfAnOldEpoch'
        BY <1>1, <1>4 DEF IInv, SpawnKnown, NoRunnerOfAnOldEpoch
    <2>4. WithinCap'
        BY <1>1, <1>2, <1>4, RunnersFinite, PoolConstants DEF IInv, WithinCap
    <2>5. FreshUntouched'
        BY <1>1, <1>4, <2>1 DEF IInv, FreshUntouched, Fresh, Untouched
    <2>6. TypeOK'
        BY <1>1, <1>2, <1>4, <2>1 DEF TypeOK, hostVars, bounds
    <2>7. QED
        BY <1>3, <2>1, <2>2, <2>3, <2>4, <2>5, <2>6 DEF IInv
<1>5. CASE after # "boot" /\ Growth /\ UNCHANGED pc
    <2>1. HandedOver' /\ \A h : PlacedOn(h)' = PlacedOn(h)
        BY <1>1, <1>5, LoadKept
    <2>2. AdmissionExact' /\ QueueKept' /\ RanAtMostOnce'
        BY <1>1, <1>5, <2>1, AdmissionKept, QueueUntouched DEF IInv, RanAtMostOnce
    <2>3. /\ spawning' \in [host : Hosts, gen : Nat] \cup {NoSpawn}
          /\ forked' \in 0 .. MaxHosts /\ born' \in [Hosts -> Nat]
          /\ SpawnKnown' /\ NoRunnerOfAnOldEpoch' /\ WithinCap'
          /\ \A h \in Hosts :
                h > forked' \/ (spawning' # NoSpawn /\ h = spawning'.host)
                  => h > forked \/ (spawning # NoSpawn /\ h = spawning.host)
        BY <1>1, <1>5, GrowthKeeps
    <2>4. FreshUntouched'
        BY <1>1, <1>5, <2>1, <2>3 DEF IInv, FreshUntouched, Fresh, Untouched
    <2>5. TypeOK'
        BY <1>1, <1>2, <1>5, <2>3 DEF TypeOK, hostVars, bounds
    <2>6. QED
        BY <1>3, <2>1, <2>2, <2>3, <2>4, <2>5 DEF IInv
<1>6. QED
    BY <1>4, <1>5, ConsiderGrowthIsGrowth DEF DrainEnd, Growth

-----------------------------------------------------------------------------
(* Boots *)

(* The host of a boot that settles, seen from an idle pool: nothing runs on  *)
(* it and it is not listed.                                                  *)
LEMMA BootingHost ==
    ASSUME IInv, phase = "idle", spawning # NoSpawn
    PROVE  /\ spawning.host \in Hosts /\ spawning.host \notin runners
           /\ inFlight[spawning.host] = 0 /\ PlacedOn(spawning.host) = {}
           /\ spawning.host <= forked /\ born[spawning.host] = spawning.gen
BY DEF IInv, TypeOK, FreshUntouched, Fresh, Untouched, SpawnKnown

(* A boot that came through joins the pool, or is torn down as an orphan.    *)
LEMMA SpawnReadyStep == ASSUME IInv, SpawnReady PROVE IInv'
<1> DEFINE h == spawning.host
<1>1. /\ phase = "idle" /\ spawning # NoSpawn
      /\ forks' = [forks EXCEPT ![h] = 1]
      /\ child' = [child EXCEPT ![h] = IF spawning.gen = generation THEN 1 ELSE 0]
      /\ proc' = [proc EXCEPT ![<< h, 1 >>] =
                    IF spawning.gen = generation THEN "up" ELSE "term"]
      /\ UNCHANGED << queue, inFlight, route, forked, born, generation, dead,
                      cooling, running, at, ran, asked, deferred, bounds >>
    BY DEF SpawnReady, Quiet
<1>2. /\ h \in Hosts /\ h \notin runners /\ inFlight[h] = 0 /\ PlacedOn(h) = {}
      /\ h <= forked /\ born[h] = spawning.gen
    BY <1>1, BootingHost
<1>3. TypeOK /\ deferred = << >>
    BY <1>1 DEF IInv, QueueKept
<1>4. /\ child' \in [Hosts -> Nat] /\ forks' \in [Hosts -> Nat]
      /\ proc' \in [Procs -> {"none", "boot", "up", "term", "dead", "gone"}]
    BY <1>1, <1>3 DEF TypeOK
<1>5. CASE /\ spawning.gen = generation /\ runners' = runners \cup {h}
           /\ timer' = TRUE /\ phase' = "drain" /\ after' = "boot"
           /\ UNCHANGED << spawning, pc >>
    <2>1. HandedOver' /\ \A x : PlacedOn(x)' = PlacedOn(x)
        BY <1>1, <1>5, LoadKept
    <2>2. AdmissionExact'
        <3>1. inFlight[h] = Cardinality(PlacedOn(h)) /\ inFlight[h] <= MaxTurns
            BY <1>2, FS_EmptySet, PoolConstants
        <3>2. \A x \in runners' : /\ inFlight[x] = Cardinality(PlacedOn(x))
                                  /\ inFlight[x] <= MaxTurns
            BY <1>5, <3>1 DEF IInv, AdmissionExact
        <3>3. QED
            BY <1>1, <2>1, <3>2 DEF AdmissionExact
    <2>3. QueueKept' /\ RanAtMostOnce' /\ RoutesLive'
        BY <1>1, <1>3, <1>5, QueueUntouched DEF IInv, RanAtMostOnce, RoutesLive
    <2>4. SpawnKnown' /\ NoRunnerOfAnOldEpoch'
        BY <1>1, <1>2, <1>5 DEF IInv, SpawnKnown, NoRunnerOfAnOldEpoch
    <2>5. WithinCap'
        <3>1. Cardinality(runners') = Cardinality(runners) + 1
            BY <1>2, <1>3, <1>5, RunnersFinite, FS_AddElement
        <3>2. Cardinality(runners) + 1 <= Cap
            BY <1>1, <1>2, <1>5 DEF IInv, WithinCap
        <3>3. spawning'.host \in runners'
            BY <1>5
        <3>4. QED
            BY <1>3, <3>1, <3>2, <3>3, RunnersFinite DEF WithinCap
    <2>6. FreshUntouched'
        <3>1. ASSUME NEW x \in Hosts, Fresh(x)' PROVE Untouched(x)'
            <4>1. x > forked /\ Fresh(x)
                BY <1>1, <1>5, <3>1 DEF Fresh
            <4>2. x # h /\ Hosts \subseteq Nat /\ forked \in Nat
                <5>1. Hosts \subseteq Nat /\ MaxHosts \in Nat
                    BY PoolConstants DEF Hosts
                <5>2. forked \in Nat
                    BY <1>3, <5>1 DEF TypeOK
                <5>3. QED
                    BY <1>2, <4>1, <5>1, <5>2
            <4>3. QED
                BY <1>1, <1>5, <2>1, <4>1, <4>2 DEF IInv, FreshUntouched, Untouched
        <3>2. QED
            BY <3>1 DEF FreshUntouched
    <2>7. TypeOK'
        BY <1>1, <1>2, <1>3, <1>4, <1>5 DEF TypeOK, bounds
    <2>8. QED
        BY <2>1, <2>2, <2>3, <2>4, <2>5, <2>6, <2>7 DEF IInv
<1>6. CASE /\ spawning' = NoSpawn /\ WakeCold
           /\ UNCHANGED << runners, timer, phase, after >>
    <2>1. /\ pc' \in [Turns -> {"new"} \cup Unsettled \cup Settled]
          /\ HandedOver' /\ RanAtMostOnce' /\ \A x : PlacedOn(x)' = PlacedOn(x)
          /\ \A t \in Turns : (pc'[t] = "queued") <=> (pc[t] = "queued")
        BY <1>1, <1>6, WakeColdKeeps
    <2>2. AdmissionExact' /\ QueueKept' /\ RoutesLive'
        BY <1>1, <1>3, <1>6, <2>1, AdmissionKept, QueueUntouched DEF IInv, RoutesLive
    <2>3. SpawnKnown' /\ NoRunnerOfAnOldEpoch'
        BY <1>1, <1>6 DEF IInv, SpawnKnown, NoRunnerOfAnOldEpoch
    <2>4. WithinCap'
        BY <1>1, <1>3, <1>6, RunnersFinite, PoolConstants DEF IInv, WithinCap
    <2>5. FreshUntouched'
        BY <1>1, <1>6, <2>1 DEF IInv, FreshUntouched, Fresh, Untouched
    <2>6. TypeOK'
        BY <1>1, <1>3, <1>4, <1>6, <2>1 DEF TypeOK, bounds
    <2>7. QED
        BY <2>1, <2>2, <2>3, <2>4, <2>5, <2>6 DEF IInv
<1>7. QED
    BY <1>5, <1>6 DEF SpawnReady

(* A boot that failed leaves its waiters to the daemon.                      *)
LEMMA SpawnFailStep == ASSUME IInv, SpawnFail PROVE IInv'
<1> DEFINE h == spawning.host
           cold == {t \in Turns : pc[t] = "cold"}
<1>1. /\ phase = "idle" /\ spawning # NoSpawn /\ spawning' = NoSpawn
      /\ forks' = [forks EXCEPT ![h] = 1]
      /\ proc' = [proc EXCEPT ![<< h, 1 >>] = "dead"]
      /\ cooling' = cooling \cup {h} /\ FallBack(cold)
      /\ UNCHANGED << queue, runners, inFlight, route, forked, born, generation,
                      timer, child, dead, running, at, asked, phase, after,
                      deferred, bounds >>
    BY DEF SpawnFail, Quiet
<1>2. h \in Hosts
    BY <1>1, BootingHost
<1>3. TypeOK
    BY DEF IInv
<1>4. /\ pc' \in [Turns -> {"new"} \cup Unsettled \cup Settled]
      /\ ran' \in [Turns -> SUBSET (Nat \X Nat)]
      /\ RanAtMostOnce'
      /\ \A t \in Turns : pc'[t] = IF t \in cold THEN "inprocess" ELSE pc[t]
    BY <1>1, FallBackKeeps DEF Waiting
<1>5. HandedOver' /\ \A x : PlacedOn(x)' = PlacedOn(x)
    BY <1>1, <1>4, LoadKept DEF Placed
<1>6. QueueKept'
    BY <1>1, <1>4, QueueUntouched DEF IInv, QueueKept
<1> HIDE DEF h, cold
<1>7. AdmissionExact' /\ RoutesLive'
    BY <1>1, <1>5, AdmissionKept DEF IInv, RoutesLive
<1>8. SpawnKnown' /\ NoRunnerOfAnOldEpoch'
    BY <1>1 DEF IInv, SpawnKnown, NoRunnerOfAnOldEpoch
<1>9. WithinCap'
    BY <1>1, <1>3, RunnersFinite, PoolConstants DEF IInv, WithinCap
<1>10. FreshUntouched'
    BY <1>1, <1>5 DEF IInv, FreshUntouched, Fresh, Untouched
<1>11. TypeOK'
    BY <1>1, <1>2, <1>3, <1>4 DEF TypeOK, bounds
<1>12. QED
    BY <1>4, <1>5, <1>6, <1>7, <1>8, <1>9, <1>10, <1>11 DEF IInv

(* A process forked in place is up: the turns that awaited it run on it.     *)
LEMMA RebootReadyStep == ASSUME IInv, NEW p \in Procs, RebootReady(p) PROVE IInv'
<1> DEFINE waiting == {t \in Turns : pc[t] = "awaiting" /\ at[t] = p}
<1>1. /\ pc' = [t \in Turns |-> IF t \in waiting THEN "posted" ELSE pc[t]]
      /\ ran' = [t \in Turns |-> IF t \in waiting THEN ran[t] \cup {p} ELSE ran[t]]
      /\ running' = running \cup {<< p, ChannelOf[t] >> : t \in waiting}
      /\ proc' = [proc EXCEPT ![p] = "up"]
      /\ UNCHANGED << queue, runners, inFlight, route, spawnVars, generation, timer,
                      child, forks, dead, cooling, at, asked, phase, after, deferred,
                      bounds >>
    BY DEF RebootReady
<1>2. /\ TypeOK /\ RanAtMostOnce /\ p \in Hosts \X Nat /\ p \in Nat \X Nat
      /\ \A t \in Turns : ChannelOf[t] \in Channels
    BY PoolConstants DEF IInv, Procs, Hosts
<1>3. \A t \in Turns : pc'[t] = IF t \in waiting THEN "posted" ELSE pc[t]
    BY <1>1
<1>4. /\ pc' \in [Turns -> {"new"} \cup Unsettled \cup Settled]
      /\ ran' \in [Turns -> SUBSET (Nat \X Nat)]
      /\ running' \subseteq (Hosts \X Nat) \X Channels
      /\ proc' \in [Procs -> {"none", "boot", "up", "term", "dead", "gone"}]
    BY <1>1, <1>2 DEF TypeOK, Unsettled
<1>5. RanAtMostOnce'
    <2>1. ASSUME NEW t \in Turns
          PROVE  /\ pc'[t] \in Waiting => ran'[t] = {}
                 /\ \E q \in Nat \X Nat : ran'[t] \subseteq {q}
        <3>1. CASE t \in waiting
            <4>1. ran[t] = {}
                BY <1>2, <3>1 DEF RanAtMostOnce, Waiting
            <4>2. pc'[t] = "posted" /\ ran'[t] = {p}
                BY <1>1, <3>1, <4>1
            <4>3. QED
                BY <1>2, <4>2 DEF Waiting
        <3>2. CASE t \notin waiting
            BY <1>1, <1>2, <3>2 DEF RanAtMostOnce
        <3>3. QED
            BY <3>1, <3>2
    <2>2. QED
        BY <2>1 DEF RanAtMostOnce
<1>6. HandedOver' /\ \A x : PlacedOn(x)' = PlacedOn(x)
    BY <1>1, <1>3, LoadKept DEF Placed
<1>7. QueueKept'
    BY <1>1, <1>3, QueueUntouched DEF IInv, QueueKept
<1> HIDE DEF waiting
<1>8. AdmissionExact' /\ FreshUntouched'
    BY <1>1, <1>6, AdmissionKept, FreshKept DEF spawnVars
<1>9. SpawnKnown' /\ NoRunnerOfAnOldEpoch' /\ WithinCap'
    BY <1>1, GrowthKeeps DEF Growth
<1>10. RoutesLive'
    BY <1>1 DEF IInv, RoutesLive
<1>11. TypeOK'
    BY <1>1, <1>2, <1>4 DEF TypeOK, spawnVars
<1>12. QED
    BY <1>5, <1>6, <1>7, <1>8, <1>9, <1>10, <1>11 DEF IInv

(* It failed: the turns that awaited it were never started.                  *)
LEMMA RebootFailStep == ASSUME IInv, NEW p \in Procs, RebootFail(p) PROVE IInv'
<1>1. /\ pc' = [t \in Turns |-> IF pc[t] = "awaiting" /\ at[t] = p
                                THEN "refused" ELSE pc[t]]
      /\ proc' = [proc EXCEPT ![p] = "dead"]
      /\ child' = [child EXCEPT ![p[1]] = 0]
      /\ cooling' = cooling \cup {p[1]}
      /\ UNCHANGED << queue, runners, inFlight, route, spawnVars, generation, timer,
                      forks, dead, running, at, ran, asked, phase, after, deferred,
                      bounds >>
    BY DEF RebootFail
<1>2. TypeOK /\ p[1] \in Hosts
    BY DEF IInv, Procs
<1>3. /\ pc' \in [Turns -> {"new"} \cup Unsettled \cup Settled]
      /\ child' \in [Hosts -> Nat] /\ cooling' \subseteq Hosts
      /\ proc' \in [Procs -> {"none", "boot", "up", "term", "dead", "gone"}]
    BY <1>1, <1>2 DEF TypeOK, Unsettled
<1>4. HandedOver' /\ \A x : PlacedOn(x)' = PlacedOn(x)
    BY <1>1, LoadKept DEF Placed
<1>5. RanAtMostOnce'
    BY <1>1 DEF IInv, RanAtMostOnce, Waiting
<1>6. QueueKept'
    BY <1>1, QueueUntouched DEF IInv, QueueKept
<1>7. AdmissionExact' /\ FreshUntouched'
    BY <1>1, <1>4, AdmissionKept, FreshKept DEF spawnVars
<1>8. SpawnKnown' /\ NoRunnerOfAnOldEpoch' /\ WithinCap'
    BY <1>1, GrowthKeeps DEF Growth
<1>9. RoutesLive'
    BY <1>1 DEF IInv, RoutesLive
<1>10. TypeOK'
    BY <1>1, <1>2, <1>3 DEF TypeOK, spawnVars
<1>11. QED
    BY <1>4, <1>5, <1>6, <1>7, <1>8, <1>9, <1>10 DEF IInv

-----------------------------------------------------------------------------
(* Exit and reset *)

(* The exit event settles what the process held and takes its host out.      *)
LEMMA ExitEventStep == ASSUME IInv, NEW p \in Procs, ExitEvent(p) PROVE IInv'
<1> DEFINE h == p[1]
<1>1. /\ phase = "idle" /\ proc' = [proc EXCEPT ![p] = "gone"]
      /\ child' = [child EXCEPT ![h] = IF @ = p[2] THEN 0 ELSE @]
      /\ dead' = dead \cup {h} /\ ExitTurns(p)
      /\ runners' = runners \ {h}
      /\ inFlight' = [inFlight EXCEPT ![h] = 0]
      /\ route' = IF h \notin dead THEN DropRoutes(h) ELSE route
      /\ StartDrain(IF h \notin dead THEN "grow" ELSE "none")
      /\ asked' = [c \in Channels |-> IF asked[c].proc = p THEN NotAsked ELSE asked[c]]
      /\ UNCHANGED << queue, spawnVars, generation, timer, forks, cooling, running,
                      at, ran, deferred, bounds >>
    BY DEF ExitEvent, Quiet
<1>2. TypeOK /\ h \in Hosts
    BY DEF IInv, Procs
<1>3. /\ phase' \in {"idle", "drain", "restore"} /\ deferred = << >>
      /\ after' \in {"none", "grow", "force", "boot"}
    BY <1>1, StartDrainKeeps
<1>4. pc' = [t \in Turns |-> CASE t \in Pending(h) -> "done"
                               [] t \in Booting(p) -> "refused"
                               [] OTHER -> pc[t]]
    BY <1>1 DEF ExitTurns
<1>5. \A t \in Turns :
         \/ pc[t] = "posted" /\ at[t][1] = h /\ pc'[t] = "done"
         \/ pc[t] = "awaiting" /\ at[t] = p /\ pc'[t] = "refused"
         \/ pc'[t] = pc[t]
    BY <1>4 DEF Pending, Booting
<1> HIDE DEF h
<1>6. pc' \in [Turns -> {"new"} \cup Unsettled \cup Settled]
    <2>1. \A t \in Turns : pc'[t] \in {"new"} \cup Unsettled \cup Settled
        BY <1>2, <1>5 DEF TypeOK, Unsettled, Settled
    <2>2. pc' = [t \in Turns |-> pc'[t]]
        BY <1>4
    <2>3. QED
        BY <2>1, <2>2
<1>7. /\ child' \in [Hosts -> Nat] /\ inFlight' \in [Hosts -> Nat]
      /\ proc' \in [Procs -> {"none", "boot", "up", "term", "dead", "gone"}]
      /\ route' \in [Channels -> Hosts \cup {NoHost}]
    BY <1>1, <1>2 DEF TypeOK, DropRoutes
<1>8. asked' \in [Channels -> [proc : (Hosts \X Nat) \cup {NoProc}, busy : BOOLEAN]]
    BY <1>1, <1>2 DEF TypeOK, NotAsked
<1>9. HandedOver'
    BY <1>1, <1>5 DEF IInv, HandedOver, Placed
<1>10. \A t \in Turns : pc'[t] \in Placed => pc[t] \in Placed
    BY <1>5 DEF Placed
<1>11. \A t \in Turns : at[t][1] # h /\ pc[t] \in Placed => pc'[t] \in Placed
    BY <1>5 DEF Placed, h
<1>12. /\ \A x : x # h => PlacedOn(x)' = PlacedOn(x)
       /\ \A x : PlacedOn(x) = {} => PlacedOn(x)' = {}
    BY <1>1, <1>10, <1>11 DEF PlacedOn
<1>13. \A x \in runners' : inFlight'[x] = inFlight[x] /\ PlacedOn(x)' = PlacedOn(x)
    BY <1>1, <1>2, <1>12 DEF TypeOK
<1>14. AdmissionExact'
    BY <1>1, <1>13, AdmissionKept
<1>15. FreshUntouched'
    <2>1. /\ runners' \subseteq runners /\ UNCHANGED << spawning, forked >>
          /\ \A x \in Hosts : inFlight[x] = 0 => inFlight'[x] = 0
        BY <1>1, <1>2 DEF TypeOK, spawnVars
    <2>2. QED
        BY <1>1, <1>12, <2>1, FreshKept
<1>16. RanAtMostOnce'
    <2>1. \A t \in Turns : pc'[t] \in Waiting => pc[t] \in Waiting
        BY <1>5 DEF Waiting
    <2>2. QED
        BY <1>1, <2>1 DEF IInv, RanAtMostOnce
<1>17. QueueKept'
    BY <1>1, <1>3, <1>5, QueueUntouched
<1>18. RoutesLive'
    BY <1>1, <1>2 DEF IInv, TypeOK, RoutesLive, DropRoutes
<1>19. SpawnKnown' /\ NoRunnerOfAnOldEpoch'
    BY <1>1 DEF IInv, SpawnKnown, NoRunnerOfAnOldEpoch, spawnVars
<1>20. WithinCap'
    <2>1. /\ Cardinality(runners') <= Cardinality(runners)
          /\ Cardinality(runners') \in Nat /\ Cardinality(runners) \in Nat
        BY <1>1, <1>2, RunnersFinite, FS_Subset, FS_CardinalityType
    <2>2. spawning # NoSpawn => spawning.host \notin runners
        BY <1>1, BootingHost
    <2>3. QED
        BY <1>1, <2>1, <2>2, PoolConstants DEF IInv, WithinCap, spawnVars
<1>21. TypeOK'
    BY <1>1, <1>2, <1>3, <1>6, <1>7, <1>8 DEF TypeOK, spawnVars, bounds
<1>22. QED
    BY <1>9, <1>14, <1>15, <1>16, <1>17, <1>18, <1>19, <1>20, <1>21 DEF IInv

(* The reload: what waits falls back to the daemon, what is listed is        *)
(* forgotten.                                                                *)
LEMMA ResetStep == ASSUME IInv, Reset PROVE IInv'
<1> DEFINE queued == {t \in Turns : pc[t] = "queued"}
<1>1. /\ phase = "idle" /\ generation' = generation + 1 /\ timer' = FALSE
      /\ resets' = resets + 1 /\ FallBack(queued)
      /\ queue' = EmptyQueue(Parents)
      /\ route' = [c \in Channels |-> NoHost]
      /\ runners' = {} /\ inFlight' = [x \in Hosts |-> 0]
      /\ UNCHANGED << spawnVars, forks, dead, cooling, running, at, asked, phase,
                      after, deferred, reaps, crashes, releases >>
    BY DEF Reset, Quiet
<1>2. TypeOK /\ deferred = << >>
    BY <1>1 DEF IInv, QueueKept
<1>3. /\ child' \in [Hosts -> Nat]
      /\ proc' \in [Procs -> {"none", "boot", "up", "term", "dead", "gone"}]
    BY <1>2 DEF Reset, TypeOK
<1>4. /\ pc' \in [Turns -> {"new"} \cup Unsettled \cup Settled]
      /\ ran' \in [Turns -> SUBSET (Nat \X Nat)]
      /\ RanAtMostOnce'
      /\ \A t \in Turns : pc'[t] = IF t \in queued THEN "inprocess" ELSE pc[t]
    BY <1>1, FallBackKeeps DEF Waiting
<1>5. HandedOver' /\ \A x : PlacedOn(x)' = PlacedOn(x)
    BY <1>1, <1>4, LoadKept DEF Placed
<1>6. \A t \in Turns : pc'[t] # "queued"
    BY <1>4
<1> HIDE DEF queued
<1>7. /\ queue' \in QueueType(Parents, Turns) /\ RotationExact(queue')
      /\ \A k \in Parents : queue'.lanes[k] = << >>
    BY <1>1 DEF EmptyQueue, QueueType, RotationExact, Member, Once
<1>8. QueueKept'
    <2>1. /\ \A t \in Turns : ParentOf[t] \in Parents
          /\ \A k \in Parents : \A t : ~Holds(queue', k, t)
          /\ \A k \in Parents : Once(queue'.lanes[k])
        BY <1>7, PoolConstants DEF Holds, Member, Once
    <2>2. deferred' = << >> /\ Once(deferred') /\ \A t : ~Member(deferred', t)
        BY <1>1, <1>2 DEF Member, Once
    <2>3. QueueHoldsWaiting'
        BY <1>6, <2>1, <2>2 DEF QueueHoldsWaiting
    <2>4. QED
        BY <1>7, <2>2, <2>3 DEF QueueKept
<1>9. AdmissionExact' /\ RoutesLive' /\ NoRunnerOfAnOldEpoch'
    BY <1>1 DEF AdmissionExact, RoutesLive, NoRunnerOfAnOldEpoch
<1>10. SpawnKnown'
    BY <1>1 DEF IInv, SpawnKnown, spawnVars
<1>11. WithinCap'
    <2>1. Cardinality(runners') = 0 /\ Cap \in Nat \ {0}
        BY <1>1, FS_EmptySet, PoolConstants
    <2>2. QED
        BY <2>1 DEF WithinCap
<1>12. FreshUntouched'
    BY <1>1, <1>5 DEF IInv, FreshUntouched, Fresh, Untouched, spawnVars
<1>13. TypeOK'
    <2>1. /\ generation' \in Nat /\ inFlight' \in [Hosts -> Nat]
          /\ route' \in [Channels -> Hosts \cup {NoHost}]
        BY <1>1, <1>2 DEF TypeOK
    <2>2. QED
        BY <1>1, <1>2, <1>3, <1>4, <1>7, <2>1 DEF TypeOK, spawnVars
<1>14. QED
    BY <1>4, <1>5, <1>8, <1>9, <1>10, <1>11, <1>12, <1>13 DEF IInv

-----------------------------------------------------------------------------
(* The theorems *)

(* An empty pool satisfies the invariant.                                    *)
LEMMA InitIInv == ASSUME Init PROVE IInv
<1>1. /\ EmptyQueue(Parents) \in QueueType(Parents, Turns)
      /\ RotationExact(queue) /\ \A k \in Parents : queue.lanes[k] = << >>
    BY DEF Init, EmptyQueue, QueueType, RotationExact, Member, Once
<1>2. TypeOK
    <2>1. /\ asked \in [Channels -> [proc : (Hosts \X Nat) \cup {NoProc}, busy : BOOLEAN]]
          /\ at \in [Turns -> (Hosts \X Nat) \cup {NoProc}]
          /\ ran \in [Turns -> SUBSET (Nat \X Nat)]
        BY DEF Init, NotAsked
    <2>2. /\ forked \in 0 .. MaxHosts /\ queue \in QueueType(Parents, Turns)
          /\ proc \in [Procs -> {"none", "boot", "up", "term", "dead", "gone"}]
          /\ pc \in [Turns -> {"new"} \cup Unsettled \cup Settled]
        BY <1>1, PoolConstants DEF Init
    <2>3. /\ inFlight \in [Hosts -> Nat] /\ route \in [Channels -> Hosts \cup {NoHost}]
          /\ born \in [Hosts -> Nat] /\ child \in [Hosts -> Nat] /\ forks \in [Hosts -> Nat]
          /\ deferred \in Seq(Turns)
        BY DEF Init
    <2>4. QED
        BY <2>1, <2>2, <2>3 DEF Init, TypeOK
<1>3. QueueKept
    <2>1. /\ \A t \in Turns : ParentOf[t] \in Parents
          /\ \A k \in Parents : \A t : ~Holds(queue, k, t)
          /\ \A k \in Parents : Once(queue.lanes[k])
        BY <1>1, PoolConstants DEF Holds, Member, Once
    <2>2. deferred = << >> /\ Once(deferred) /\ \A t : ~Member(deferred, t)
        BY DEF Init, Member, Once
    <2>3. QueueHoldsWaiting
        BY <2>1, <2>2 DEF QueueHoldsWaiting, Init
    <2>4. QED
        BY <1>1, <2>2, <2>3 DEF QueueKept
<1>4. AdmissionExact /\ RoutesLive /\ NoRunnerOfAnOldEpoch /\ SpawnKnown
    BY DEF Init, AdmissionExact, RoutesLive, NoRunnerOfAnOldEpoch, SpawnKnown
<1>5. HandedOver /\ \A h : PlacedOn(h) = {}
    BY DEF Init, HandedOver, PlacedOn, Placed
<1>6. FreshUntouched
    BY <1>5 DEF Init, FreshUntouched, Untouched
<1>7. RanAtMostOnce
    <2>1. << 0, 0 >> \in Nat \X Nat
        OBVIOUS
    <2>2. QED
        BY <2>1 DEF Init, RanAtMostOnce
<1>8. WithinCap
    BY FS_EmptySet, PoolConstants DEF Init, WithinCap
<1>9. QED
    BY <1>2, <1>3, <1>4, <1>5, <1>6, <1>7, <1>8 DEF IInv

(* Every step of the pool keeps it.                                          *)
LEMMA NextIInv == ASSUME IInv, [Next]_vars PROVE IInv'
<1>1. CASE Microtask
    BY <1>1, WakeStep, SettleRefusedStep, OfferStep, StopOfferingStep, PutBackStep,
       DrainEndStep DEF Microtask
<1>2. CASE \E t \in Turns : Submit(t)
    BY <1>2, SubmitStep
<1>3. CASE SpawnSettles
    BY <1>3, SpawnReadyStep, SpawnFailStep DEF SpawnSettles
<1>4. CASE RebootSettles
    BY <1>4, RebootReadyStep, RebootFailStep DEF RebootSettles
<1>5. CASE SomeTurnEnds
    BY <1>5, TurnEndsStep DEF SomeTurnEnds
<1>6. CASE \E p \in Procs : Crash(p)
    BY <1>6, CrashStep
<1>7. CASE SomeLeave \/ SomeExit
    BY <1>7, LeaveStep, ExitEventStep DEF SomeLeave, SomeExit
<1>8. CASE Tick
    BY <1>8, MaintainStep DEF Tick
<1>9. CASE \E c \in Channels, sweep \in BOOLEAN : AskRelease(c, sweep)
    BY <1>9, AskReleaseStep
<1>10. CASE SomeRelease
    BY <1>10, ReleasedStep DEF SomeRelease
<1>11. CASE \E t \in Turns, nested \in Nested : NestedEdge(t, nested)
    BY <1>11, NestedEdgeStep
<1>12. CASE Heartbeat \/ Reset
    BY <1>12, HeartbeatStep, ResetStep
<1>13. CASE UNCHANGED vars
    <2>1. TypeOK'
        BY <1>13 DEF vars, IInv, TypeOK
    <2>2. AdmissionExact' /\ HandedOver' /\ RoutesLive'
        BY <1>13 DEF vars, IInv, AdmissionExact, PlacedOn, HandedOver, RoutesLive
    <2>3. RanAtMostOnce' /\ QueueKept'
        BY <1>13 DEF vars, IInv, RanAtMostOnce, QueueKept, QueueHoldsWaiting
    <2>4. NoRunnerOfAnOldEpoch' /\ WithinCap' /\ SpawnKnown'
        BY <1>13 DEF vars, IInv, NoRunnerOfAnOldEpoch, WithinCap, SpawnKnown
    <2>5. FreshUntouched'
        BY <1>13 DEF vars, IInv, FreshUntouched, Fresh, Untouched, PlacedOn
    <2>6. QED
        BY <2>1, <2>2, <2>3, <2>4, <2>5 DEF IInv
<1>14. QED
    BY <1>1, <1>2, <1>3, <1>4, <1>5, <1>6, <1>7, <1>8, <1>9, <1>10, <1>11, <1>12,
       <1>13 DEF Next

(* The inductive invariant holds in every reachable state of every pool.     *)
THEOREM PoolInvariant == Spec => []IInv
<1>1. QED
    BY InitIInv, NextIInv, PTL DEF Spec

(* Every variable keeps the type the code gives it, whatever the order in    *)
(* which turns, boots, exits, ticks and reloads arrive.                      *)
THEOREM TypeCorrect == Spec => []TypeOK
<1>1. IInv => TypeOK
    BY DEF IInv
<1>2. QED
    BY <1>1, PoolInvariant, PTL

(* pool.ts admits by inFlight: the count is exact on every listed runner and *)
(* never passes MAX_TURNS_PER_RUNNER.                                        *)
THEOREM AdmissionCorrect == Spec => []AdmissionExact
<1>1. IInv => AdmissionExact
    BY DEF IInv
<1>2. QED
    BY <1>1, PoolInvariant, PTL

(* The routing map of pool.ts never names a host that left the pool.         *)
THEOREM RoutesCorrect == Spec => []RoutesLive
<1>1. IInv => RoutesLive
    BY DEF IInv
<1>2. QED
    BY <1>1, PoolInvariant, PTL

(* dispatch.ts falls back to the daemon only for a turn that never started:  *)
(* no turn is executed at two places.                                        *)
THEOREM ExecutionCorrect == Spec => []NoDoubleRun
<1>1. ASSUME IInv, NEW t \in Turns PROVE Cardinality(ran[t]) <= 1
    <2>1. PICK p \in Nat \X Nat : ran[t] \subseteq {p}
        BY <1>1 DEF IInv, RanAtMostOnce
    <2>2. IsFiniteSet({p}) /\ Cardinality({p}) = 1
        BY FS_Singleton
    <2>3. Cardinality(ran[t]) <= Cardinality({p}) /\ Cardinality(ran[t]) \in Nat
        BY <2>1, <2>2, FS_Subset, FS_CardinalityType
    <2>4. QED
        BY <2>2, <2>3
<1>2. IInv => NoDoubleRun
    BY <1>1 DEF NoDoubleRun
<1>3. QED
    BY <1>2, PoolInvariant, PTL

(* The fair queue and the turns the drain sets aside hold each waiting turn  *)
(* exactly once, and nothing else.                                           *)
THEOREM QueueCorrect == Spec => []QueueHoldsWaiting
<1>1. IInv => QueueHoldsWaiting
    BY DEF IInv, QueueKept
<1>2. QED
    BY <1>1, PoolInvariant, PTL

(* reset() cuts epochs cleanly: no listed runner predates the last one.      *)
THEOREM EpochCorrect == Spec => []NoRunnerOfAnOldEpoch
<1>1. IInv => NoRunnerOfAnOldEpoch
    BY DEF IInv
<1>2. QED
    BY <1>1, PoolInvariant, PTL

(* The pool and the fork that would join it never exceed the resolved cap.   *)
THEOREM CapCorrect == Spec => []WithinCap
<1>1. IInv => WithinCap
    BY DEF IInv
<1>2. QED
    BY <1>1, PoolInvariant, PTL

-----------------------------------------------------------------------------
(* The drain *)

(* Every turn set aside, and after the last offer every waiting turn, is one *)
(* no runner may take.                                                       *)
SetAsideUnplaceable ==
    /\ phase = "drain" => \A t \in Turns : Member(deferred, t) => Place(t) = NoHost
    /\ phase = "restore" => \A t \in Turns : pc[t] = "queued" => Place(t) = NoHost

(* A pool without room places nothing: a pinned channel's host is listed.    *)
LEMMA NoRoomNoPlace ==
    ASSUME IInv, ~HasRoom, NEW t \in Turns
    PROVE  Place(t) = NoHost
<1>1. ChannelOf[t] \in Channels
    BY PoolConstants
<1>2. QED
    BY <1>1 DEF IInv, RoutesLive, Place, HasRoom, HasRoomOn

(* Placing one turn makes no room for another.                               *)
LEMMA DispatchOpensNothing ==
    ASSUME IInv, HasRoom, NEW t \in Turns, NEW u \in Turns, Place(t) # NoHost,
           Dispatch(t, Place(t)), UNCHANGED << runners, dead >>, Place(u) = NoHost
    PROVE  Place(u)' = NoHost
<1> DEFINE r == Place(t)
           pin == route[ChannelOf[u]]
<1>1. TypeOK /\ RoutesLive
    BY DEF IInv
<1>2. LeastLoaded \in runners
    BY <1>1, LeastLoadedOpen
<1>3. NoHost \notin runners
    BY <1>1, PoolConstants DEF TypeOK
<1>4. pin # NoHost /\ pin \notin dead /\ ~(inFlight[pin] < MaxTurns)
    BY <1>2, <1>3 DEF Place
<1>5. ChannelOf[u] # ChannelOf[t]
    BY DEF Place
<1>6. /\ ChannelOf[u] \in Channels /\ ChannelOf[t] \in Channels
      /\ inFlight \in [Hosts -> Nat] /\ MaxTurns \in Nat
      /\ route \in [Channels -> Hosts \cup {NoHost}]
    BY <1>1, PoolConstants DEF TypeOK
<1>7. pin \in Hosts /\ r \in Hosts
    BY <1>1, <1>4, <1>6, PlaceLive
<1> HIDE DEF r
<1>8. /\ inFlight' = [inFlight EXCEPT ![r] = inFlight[r] + 1]
      /\ route' = [route EXCEPT ![ChannelOf[t]] = r]
    BY DEF Dispatch, r
<1>9. route'[ChannelOf[u]] = pin
    BY <1>5, <1>6, <1>8
<1>10. ~(inFlight'[pin] < MaxTurns)
    BY <1>4, <1>6, <1>7, <1>8
<1>11. QED
    BY <1>4, <1>9, <1>10 DEF Place

(* Nothing but the drain's own steps runs while a drain is under way.        *)
LEMMA DrainRunsAlone ==
    ASSUME phase # "idle", Next
    PROVE  Offer \/ StopOffering \/ PutBack \/ DrainEnd
BY DEF Next, Microtask, Wake, SettleRefused, Submit, SpawnSettles, SpawnReady, SpawnFail,
       RebootSettles, RebootReady, RebootFail, SomeTurnEnds, TurnEnds, Crash, SomeLeave,
       Leave, SomeExit, ExitEvent, Tick, Maintain, AskRelease, SomeRelease, Released,
       NestedEdge, Heartbeat, Reset, Quiet

(* From an idle pool a step at most opens a drain.                           *)
LEMMA DrainOpens ==
    ASSUME IInv, phase = "idle", Next
    PROVE  phase' # "restore" /\ deferred' = << >>
<1>1. deferred = << >>
    BY DEF IInv, QueueKept
<1>2. CASE Microtask
    BY <1>1, <1>2 DEF Microtask, Wake, SettleRefused, Offer, StopOffering, PutBack,
       DrainEnd, StartDrain
<1>3. CASE SpawnSettles \/ RebootSettles
    BY <1>1, <1>3 DEF SpawnSettles, SpawnReady, SpawnFail, RebootSettles, RebootReady,
       RebootFail
<1>4. CASE SomeTurnEnds \/ SomeLeave \/ SomeExit \/ Tick \/ SomeRelease
    BY <1>1, <1>4 DEF SomeTurnEnds, TurnEnds, SomeLeave, Leave, SomeExit, ExitEvent,
       Tick, Maintain, SomeRelease, Released, StartDrain
<1>5. CASE \/ \E t \in Turns : Submit(t)
           \/ \E p \in Procs : Crash(p)
           \/ \E c \in Channels, sweep \in BOOLEAN : AskRelease(c, sweep)
           \/ \E t \in Turns, nested \in Nested : NestedEdge(t, nested)
           \/ Heartbeat \/ Reset
    BY <1>1, <1>5 DEF Submit, Crash, AskRelease, NestedEdge, Heartbeat, Reset
<1>6. QED
    BY <1>2, <1>3, <1>4, <1>5 DEF Next

(* When there is nothing more to offer, every waiting turn is unplaceable:   *)
(* the pool has no room, or all that waits was set aside.                    *)
LEMMA NothingMoreToOffer ==
    ASSUME IInv, SetAsideUnplaceable, phase = "drain", ~MoreToOffer,
           NEW t \in Turns, pc[t] = "queued"
    PROVE  Place(t) = NoHost
<1>1. CASE ~HasRoom
    BY <1>1, NoRoomNoPlace
<1>2. CASE Exhausted(queue)
    <2>1. /\ queue \in QueueType(Parents, Turns) /\ RotationExact(queue)
          /\ ParentOf[t] \in Parents /\ queue.order = << >>
        BY <1>2, PoolConstants DEF IInv, TypeOK, QueueKept, Exhausted
    <2>2. queue.lanes[ParentOf[t]] = << >>
        BY <2>1 DEF QueueType, RotationExact, Member
    <2>3. ~Holds(queue, ParentOf[t], t)
        BY <2>2 DEF Holds, Member
    <2>4. Member(deferred, t)
        BY <2>3 DEF IInv, QueueKept, QueueHoldsWaiting
    <2>5. QED
        BY <2>4 DEF SetAsideUnplaceable
<1>3. QED
    BY <1>1, <1>2 DEF MoreToOffer

(* One offer of the drain keeps what it set aside unplaceable.               *)
LEMMA OfferSetsAside ==
    ASSUME IInv, SetAsideUnplaceable, Offer
    PROVE  SetAsideUnplaceable'
<1> DEFINE t == NextItem(queue)
<1>1. /\ phase = "drain" /\ phase' = "drain" /\ HasRoom /\ ~Exhausted(queue)
      /\ queue' = ShiftRest(queue) /\ UNCHANGED runners
      /\ \/ /\ Place(t) = NoHost /\ deferred' = Append(deferred, t)
            /\ UNCHANGED << inFlight, route, dead >>
         \/ Place(t) # NoHost /\ Dispatch(t, Place(t)) /\ UNCHANGED << dead, deferred >>
    BY DEF Offer, MoreToOffer, hostVars, Dispatch, HostRun
<1>2. t \in Turns /\ deferred \in Seq(Turns)
    BY <1>1, ShiftedTurn DEF IInv, TypeOK
<1> HIDE DEF t
<1>3. CASE /\ Place(t) = NoHost /\ deferred' = Append(deferred, t)
           /\ UNCHANGED << inFlight, route, dead >>
    <2>1. \A u : Member(deferred', u) <=> (Member(deferred, u) \/ u = t)
        BY <1>2, <1>3, AppendMembers
    <2>2. \A u \in Turns : Place(u)' = Place(u)
        BY <1>1, <1>3 DEF Place, LeastLoaded, HasRoom, HasRoomOn
    <2>3. QED
        BY <1>1, <1>3, <2>1, <2>2 DEF SetAsideUnplaceable
<1>4. CASE Place(t) # NoHost /\ Dispatch(t, Place(t)) /\ UNCHANGED << dead, deferred >>
    <2>1. ASSUME NEW u \in Turns, Member(deferred', u) PROVE Place(u)' = NoHost
        <3>1. Member(deferred, u) /\ Place(u) = NoHost
            BY <1>1, <1>4, <2>1 DEF SetAsideUnplaceable
        <3>2. QED
            BY <1>1, <1>2, <1>4, <3>1, DispatchOpensNothing
    <2>2. QED
        BY <1>1, <2>1 DEF SetAsideUnplaceable
<1>5. QED
    BY <1>1, <1>3, <1>4

(* Every step keeps it.                                                      *)
LEMMA NextSetsAside ==
    ASSUME IInv, SetAsideUnplaceable, [Next]_vars
    PROVE  SetAsideUnplaceable'
<1>1. CASE UNCHANGED vars
    BY <1>1 DEF vars, SetAsideUnplaceable, Place, LeastLoaded, HasRoom, HasRoomOn
<1>2. CASE Next /\ phase = "idle"
    <2>1. phase' # "restore" /\ \A t : ~Member(deferred', t)
        BY <1>2, DrainOpens DEF Member
    <2>2. QED
        BY <2>1 DEF SetAsideUnplaceable
<1>3. CASE Next /\ phase # "idle"
    <2>1. CASE Offer
        BY <2>1, OfferSetsAside
    <2>2. CASE StopOffering
        <3>1. \A t \in Turns : pc[t] = "queued" => Place(t) = NoHost
            BY <2>2, NothingMoreToOffer DEF StopOffering
        <3>2. phase' = "restore" /\ UNCHANGED << pc, runners, route, inFlight, dead >>
            BY <2>2 DEF StopOffering, hostVars
        <3>3. QED
            BY <3>1, <3>2
               DEF SetAsideUnplaceable, Place, LeastLoaded, HasRoom, HasRoomOn
    <2>3. CASE PutBack
        <3>1. /\ phase = "restore" /\ phase' = "restore"
              /\ UNCHANGED << pc, runners, route, inFlight, dead >>
            BY <2>3 DEF PutBack, hostVars
        <3>2. QED
            BY <3>1 DEF SetAsideUnplaceable, Place, LeastLoaded, HasRoom, HasRoomOn
    <2>4. CASE DrainEnd
        BY <2>4 DEF DrainEnd, SetAsideUnplaceable
    <2>5. QED
        BY <1>3, <2>1, <2>2, <2>3, <2>4, DrainRunsAlone
<1>4. QED
    BY <1>1, <1>2, <1>3

(* drain() in pool.ts leaves no room idle: when it ends, no runner may take  *)
(* any turn that still waits.                                                *)
THEOREM DrainCorrect == Spec => DrainExhausts
<1>1. Init => SetAsideUnplaceable
    BY DEF Init, SetAsideUnplaceable
<1>2. Spec => []SetAsideUnplaceable
    BY <1>1, NextSetsAside, PoolInvariant, PTL DEF Spec
<1>3. ASSUME IInv, SetAsideUnplaceable, Next, phase # "idle", phase' = "idle",
             NEW t \in Turns, pc[t] = "queued"
      PROVE  Place(t) = NoHost
    <2>1. DrainEnd
        BY <1>3, DrainRunsAlone DEF Offer, StopOffering, PutBack
    <2>2. phase = "restore" \/ (phase = "drain" /\ ~MoreToOffer)
        BY <2>1 DEF DrainEnd
    <2>3. QED
        BY <1>3, <2>2, NothingMoreToOffer DEF SetAsideUnplaceable
<1>4. ASSUME IInv, SetAsideUnplaceable, [Next]_vars
      PROVE  [phase # "idle" /\ phase' = "idle"
                => \A t \in Turns : pc[t] = "queued" => Place(t) = NoHost]_vars
    BY <1>3, <1>4
<1>5. QED
    BY <1>2, <1>4, PoolInvariant, PTL DEF Spec, DrainExhausts
=============================================================================
