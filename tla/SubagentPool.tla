----------------------------- MODULE SubagentPool -----------------------------
(* The sub-agent runner pool of the daemon: src/subagent/pool.ts, with the   *)
(* process supervision of runnerHost.ts, the fallback of dispatch.ts and the *)
(* release answer of runner.ts.                                              *)
(*                                                                           *)
(* A delegated turn is placed on a runner host, queued, or run in the daemon.*)
(* A host is an entry of the pool; the operating-system processes it forks   *)
(* are <<host, k>>, because a host whose child pointer was cleared forks     *)
(* again on its next turn.  JavaScript runs one event at a time: between two *)
(* events the microtasks of the first one finish, so events are guarded by   *)
(* Quiet and the loops and promise continuations they leave behind are steps *)
(* of their own that nothing but each other can interleave with.             *)
EXTENDS FairQueue, FiniteSets

CONSTANTS
    Turns,          \* delegated turns a parent submits
    Channels,       \* child sessions
    Parents,        \* delegating sessions: the producers of the fair queue
    ChannelOf,      \* the channel a turn runs on
    ParentOf,       \* the session that delegated it
    Nested,         \* channels opened inside a runner by a running turn
    Cap,            \* the resolved pool cap
    MaxTurns,       \* MAX_TURNS_PER_RUNNER
    MaxHosts, MaxResets, MaxReaps, MaxCrashes, MaxReleases,  \* bounds
    NoHost, NoSpawn, NoProc

Hosts == 1 .. MaxHosts
(* A host forks again only after a reap cleared its child.                   *)
Procs == Hosts \X (1 .. MaxReaps + 1)
Daemon == << 0, 0 >>

ASSUME PoolConstants ==
    /\ ChannelOf \in [Turns -> Channels]
    /\ ParentOf \in [Turns -> Parents]
    /\ Nested \subseteq Channels
    /\ Cap \in Nat \ {0} /\ MaxTurns \in Nat \ {0}
    /\ MaxHosts \in Nat /\ MaxReaps \in Nat /\ MaxResets \in Nat
    /\ MaxCrashes \in Nat /\ MaxReleases \in Nat
    /\ NoHost \notin Hosts /\ NoProc \notin Hosts \X Nat
    /\ IsFiniteSet(Turns)

VARIABLES
    queue,      \* turns waiting for room (FairQueue)
    runners,    \* hosts listed in the pool, numbered in the order they joined
    inFlight,   \* host -> turns placed there and not yet settled
    route,      \* channel -> the host holding its session, or NoHost
    spawning,   \* the fork in progress: [host, gen], or NoSpawn
    forked,     \* hosts constructed so far
    generation, \* bumped by every reset
    born,       \* history: host -> generation whose spawn constructed it
    timer,      \* the maintenance interval is armed
    child,      \* host -> k of the process its child pointer names, 0 for null
    forks,      \* host -> processes it has forked
    dead,       \* hosts whose exit path has run
    cooling,    \* hosts refusing to fork since a failed boot
    proc,       \* process -> none, boot, up, term (signalled), dead, gone
    pc,         \* turn -> where its promise stands
    at,         \* turn -> the process it was handed to
    ran,        \* history: turn -> places that executed it
    running,    \* <<process, channel>> in that runner's runningChannels
    asked,      \* channel -> the release in flight: [proc, busy]
    phase,      \* idle, drain (offering), restore (putting back)
    after,      \* what follows the drain: none, grow, force, boot
    deferred,   \* turns the drain set aside, in the order they were shifted
    resets, reaps, crashes, releases   \* counters behind the bounds

queueVars == << queue, deferred >>
hostVars == << child, forks, dead, cooling, proc, running >>
spawnVars == << spawning, forked, born >>
bounds == << resets, reaps, crashes, releases >>
vars == << queue, runners, inFlight, route, spawning, forked, generation, born,
           timer, child, forks, dead, cooling, proc, running, pc, at, ran, asked,
           phase, after, deferred, resets, reaps, crashes, releases >>

Unsettled == {"cold", "woken", "queued", "awaiting", "posted", "refused"}
Settled == {"inprocess", "done"}
Placed == {"awaiting", "posted", "refused"}
Alive == {"boot", "up", "term"}

Quiet ==
    /\ phase = "idle"
    /\ \A t \in Turns : pc[t] \notin {"woken", "refused"}

-----------------------------------------------------------------------------
(* Placement *)

HasRoomOn(r) == r \in runners /\ r \notin dead /\ inFlight[r] < MaxTurns

HasRoom == \E r \in runners : HasRoomOn(r)

(* The least loaded live runner, the earliest listed of equals.              *)
LeastLoaded ==
    CHOOSE r \in runners :
        /\ HasRoomOn(r)
        /\ \A s \in runners : HasRoomOn(s) =>
              inFlight[r] < inFlight[s] \/ (inFlight[r] = inFlight[s] /\ r <= s)

(* A pinned channel goes to its runner or waits for it.                      *)
Place(t) ==
    LET r == route[ChannelOf[t]]
    IN IF r # NoHost /\ r \notin dead
       THEN IF inFlight[r] < MaxTurns THEN r ELSE NoHost
       ELSE IF HasRoom THEN LeastLoaded ELSE NoHost

NotAsked == [proc |-> NoProc, busy |-> FALSE]

HasLiveRunner == runners \ dead # {}

-----------------------------------------------------------------------------
(* Growth and dispatch *)

(* spawn(): one fork at a time; the host is listed only once it is ready.    *)
StartSpawn ==
    /\ forked < MaxHosts
    /\ spawning' = [host |-> forked + 1, gen |-> generation]
    /\ forked' = forked + 1
    /\ born' = [born EXCEPT ![forked + 1] = generation]

(* A slip: growth is checked against the cap it may reach, not exceed.       *)
GrowthPastCap(pressure, load) ==
    /\ pressure /\ runners # {} /\ Cardinality(runners) <= Cap
    /\ spawning = NoSpawn
    /\ \A r \in runners : load[r] >= 1

(* considerGrowth and shouldGrow.  isSaturated needs at least one turn on    *)
(* either arm; whether the heartbeat streak, the cooldown and the free       *)
(* memory also agree is the environment's choice.                            *)
GrowthAllowed(pressure, load) ==
    /\ pressure /\ runners # {} /\ Cardinality(runners) < Cap
    /\ spawning = NoSpawn
    /\ \A r \in runners : load[r] >= 1

ConsiderGrowth(pressure, load) ==
    \/ UNCHANGED spawnVars
    \/ GrowthAllowed(pressure, load) /\ StartSpawn

(* host.run up to its first suspension: hand the turn to the child, wait for *)
(* a child that is booting, fork one when the pointer was cleared, or refuse *)
(* (post() on a closed channel, or a boot that failed recently).             *)
HostRun(t, r) ==
    LET k == child[r]
        fresh == forks[r] + 1
        Handed(state, p) == /\ pc' = [pc EXCEPT ![t] = state]
                            /\ at' = [at EXCEPT ![t] = p]
    IN \/ /\ k # 0 /\ proc[<< r, k >>] = "up"
          /\ Handed("posted", << r, k >>)
          /\ ran' = [ran EXCEPT ![t] = @ \cup {<< r, k >>}]
          /\ running' = running \cup {<< << r, k >>, ChannelOf[t] >>}
          /\ UNCHANGED << child, forks, dead, cooling, proc >>
       \/ /\ k # 0 /\ proc[<< r, k >>] = "dead"
          /\ \E state \in {"posted", "refused"} : Handed(state, << r, k >>)
          /\ UNCHANGED << ran, hostVars >>
       \/ /\ k # 0 /\ proc[<< r, k >>] = "boot"
          /\ Handed("awaiting", << r, k >>)
          /\ UNCHANGED << ran, hostVars >>
       \/ /\ k = 0 /\ r \in cooling
          /\ Handed("refused", << r, forks[r] >>)
          /\ UNCHANGED << ran, hostVars >>
       \/ /\ k = 0 /\ r \notin cooling
          /\ Handed("awaiting", << r, fresh >>)
          /\ forks' = [forks EXCEPT ![r] = fresh]
          /\ child' = [child EXCEPT ![r] = fresh]
          /\ proc' = [proc EXCEPT ![<< r, fresh >>] = "boot"]
          /\ UNCHANGED << ran, dead, cooling, running >>

(* A turn placed on an already saturated runner is a growth signal.          *)
Dispatch(t, r) ==
    /\ inFlight' = [inFlight EXCEPT ![r] = @ + 1]
    /\ route' = [route EXCEPT ![ChannelOf[t]] = r]
    /\ HostRun(t, r)
    /\ ConsiderGrowth(inFlight[r] >= 1, inFlight')

(* A slip: the settled turn stays on the count.                              *)
UnloadLeaks(r) == inFlight

(* A slip: the turn is taken off the count when it settles and by finally.   *)
UnloadTwice(r) == [inFlight EXCEPT ![r] = IF r \in runners THEN @ - 2 ELSE 0]

(* The load a settled turn leaves behind on its host.  A host that left the  *)
(* pool keeps a counter nobody reads.                                        *)
Unload(r) == [inFlight EXCEPT ![r] = IF r \in runners THEN @ - 1 ELSE 0]


(* SubagentRunnerUnavailable reached the dispatcher: the turn runs here.     *)
FallBack(ts) ==
    /\ pc' = [t \in Turns |-> IF t \in ts THEN "inprocess" ELSE pc[t]]
    /\ ran' = [t \in Turns |-> IF t \in ts THEN ran[t] \cup {Daemon} ELSE ran[t]]

(* The turns awaiting the spawn resume once it settled.                      *)
WakeCold == pc' = [t \in Turns |-> IF pc[t] = "cold" THEN "woken" ELSE pc[t]]

(* drain() with nothing queued changes nothing.                              *)
StartDrain(then) ==
    IF ~Exhausted(queue)
    THEN phase' = "drain" /\ after' = then
    ELSE UNCHANGED << phase, after >>

-----------------------------------------------------------------------------
(* run() *)

Enqueue(t) ==
    /\ queue' = Push(queue, ParentOf[t], t)
    /\ pc' = [pc EXCEPT ![t] = "queued"]
    /\ ConsiderGrowth(TRUE, inFlight)
    /\ UNCHANGED << inFlight, route, hostVars, at, ran >>

(* run(), up to its first await.                                             *)
Submit(t) ==
    /\ Quiet /\ pc[t] = "new"
    /\ \/ /\ Place(t) # NoHost
          /\ Dispatch(t, Place(t))
          /\ UNCHANGED queue
       \/ /\ Place(t) = NoHost /\ runners = {}
          /\ pc' = [pc EXCEPT ![t] = "cold"]
          /\ IF spawning = NoSpawn THEN StartSpawn ELSE UNCHANGED spawnVars
          /\ UNCHANGED << queue, inFlight, route, hostVars, at, ran >>
       \/ /\ Place(t) = NoHost /\ runners # {}
          /\ Enqueue(t)
    /\ UNCHANGED << runners, generation, timer, asked, phase, after, deferred,
                    bounds >>

(* run() again, once the spawn it awaited has resolved.                      *)
Wake(t) ==
    /\ phase = "idle" /\ pc[t] = "woken"
    /\ \/ /\ Place(t) # NoHost
          /\ Dispatch(t, Place(t))
          /\ UNCHANGED queue
       \/ /\ Place(t) = NoHost /\ ~HasLiveRunner
          /\ FallBack({t})
          /\ UNCHANGED << queue, inFlight, route, hostVars, spawnVars, at >>
       \/ /\ Place(t) = NoHost /\ HasLiveRunner
          /\ Enqueue(t)
    /\ UNCHANGED << runners, generation, timer, asked, phase, after, deferred,
                    bounds >>

(* The rejected run of a placed turn: its finally, then the fallback.        *)
SettleRefused(t) ==
    /\ phase = "idle" /\ pc[t] = "refused"
    /\ inFlight' = Unload(at[t][1])
    /\ FallBack({t})
    /\ StartDrain("none")
    /\ UNCHANGED << queue, runners, route, spawnVars, generation, timer, hostVars,
                    at, asked, deferred, bounds >>

-----------------------------------------------------------------------------
(* drain(), one iteration at a time *)

(* A slip: the first turn nobody can take blocks the ones behind it.         *)
BlockedByHead == HasRoom /\ ~Exhausted(queue) /\ deferred = << >>

MoreToOffer == HasRoom /\ ~Exhausted(queue)

Offer ==
    /\ phase = "drain" /\ MoreToOffer
    /\ LET t == NextItem(queue)
       IN /\ queue' = ShiftRest(queue)
          /\ IF Place(t) = NoHost
             THEN /\ deferred' = Append(deferred, t)
                  /\ UNCHANGED << inFlight, route, hostVars, spawnVars, pc, at, ran >>
             ELSE /\ Dispatch(t, Place(t))
                  /\ UNCHANGED deferred
    /\ UNCHANGED << runners, generation, timer, asked, phase, after, bounds >>

StopOffering ==
    /\ phase = "drain" /\ ~MoreToOffer /\ deferred # << >>
    /\ phase' = "restore"
    /\ UNCHANGED << queue, runners, inFlight, route, spawnVars, generation, timer,
                    hostVars, pc, at, ran, asked, after, deferred, bounds >>

(* A slip: the last turn set aside is dropped rather than put back.          *)
PutBackDrops ==
    /\ phase = "restore" /\ deferred # << >>
    /\ deferred' = SubSeq(deferred, 1, Len(deferred) - 1)
    /\ UNCHANGED << queue, runners, inFlight, route, spawnVars, generation, timer,
                    hostVars, pc, at, ran, asked, phase, after, bounds >>

(* The set-aside turns return, last first.                                   *)
PutBack ==
    /\ phase = "restore" /\ deferred # << >>
    /\ LET t == deferred[Len(deferred)]
       IN queue' = Unshift(queue, ParentOf[t], t)
    /\ deferred' = SubSeq(deferred, 1, Len(deferred) - 1)
    /\ UNCHANGED << runners, inFlight, route, spawnVars, generation, timer,
                    hostVars, pc, at, ran, asked, phase, after, bounds >>

(* What the caller of drain() does next: the exit path and the tick consider *)
(* growth, the boot path clears this.spawning and resolves its waiters.      *)
DrainEnd ==
    /\ deferred = << >>
    /\ phase = "restore" \/ (phase = "drain" /\ ~MoreToOffer)
    /\ phase' = "idle" /\ after' = "none"
    /\ \/ /\ after = "boot"
          /\ spawning' = NoSpawn /\ WakeCold
          /\ UNCHANGED << forked, born >>
       \/ /\ after \in {"grow", "force"}
          /\ ConsiderGrowth(after = "force" \/ Depth(queue) > 0, inFlight)
          /\ UNCHANGED pc
       \/ /\ after = "none"
          /\ UNCHANGED << spawnVars, pc >>
    /\ UNCHANGED << queue, runners, inFlight, route, generation, timer, hostVars,
                    at, ran, asked, deferred, bounds >>

-----------------------------------------------------------------------------
(* Boots *)

(* A slip: a host booted across a reset joins the new pool.                  *)
SpawnReadyAnyGeneration ==
    /\ Quiet /\ spawning # NoSpawn
    /\ LET h == spawning.host
       IN /\ forks' = [forks EXCEPT ![h] = 1]
          /\ child' = [child EXCEPT ![h] = 1]
          /\ proc' = [proc EXCEPT ![<< h, 1 >>] = "up"]
          /\ runners' = runners \cup {h}
    /\ timer' = TRUE /\ phase' = "drain" /\ after' = "boot"
    /\ UNCHANGED << queue, inFlight, route, spawnVars, generation, dead, cooling, running,
                    pc, at, ran, asked, deferred, bounds >>

(* host.start() resolved.  A reset meanwhile makes the host an orphan: it is *)
(* torn down, and the spawn resolves with nothing listed.                    *)
SpawnReady ==
    /\ Quiet /\ spawning # NoSpawn
    /\ LET h == spawning.host
           mine == spawning.gen = generation
       IN /\ forks' = [forks EXCEPT ![h] = 1]
          /\ child' = [child EXCEPT ![h] = IF mine THEN 1 ELSE 0]
          /\ proc' = [proc EXCEPT ![<< h, 1 >>] = IF mine THEN "up" ELSE "term"]
          /\ \/ /\ mine
                /\ runners' = runners \cup {h}
                /\ timer' = TRUE /\ phase' = "drain" /\ after' = "boot"
                /\ UNCHANGED << spawning, pc >>
             \/ /\ ~mine
                /\ spawning' = NoSpawn /\ WakeCold
                /\ UNCHANGED << runners, timer, phase, after >>
    /\ UNCHANGED << queue, inFlight, route, forked, born, generation, dead, cooling, running,
                    at, ran, asked, deferred, bounds >>

(* The boot failed: build mismatch, refusal, timeout or exit.  Every turn    *)
(* awaiting the spawn falls back to the daemon.                              *)
SpawnFail ==
    /\ Quiet /\ spawning # NoSpawn
    /\ LET h == spawning.host
       IN /\ forks' = [forks EXCEPT ![h] = 1]
          /\ proc' = [proc EXCEPT ![<< h, 1 >>] = "dead"]
          /\ cooling' = cooling \cup {h}
    /\ spawning' = NoSpawn
    /\ FallBack({t \in Turns : pc[t] = "cold"})
    /\ UNCHANGED << queue, runners, inFlight, route, forked, born, generation, timer,
                    child, dead, running, at, asked, phase, after, deferred, bounds >>

(* A process forked in place by host.run reports ready: the turns that       *)
(* awaited it are posted to it.                                              *)
RebootReady(p) ==
    /\ Quiet /\ p[2] > 1 /\ proc[p] = "boot"
    /\ LET waiting == {t \in Turns : pc[t] = "awaiting" /\ at[t] = p}
       IN /\ pc' = [t \in Turns |-> IF t \in waiting THEN "posted" ELSE pc[t]]
          /\ ran' = [t \in Turns |-> IF t \in waiting THEN ran[t] \cup {p} ELSE ran[t]]
          /\ running' = running \cup {<< p, ChannelOf[t] >> : t \in waiting}
    /\ proc' = [proc EXCEPT ![p] = "up"]
    /\ UNCHANGED << queue, runners, inFlight, route, spawnVars, generation, timer,
                    child, forks, dead, cooling, at, asked, phase, after, deferred,
                    bounds >>

(* ... or fails to: ensure() clears the host and starts its cooldown.        *)
RebootFail(p) ==
    /\ Quiet /\ p[2] > 1 /\ proc[p] = "boot"
    /\ pc' = [t \in Turns |-> IF pc[t] = "awaiting" /\ at[t] = p
                              THEN "refused" ELSE pc[t]]
    /\ proc' = [proc EXCEPT ![p] = "dead"]
    /\ child' = [child EXCEPT ![p[1]] = 0]
    /\ cooling' = cooling \cup {p[1]}
    /\ UNCHANGED << queue, runners, inFlight, route, spawnVars, generation, timer,
                    forks, dead, running, at, ran, asked, phase, after, deferred, bounds >>

-----------------------------------------------------------------------------
(* Turns and processes end *)

(* A result or error frame for a pending turn, and the finally of dispatch.  *)
(* The runner's runningChannels is a set: of two turns on one channel the    *)
(* first to end takes the channel out for both.                              *)
TurnEnds(t) ==
    /\ Quiet /\ pc[t] = "posted" /\ proc[at[t]] \in {"up", "term"}
    /\ pc' = [pc EXCEPT ![t] = "done"]
    /\ inFlight' = Unload(at[t][1])
    /\ running' = running \ {<< at[t], ChannelOf[t] >>}
    /\ asked' = [c \in Channels |-> IF c = ChannelOf[t] /\ asked[c].proc = at[t]
                                    THEN [asked[c] EXCEPT !.busy = FALSE]
                                    ELSE asked[c]]
    /\ StartDrain("none")
    /\ UNCHANGED << queue, runners, route, spawnVars, generation, timer, child,
                    forks, dead, cooling, proc, at, ran, deferred, bounds >>

(* The operating-system process dies; the daemon has not heard yet.          *)
Crash(p) ==
    /\ Quiet /\ proc[p] = "up" /\ crashes < MaxCrashes
    /\ proc' = [proc EXCEPT ![p] = "dead"]
    /\ crashes' = crashes + 1
    /\ UNCHANGED << queue, runners, inFlight, route, spawnVars, generation, timer,
                    child, forks, dead, cooling, running, pc, at, ran, asked, phase, after,
                    deferred, resets, reaps, releases >>

(* A signalled process leaves, within the five seconds it grants itself.     *)
Leave(p) ==
    /\ Quiet /\ proc[p] = "term"
    /\ proc' = [proc EXCEPT ![p] = "dead"]
    /\ UNCHANGED << queue, runners, inFlight, route, spawnVars, generation, timer,
                    child, forks, dead, cooling, running, pc, at, ran, asked, phase, after,
                    deferred, bounds >>

(* The turns the exit handler of a host rejects: its pending table is the    *)
(* host's, whichever of its processes a turn was posted to.                  *)
Pending(h) == {t \in Turns : pc[t] = "posted" /\ at[t][1] = h}

(* The turns whose await on the boot of p the exit rejects.                  *)
Booting(p) == {t \in Turns : pc[t] = "awaiting" /\ at[t] = p}

(* A slip: an interrupted turn is reported as one that never started.        *)
ExitTurnsRetryable(p) ==
    pc' = [t \in Turns |-> IF t \in Pending(p[1]) \cup Booting(p)
                           THEN "refused" ELSE pc[t]]

(* A slip: the exit handler leaves the pending table alone.                  *)
ExitTurnsForgotten(p) ==
    pc' = [t \in Turns |-> IF t \in Booting(p) THEN "refused" ELSE pc[t]]

ExitTurns(p) ==
    pc' = [t \in Turns |-> CASE t \in Pending(p[1]) -> "done"
                             [] t \in Booting(p) -> "refused"
                             [] OTHER -> pc[t]]

(* A slip: the exit path forgets the routing map.                            *)
DropRoutesForgotten(h) == route

DropRoutes(h) == [c \in Channels |-> IF route[c] = h THEN NoHost ELSE route[c]]

(* The exit event: settle every pending turn, then, the first time, take the *)
(* host and its routes out of the pool and drain.                            *)
ExitEvent(p) ==
    /\ Quiet /\ proc[p] = "dead"
    /\ LET h == p[1]
           first == h \notin dead
       IN /\ proc' = [proc EXCEPT ![p] = "gone"]
          /\ child' = [child EXCEPT ![h] = IF @ = p[2] THEN 0 ELSE @]
          /\ dead' = dead \cup {h}
          /\ ExitTurns(p)
          /\ runners' = runners \ {h}
          /\ inFlight' = [inFlight EXCEPT ![h] = 0]
          /\ route' = IF first THEN DropRoutes(h) ELSE route
          /\ StartDrain(IF first THEN "grow" ELSE "none")
    /\ asked' = [c \in Channels |-> IF asked[c].proc = p
                                    THEN NotAsked
                                    ELSE asked[c]]
    /\ UNCHANGED << queue, spawnVars, generation, timer, forks, cooling, running, at, ran,
                    deferred, bounds >>

-----------------------------------------------------------------------------
(* Maintenance, release, nested edges, heartbeat and reset *)

Routed(r) == {c \in Channels : route[c] = r}

(* maintain(): reap what is idle, disarm the timer when no runner is listed, *)
(* and serve what is queued.  How long a runner has been idle is an input.   *)
Maintain(idle) ==
    /\ Quiet /\ timer
    /\ \A r \in idle : inFlight[r] = 0 /\ Routed(r) = {}
    /\ reaps + Cardinality(idle) <= MaxReaps
    /\ LET hit == {r \in idle : child[r] # 0}
       IN /\ proc' = [p \in Procs |->
                        IF p[1] \in hit /\ p[2] = child[p[1]] /\ proc[p] \in Alive
                        THEN "term" ELSE proc[p]]
          /\ child' = [h \in Hosts |-> IF h \in hit THEN 0 ELSE child[h]]
    /\ reaps' = reaps + Cardinality(idle)
    /\ timer' = (runners # {})
    /\ StartDrain("force")
    /\ UNCHANGED << queue, runners, inFlight, route, spawnVars, generation, forks,
                    dead, cooling, running, pc, at, ran, asked, deferred, resets, crashes,
                    releases >>

Forget(c) == route' = [route EXCEPT ![c] = NoHost]

(* A route is let go only after its runner confirmed.  The sweep asks for a  *)
(* stale route of a host with nothing in flight; release() asks for the      *)
(* channel the daemon wants to run itself, whatever else the host does.  A   *)
(* host without a child holds nothing, by definition.                        *)
AskRelease(c, sweep) ==
    /\ Quiet /\ route[c] # NoHost /\ asked[c].proc = NoProc
    /\ releases < MaxReleases
    /\ sweep => timer /\ inFlight[route[c]] = 0
    /\ releases' = releases + 1
    /\ LET r == route[c]
           p == << r, child[r] >>
       IN IF child[r] = 0
          THEN Forget(c) /\ UNCHANGED asked
          ELSE /\ asked' = [asked EXCEPT ![c] =
                     [proc |-> p, busy |-> << p, c >> \in running]]
               /\ UNCHANGED route
    /\ UNCHANGED << queue, runners, inFlight, spawnVars, generation, timer, hostVars,
                    pc, at, ran, phase, after, deferred, resets, reaps, crashes >>

(* The answer.  Frames arrive in order, so a turn posted after the question  *)
(* does not make the runner busy.  A signalled runner clears runningChannels *)
(* on its way out.                                                           *)
Released(c) ==
    /\ Quiet /\ asked[c].proc # NoProc /\ proc[asked[c].proc] \in {"up", "term"}
    /\ \E busy \in IF proc[asked[c].proc] = "term" THEN {FALSE, asked[c].busy}
                   ELSE {asked[c].busy} :
          IF ~busy /\ route[c] = asked[c].proc[1] THEN Forget(c) ELSE UNCHANGED route
    /\ asked' = [asked EXCEPT ![c] = NotAsked]
    /\ UNCHANGED << queue, runners, inFlight, spawnVars, generation, timer, hostVars,
                    pc, at, ran, phase, after, deferred, bounds >>

EdgeAccepted(h, parent, nested) ==
    route[parent] = h /\ route[nested] \in {NoHost, h}

(* A running turn opened a nested session in its own process; the pool       *)
(* routes the child if the edge extends that runner's routes.                *)
NestedEdge(t, nested) ==
    /\ Quiet /\ pc[t] = "posted" /\ proc[at[t]] = "up"
    /\ ChannelOf[t] # nested /\ route[nested] # at[t][1]
    /\ EdgeAccepted(at[t][1], ChannelOf[t], nested)
    /\ route' = [route EXCEPT ![nested] = at[t][1]]
    /\ UNCHANGED << queue, runners, inFlight, spawnVars, generation, timer, hostVars,
                    pc, at, ran, asked, phase, after, deferred, bounds >>

(* A beat re-evaluates growth for turns already waiting.                     *)
Heartbeat ==
    /\ Quiet /\ Depth(queue) > 0
    /\ GrowthAllowed(TRUE, inFlight) /\ StartSpawn
    /\ UNCHANGED << queue, runners, inFlight, route, generation, timer, hostVars, pc,
                    at, ran, asked, phase, after, deferred, bounds >>

(* reset(): a plugin reload.  Queued turns fall back to the daemon, listed   *)
(* hosts are signalled and forgotten; the exit events settle their turns.    *)
Reset ==
    /\ Quiet /\ resets < MaxResets
    /\ resets' = resets + 1
    /\ generation' = generation + 1
    /\ timer' = FALSE
    /\ FallBack({t \in Turns : pc[t] = "queued"})
    /\ queue' = EmptyQueue(Parents)
    /\ route' = [c \in Channels |-> NoHost]
    /\ LET hit == {r \in runners : child[r] # 0}
       IN /\ proc' = [p \in Procs |->
                        IF p[1] \in hit /\ p[2] = child[p[1]] /\ proc[p] \in Alive
                        THEN "term" ELSE proc[p]]
          /\ child' = [h \in Hosts |-> IF h \in hit THEN 0 ELSE child[h]]
    /\ runners' = {}
    /\ inFlight' = [h \in Hosts |-> 0]
    /\ UNCHANGED << spawnVars, forks, dead, cooling, running, at, asked, phase, after,
                    deferred, reaps, crashes, releases >>

-----------------------------------------------------------------------------
Init ==
    /\ queue = EmptyQueue(Parents)
    /\ runners = {}
    /\ inFlight = [h \in Hosts |-> 0]
    /\ route = [c \in Channels |-> NoHost]
    /\ spawning = NoSpawn /\ forked = 0
    /\ generation = 0 /\ born = [h \in Hosts |-> 0]
    /\ timer = FALSE
    /\ child = [h \in Hosts |-> 0]
    /\ forks = [h \in Hosts |-> 0]
    /\ dead = {} /\ cooling = {} /\ running = {}
    /\ proc = [p \in Procs |-> "none"]
    /\ pc = [t \in Turns |-> "new"]
    /\ at = [t \in Turns |-> NoProc]
    /\ ran = [t \in Turns |-> {}]
    /\ asked = [c \in Channels |-> NotAsked]
    /\ phase = "idle" /\ after = "none" /\ deferred = << >>
    /\ resets = 0 /\ reaps = 0 /\ crashes = 0 /\ releases = 0

Microtask ==
    \/ \E t \in Turns : Wake(t) \/ SettleRefused(t)
    \/ Offer \/ StopOffering \/ PutBack \/ DrainEnd

SpawnSettles == SpawnReady \/ SpawnFail
RebootSettles == \E p \in Procs : RebootReady(p) \/ RebootFail(p)
SomeTurnEnds == \E t \in Turns : TurnEnds(t)
SomeLeave == \E p \in Procs : Leave(p)
SomeExit == \E p \in Procs : ExitEvent(p)
SomeRelease == \E c \in Channels : Released(c)
Tick == \E idle \in SUBSET runners : Maintain(idle)

Next ==
    \/ Microtask
    \/ \E t \in Turns : Submit(t)
    \/ SpawnSettles
    \/ RebootSettles
    \/ SomeTurnEnds
    \/ \E p \in Procs : Crash(p)
    \/ SomeLeave
    \/ SomeExit
    \/ Tick
    \/ \E c \in Channels, sweep \in BOOLEAN : AskRelease(c, sweep)
    \/ SomeRelease
    \/ \E t \in Turns, nested \in Nested : NestedEdge(t, nested)
    \/ Heartbeat
    \/ Reset

Spec == Init /\ [][Next]_vars

(* Microtasks run before the next event.  The event loop delivers every      *)
(* event that is ready, a boot settles within its timer, a signalled process *)
(* leaves within five seconds, and a turn in a healthy runner ends.  An      *)
(* event is ready only between the microtasks of others, so the events need  *)
(* strong fairness.                                                          *)
FairSpec ==
    /\ Spec
    /\ WF_vars(Microtask)
    /\ SF_vars(SpawnSettles) /\ SF_vars(RebootSettles)
    /\ SF_vars(SomeTurnEnds) /\ SF_vars(SomeLeave) /\ SF_vars(SomeExit)
    /\ SF_vars(SomeRelease) /\ SF_vars(Tick)

-----------------------------------------------------------------------------
(* Properties *)

TypeOK ==
    /\ queue \in QueueType(Parents, Turns)
    /\ runners \subseteq Hosts /\ dead \subseteq Hosts /\ cooling \subseteq Hosts
    /\ inFlight \in [Hosts -> Nat]
    /\ route \in [Channels -> Hosts \cup {NoHost}]
    /\ spawning \in [host : Hosts, gen : Nat] \cup {NoSpawn}
    /\ forked \in 0 .. MaxHosts /\ generation \in Nat /\ born \in [Hosts -> Nat]
    /\ timer \in BOOLEAN
    /\ child \in [Hosts -> Nat] /\ forks \in [Hosts -> Nat]
    /\ proc \in [Procs -> {"none", "boot", "up", "term", "dead", "gone"}]
    /\ pc \in [Turns -> {"new"} \cup Unsettled \cup Settled]
    /\ at \in [Turns -> (Hosts \X Nat) \cup {NoProc}]
    /\ ran \in [Turns -> SUBSET (Nat \X Nat)]
    /\ asked \in [Channels -> [proc : (Hosts \X Nat) \cup {NoProc}, busy : BOOLEAN]]
    /\ running \subseteq (Hosts \X Nat) \X Channels
    /\ phase \in {"idle", "drain", "restore"}
    /\ after \in {"none", "grow", "force", "boot"}
    /\ deferred \in Seq(Turns)

(* The turns placed on a host and not yet settled.                           *)
PlacedOn(r) == {t \in Turns : pc[t] \in Placed /\ at[t][1] = r}

(* The number the pool admits and reaps by is exact for every listed runner: *)
(* the turns placed on it and not yet settled, never more than the admission *)
(* limit, through boots, refusals, crashes, reaps and resets.                *)
AdmissionExact ==
    \A r \in runners :
        /\ inFlight[r] = Cardinality(PlacedOn(r))
        /\ inFlight[r] <= MaxTurns

(* A route never names a host that left the pool, whoever set it: a turn, a  *)
(* nested edge of an orphaned process, or an answer that came late.          *)
RoutesLive == \A c \in Channels : route[c] # NoHost => route[c] \in runners \ dead

(* No delegated turn is executed twice: what the dispatcher runs in the      *)
(* daemon was handed to no runner before, and no turn is handed to two.      *)
NoDoubleRun == \A t \in Turns : Cardinality(ran[t]) <= 1

(* Every turn waiting for room, and no other, is held exactly once: in the   *)
(* lane of the session that delegated it or among the turns the drain set    *)
(* aside.                                                                    *)
QueueHoldsWaiting ==
    /\ \A t \in Turns :
          (pc[t] = "queued") <=> (Holds(queue, ParentOf[t], t) \/ Member(deferred, t))
    /\ \A k \in Parents, t \in Turns :
          Holds(queue, k, t) => (k = ParentOf[t] /\ ~Member(deferred, t))
    /\ Once(deferred) /\ \A k \in Parents : Once(queue.lanes[k])

(* A plugin reload is a clean cut: no runner constructed before a reset is   *)
(* ever listed after it, so no turn of the new epoch meets the old build.    *)
NoRunnerOfAnOldEpoch == \A r \in runners : born[r] = generation

(* Listed runners and the fork that would join them stay within the cap, so  *)
(* a burst cannot fork a herd.                                               *)
WithinCap ==
    Cardinality(runners)
      + (IF spawning # NoSpawn /\ spawning.gen = generation
            /\ spawning.host \notin runners THEN 1 ELSE 0) <= Cap

(* Room is never left idle by a drain: what it puts back, no runner may take.*)
(* That is a pinned turn of a full runner, or everything when all are full.  *)
DrainExhausts ==
    [][phase # "idle" /\ phase' = "idle"
         => \A t \in Turns : pc[t] = "queued" => Place(t) = NoHost]_vars

(* Every submitted turn is eventually answered, by a runner or the daemon,   *)
(* unless it waits in the queue of a pool that has no runner left.           *)
EveryTurnAnswered ==
    \A t \in Turns :
        pc[t] \in Unsettled ~> (pc[t] \in Settled \/ (pc[t] = "queued" /\ runners = {}))

(* "A turn that does not fit QUEUES and runs when room appears; it is never  *)
(* refused" (pool.ts:10-13): a queued turn leaves the queue.                 *)
QueuedTurnRuns == \A t \in Turns : pc[t] = "queued" ~> pc[t] # "queued"
=============================================================================
