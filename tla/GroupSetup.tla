------------------------------ MODULE GroupSetup ------------------------------
(***************************************************************************)
(* How workers find each other: a worker acquires a port, registers with   *)
(* WorkerManager and waits for rank 0 of its worker group; two workers     *)
(* that communicate set up a collective group, whose master registers it   *)
(* with CollectiveManager and hands its port to the peer.  Worker groups   *)
(* are launched, closed, and launched again under the same name, while     *)
(* the managers live on.                                                   *)
(*                                                                         *)
(* One node: ports are the node's.                                         *)
(***************************************************************************)
EXTENDS PortLock, Functions

CONSTANTS
  Leaders,       \* per worker, rank 0 of its worker group: the layouts a program may have
  Pairs,         \* the collective groups, each a pair of master and peer
  MaxLaunches,   \* bound: how often a worker group is launched
  NoPort

ASSUME GroupAssumption ==
  /\ Leaders \subseteq {f \in [Workers -> Workers] : \A w \in Workers : f[f[w]] = f[w]}
  /\ Pairs \subseteq Workers \X Workers /\ \A g \in Pairs : g[1] # g[2]
  /\ MaxLaunches \in Nat \ {0} /\ NoPort \notin Ports

VARIABLES
  Leader,
  boot,          \* per worker, where its constructor is
  worker_infos,  \* per worker, of which launch is the information at each of its nodes
  master_info,   \* per worker, the launch whose MASTER_PORT it has
  group_known,   \* the groups CollectiveManager knows
  port_info,     \* per group, its master_port there
  stage,         \* per group and rank, where the set-up is
  port,          \* per group and rank, the port of its init_method
  disturbed      \* the groups with a worker closed in the middle of a set-up

bootVars  == <<boot, worker_infos, master_info>>
groupVars == <<group_known, port_info, stage, port, disturbed>>
setupVars == <<Leader, portVars, bootVars, groupVars>>

WorkerGroups == {{w \in Workers : Leader[w] = Leader[v]} : v \in Workers}

Ranks == {0, 1}
Rank(g, r) == g[r + 1]
Settled == {"none", "ready"}

SetupInit ==
  /\ PortInit /\ Leader \in Leaders
  /\ boot = [w \in Workers |-> "none"]
  /\ worker_infos = [w \in Workers |-> <<>>] /\ master_info = [w \in Workers |-> 0]
  /\ group_known = {} /\ port_info = [g \in Pairs |-> NoPort]
  /\ stage = [g \in Pairs |-> [r \in Ranks |-> "none"]]
  /\ port = [g \in Pairs |-> [r \in Ranks |-> NoPort]]
  /\ disturbed = {}

-----------------------------------------------------------------------------
(* Worker groups. *)

Launch(W) ==
  /\ W \cap alive = {} /\ \A w \in W : launched[w] < MaxLaunches
  /\ launched' = [w \in Workers |-> IF w \in W THEN launched[w] + 1 ELSE launched[w]]
  /\ alive' = alive \cup W
  /\ boot' = [w \in Workers |-> IF w \in W THEN "port" ELSE boot[w]]
  /\ UNCHANGED <<held, _port_locks, dead_workers, worker_infos, master_info, groupVars>>

(* The processes of W are killed.  The other worker of a pair keeps its     *)
(* part of a group that is set up, and what it waits for in a set-up.       *)
_close(W) ==
  /\ W \subseteq alive
  /\ alive' = alive \ W
  /\ boot' = [w \in Workers |-> IF w \in W THEN "none" ELSE boot[w]]
  /\ held' = [w \in Workers |-> IF w \in W THEN {} ELSE held[w]]
  /\ stage' = [g \in Pairs |-> [r \in Ranks |->
                 IF Rank(g, r) \in W THEN "none" ELSE stage[g][r]]]
  /\ port' = [g \in Pairs |-> [r \in Ranks |->
                 IF Rank(g, r) \in W THEN NoPort ELSE port[g][r]]]
  /\ disturbed' = disturbed \cup {g \in Pairs : /\ Range(g) \cap W # {}
                                                /\ \E r \in Ranks : stage[g][r] \notin Settled}
  /\ master_info' = [w \in Workers |-> IF w \in W THEN 0 ELSE master_info[w]]
  /\ UNCHANGED <<launched, _port_locks, dead_workers, worker_infos, group_known, port_info>>

-----------------------------------------------------------------------------
(* A worker's constructor. *)

(* The ports with a server: those of masters in or after their set-up.      *)
Bound == {port[g][0] : g \in {h \in Pairs : stage[h][0] \in {"serve", "reset", "ready"}}}

(* What is known of a port anywhere. *)
Known == UNION (Range(held) \cup {Range(port[g]) : g \in Pairs}) \cup Range(port_info)

(* find_free_port: of the ports nobody knows anything of, the first.        *)
Free(p) ==
  /\ p \notin Bound
  /\ p \in Known \/ \A q \in Ports \ Known : Lockable(q) => p <= q

acquire_free_port(w, p) == Free(p) /\ acquire(w, p)

_setup_worker_info(w) ==
  /\ boot[w] = "port"
  /\ \E p \in Ports : acquire_free_port(w, p)
  /\ boot' = [boot EXCEPT ![w] = "register"]
  /\ UNCHANGED <<processVars, dead_workers, worker_infos, master_info, groupVars>>

(* A node is inserted after those of its rank, and the first is found.      *)
register_worker(w) ==
  /\ boot[w] = "register"
  /\ worker_infos' = [worker_infos EXCEPT ![w] = Append(@, launched[w])]
  /\ boot' = [boot EXCEPT ![w] = "master"]
  /\ UNCHANGED <<portVars, master_info, groupVars>>

(* Faulty get_worker_info: the node inserted last is found.                 *)
get_worker_info_newest(w) == worker_infos[w][Len(worker_infos[w])]

get_worker_info(w) == Head(worker_infos[w])

_setup_master_address_and_port(w) ==
  /\ boot[w] = "master" /\ worker_infos[Leader[w]] # <<>>
  /\ master_info' = [master_info EXCEPT ![w] = get_worker_info(Leader[w])]
  /\ boot' = [boot EXCEPT ![w] = "up"]
  /\ UNCHANGED <<portVars, worker_infos, groupVars>>

-----------------------------------------------------------------------------
(* A collective group, of its two ranks. *)

At(g, r, s)   == stage[g][r] = s
Goes(g, r, s) == stage' = [stage EXCEPT ![g][r] = s]
RestOfGroup   == UNCHANGED <<portVars, bootVars, disturbed>>

(* With no information of the group the master has to register it and the  *)
(* peer to wait for that.                                                   *)
create_collective_group(g, r) ==
  /\ boot[Rank(g, r)] = "up" /\ At(g, r, "none")
  /\ Goes(g, r, IF g \in group_known THEN "init" ELSE "info")
  /\ UNCHANGED <<group_known, port_info, port>> /\ RestOfGroup

(* Once both workers are registered.  What is registered is the same        *)
(* whenever it is: the registry's first entries stay.                       *)
register_collective_group(g) ==
  /\ At(g, 0, "info") /\ \A w \in Range(g) : worker_infos[w] # <<>>
  /\ group_known' = group_known \cup {g}
  /\ port_info' = [port_info EXCEPT ![g] = NoPort]
  /\ Goes(g, 0, "init")
  /\ UNCHANGED port /\ RestOfGroup

_get_group_info_safe(g) ==
  /\ At(g, 1, "info") /\ g \in group_known
  /\ Goes(g, 1, "init")
  /\ UNCHANGED <<group_known, port_info, port>> /\ RestOfGroup

AcquireMasterPort(g) ==
  /\ At(g, 0, "init")
  /\ \E p \in Ports : /\ acquire_free_port(g[1], p)
                      /\ port' = [port EXCEPT ![g][0] = p]
  /\ Goes(g, 0, "set")
  /\ UNCHANGED <<processVars, dead_workers, bootVars, group_known, port_info, disturbed>>

set_master_port_info(g) ==
  /\ At(g, 0, "set")
  /\ port_info' = [port_info EXCEPT ![g] = port[g][0]]
  /\ Goes(g, 0, "bind")
  /\ UNCHANGED <<group_known, port>> /\ RestOfGroup

(* The master's store listens at the port, if no one else does. *)
Serve(g) ==
  /\ At(g, 0, "bind")
  /\ Goes(g, 0, IF port[g][0] \in Bound THEN "failed" ELSE "serve")
  /\ UNCHANGED <<group_known, port_info, port>> /\ RestOfGroup

get_master_port_info(g) ==
  /\ At(g, 1, "init") /\ port_info[g] # NoPort
  /\ port' = [port EXCEPT ![g][1] = port_info[g]]
  /\ Goes(g, 1, "connect")
  /\ UNCHANGED <<group_known, port_info>> /\ RestOfGroup

(* Both ranks are at the master's store: they create the process groups of  *)
(* all channels in one order, so that neither is through before the other   *)
(* has come.                                                                *)
init(g) ==
  /\ At(g, 0, "serve") /\ At(g, 1, "connect") /\ port[g][0] = port[g][1]
  /\ stage' = [stage EXCEPT ![g] = [r \in Ranks |-> IF r = 0 THEN "reset" ELSE "ready"]]
  /\ UNCHANGED <<group_known, port_info, port>> /\ RestOfGroup

(* Faulty reset_master_port_info: as soon as the store listens. *)
reset_master_port_info_early(g) ==
  /\ At(g, 0, "serve") /\ port_info[g] # NoPort
  /\ port_info' = [port_info EXCEPT ![g] = NoPort]
  /\ UNCHANGED <<group_known, port, stage>> /\ RestOfGroup

(* Faulty reset_master_port_info: the port is left. *)
reset_master_port_info_not(g) ==
  /\ At(g, 0, "reset")
  /\ Goes(g, 0, "ready")
  /\ UNCHANGED <<group_known, port, port_info>> /\ RestOfGroup

reset_master_port_info(g) ==
  /\ At(g, 0, "reset")
  /\ port_info' = [port_info EXCEPT ![g] = NoPort]
  /\ Goes(g, 0, "ready")
  /\ UNCHANGED <<group_known, port>> /\ RestOfGroup

-----------------------------------------------------------------------------
Boot(w)  == \/ _setup_worker_info(w) \/ register_worker(w)
            \/ _setup_master_address_and_port(w)
Setup(g) == \/ \E r \in Ranks : create_collective_group(g, r)
            \/ register_collective_group(g) \/ _get_group_info_safe(g)
            \/ AcquireMasterPort(g) \/ set_master_port_info(g) \/ Serve(g)
            \/ get_master_port_info(g) \/ init(g) \/ reset_master_port_info(g)
Process  == (\E w \in Workers : Boot(w)) \/ (\E g \in Pairs : Setup(g))

SetupNext ==
  /\ \/ Process
     \/ \E W \in WorkerGroups : Launch(W) \/ _close(W)
     \/ Daemon /\ UNCHANGED <<bootVars, groupVars>>
  /\ UNCHANGED Leader

SetupSpec == SetupInit /\ [][SetupNext]_setupVars

(* Processes run; nobody has to launch or close, and the daemon may sleep.  *)
FairSetupSpec == SetupSpec /\ WF_setupVars(Process /\ UNCHANGED Leader)

-----------------------------------------------------------------------------
(* Properties. *)

(* The workers of a worker group have one MASTER_PORT, although each looks  *)
(* it up by itself, while rank 0 of this launch may not have registered and *)
(* that of an earlier one has.                                              *)
OneMaster ==
  \A v, w \in alive :
    Leader[v] = Leader[w] /\ boot[v] = "up" /\ boot[w] = "up" => master_info[v] = master_info[w]

(* A peer has the port of the set-up its master is in, and not of an        *)
(* earlier one: unless a worker was closed in the middle of one.            *)
PeerFindsMaster ==
  \A g \in Pairs \ disturbed :
    At(g, 1, "connect") => /\ stage[g][0] \in {"bind", "serve", "failed"}
                           /\ port[g][0] = port[g][1]

(* Two workers that both want the group get it, also when they, or others,  *)
(* have been closed and launched again; with the same exception, and unless *)
(* a port locked under a name used twice was taken from its owner.          *)
SetupEnds ==
  \A g \in Pairs :
    (\A r \in Ranks : stage[g][r] \notin Settled) /\ g \notin disturbed
      ~> At(g, 0, "ready") \/ At(g, 0, "failed") \/ g \in disturbed

=============================================================================
