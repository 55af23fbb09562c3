------------------------------- MODULE PortLock -------------------------------
(***************************************************************************)
(* PortLockManager: which worker has locked which port of the node.  A     *)
(* worker is known by its name only, and a worker closed and launched      *)
(* again has the name of the one before it.  The manager's daemon thread   *)
(* looks for names of the dead, without its lock, and then removes their   *)
(* locks.                                                                  *)
(***************************************************************************)
EXTENDS Integers, Sequences, FiniteSets

CONSTANTS Workers, Ports, NoWorker

ASSUME PortAssumption == NoWorker \notin Workers

VARIABLES
  launched,   \* per worker, how often it has been launched
  alive,      \* the workers with a live process
  held,       \* per worker, the ports its process has acquired
  _port_locks,
  dead_workers   \* the names the daemon has found dead

processVars == <<launched, alive>>
portVars    == <<processVars, held, _port_locks, dead_workers>>

PortInit ==
  /\ launched = [w \in Workers |-> 0] /\ alive = {}
  /\ held = [w \in Workers |-> {}]
  /\ _port_locks = [p \in Ports |-> NoWorker]
  /\ dead_workers = {}

(* Faulty Lockable: the test of the lock has gone. *)
LockableAnyway(p) == TRUE

Lockable(p) == _port_locks[p] = NoWorker

(* acquire, for a port that find_free_port has found: tries that fail are   *)
(* left out.                                                                *)
acquire(w, p) ==
  /\ Lockable(p)
  /\ _port_locks' = [_port_locks EXCEPT ![p] = w]
  /\ held' = [held EXCEPT ![w] = @ \cup {p}]

(* check_worker_alive asks for the actors of a name and looks at the first: *)
(* it may be one that was closed before.  If the query fails the worker is  *)
(* taken to be alive.                                                       *)
DaemonChecks(w) ==
  /\ \E p \in Ports : _port_locks[p] = w
  /\ w \notin alive \/ launched[w] > 1
  /\ dead_workers' = dead_workers \cup {w}
  /\ UNCHANGED <<processVars, held, _port_locks>>

DaemonRemoves ==
  /\ dead_workers # {}
  /\ _port_locks' = [p \in Ports |->
       IF _port_locks[p] \in dead_workers THEN NoWorker ELSE _port_locks[p]]
  /\ dead_workers' = {}
  /\ UNCHANGED <<processVars, held>>

Daemon == (\E w \in Workers : DaemonChecks(w)) \/ DaemonRemoves

(* acquire_free_port's promise, as far as it goes: live workers that are    *)
(* the first of their names share no port, whenever the daemon looks and    *)
(* whichever workers are closed.  With a name used again it does not hold.  *)
PortsExclusive ==
  \A v, w \in alive :
    v # w /\ launched[v] = 1 /\ launched[w] = 1 => held[v] \cap held[w] = {}

=============================================================================
