--------------------------- MODULE ConnectionServer ---------------------------
(***************************************************************************)
(* The accept loop and the connections it spawns (server/mod.rs:           *)
(* Server::run, connection), the admission and session UUID they share     *)
(* (server/population.rs) and the semaphore of login slots.                *)
(*                                                                         *)
(* run turns a loop (drain finished tasks, then one arm of its select);    *)
(* connections are tasks on other threads. Of a connection only its        *)
(* ownership remains: its lease, its login slot and the session UUID it    *)
(* was told (Connection has the rest). Bytes, deadlines and replies before *)
(* login decide only whether the task goes on or ends.                     *)
(***************************************************************************)
EXTENDS Naturals, FiniteSets

CONSTANTS
  Sockets,         \* peers that may connect
  MaxConnections,  \* ServerConfig.max_connections
  MaxLogins,       \* max_login_connections, 0 without login services
  MaxId,           \* u64::MAX, where connection identities are exhausted
  Uuids,           \* session UUIDs, never drawn twice while one is known
  None

ASSUME ServerAssumption ==
  /\ IsFiniteSet(Sockets)
  /\ MaxConnections \in Nat \ {0}
  /\ MaxLogins \in Nat /\ MaxId \in Nat
  /\ None \notin Uuids
  /\ \A known \in [Sockets -> Uuids \cup {None}] : \E u \in Uuids : \A c \in Sockets : known[c] # u

VARIABLES
  run,        \* where Server::run is: top, select, aborting, returned
  shutdown,   \* the watch channel
  active, nextId, uuid,   \* the population's State
  permits,    \* free login slots
  conn        \* per socket: its task and what it owns

population == <<active, nextId, uuid>>
vars == <<run, shutdown, population, permits, conn>>

(* No task, or one that run has joined.                                    *)
NoConn == [at |-> "none", id |-> 0, lease |-> FALSE, slot |-> FALSE, session |-> None]

(* A task that has just been spawned with the lease it owns.               *)
Admitted(id) ==
  [at |-> "handshake", id |-> id, lease |-> TRUE, slot |-> FALSE, session |-> None]

(* connections.len(): finished tasks count until they are joined.          *)
Records == {c \in Sockets : conn[c].at # "none"}
Live == {c \in Sockets : conn[c].at \in {"handshake", "status", "login"}}
Leases == {c \in Sockets : conn[c].lease}
Slots == {c \in Sockets : conn[c].slot}
Joinable == {c \in Sockets : conn[c].at = "joinable"}

-----------------------------------------------------------------------------
(* Server::run.                                                            *)

(* The top of the loop: stop, or drain what has finished.                  *)
Top ==
  /\ run = "top"
  /\ \/ shutdown /\ run' = "aborting" /\ UNCHANGED conn
     \/ /\ ~shutdown /\ run' = "select"
        /\ conn' = [c \in Sockets |-> IF c \in Joinable THEN NoConn ELSE conn[c]]
  /\ UNCHANGED <<shutdown, population, permits>>

(* Mutant: the last connection no longer keeps the UUID.                   *)
MaintainAlmostEmpty ==
  /\ run = "select" /\ run' = "top"
  /\ uuid' = IF active <= 1 THEN None ELSE uuid
  /\ UNCHANGED <<shutdown, active, nextId, permits, conn>>

(* The maintenance arm: the UUID lives as long as any connection.          *)
maintain ==
  /\ run = "select" /\ run' = "top"
  /\ uuid' = IF active = 0 THEN None ELSE uuid
  /\ UNCHANGED <<shutdown, active, nextId, permits, conn>>

JoinNext(c) ==
  /\ run = "select" /\ run' = "top"
  /\ c \in Joinable
  /\ conn' = [conn EXCEPT ![c] = NoConn]
  /\ UNCHANGED <<shutdown, population, permits>>

(* The accept arm, at the limit: the socket is dropped.                    *)
Refuse ==
  /\ run = "select" /\ run' = "top"
  /\ Cardinality(Records) >= MaxConnections \/ active = MaxConnections
  /\ UNCHANGED <<shutdown, population, permits, conn>>

(* Mutant: finished tasks no longer count.                                 *)
AcceptBesideJoinable(c) ==
  /\ run = "select" /\ run' = "top"
  /\ conn[c] = NoConn
  /\ active < MaxConnections /\ nextId < MaxId
  /\ nextId' = nextId + 1 /\ active' = active + 1
  /\ conn' = [conn EXCEPT ![c] = Admitted(nextId + 1)]
  /\ UNCHANGED <<shutdown, uuid, permits>>

(* The accept arm: try_admit, then a task that owns the lease.             *)
Accept(c) ==
  /\ run = "select" /\ run' = "top"
  /\ conn[c] = NoConn
  /\ Cardinality(Records) < MaxConnections
  /\ active # MaxConnections /\ nextId < MaxId
  /\ nextId' = nextId + 1 /\ active' = active + 1
  /\ conn' = [conn EXCEPT ![c] = Admitted(nextId + 1)]
  /\ UNCHANGED <<shutdown, uuid, permits>>

(* The shutdown arm, a failed accept, or identities at their end.          *)
Break ==
  /\ run = "select" /\ run' = "aborting"
  /\ UNCHANGED <<shutdown, population, permits, conn>>

(* join_next after abort_all, until no record is left.                     *)
JoinAborted(c) ==
  /\ run = "aborting" /\ c \in Joinable
  /\ conn' = [conn EXCEPT ![c] = NoConn]
  /\ UNCHANGED <<run, shutdown, population, permits>>

(* Mutant: run returns without waiting for the tasks it aborted.           *)
ReturnUnjoined ==
  /\ run = "aborting"
  /\ run' = "returned"
  /\ UNCHANGED <<shutdown, population, permits, conn>>

Return ==
  /\ run = "aborting" /\ Records = {}
  /\ run' = "returned"
  /\ UNCHANGED <<shutdown, population, permits, conn>>

Shutdown ==
  /\ ~shutdown /\ shutdown' = TRUE
  /\ UNCHANGED <<run, population, permits, conn>>

-----------------------------------------------------------------------------
(* connection.                                                             *)

(* The task's future is gone with all it owned.                            *)
Gone(c) ==
  /\ active' = active - 1
  /\ permits' = IF conn[c].slot THEN permits + 1 ELSE permits
  /\ conn' = [conn EXCEPT ![c].at = "joinable", ![c].lease = FALSE, ![c].slot = FALSE]
  /\ UNCHANGED <<nextId, uuid>>

(* A handshake for status, or for login if a slot is free. Another         *)
(* protocol version, a refused transfer, a bad frame or the deadline ends  *)
(* it, and so does a lack of slots.                                        *)
Handshake(c) ==
  /\ conn[c].at = "handshake"
  /\ \/ conn' = [conn EXCEPT ![c].at = "status"] /\ UNCHANGED <<population, permits>>
     \/ /\ permits > 0 /\ permits' = permits - 1
        /\ conn' = [conn EXCEPT ![c].at = "login", ![c].slot = TRUE]
        /\ UNCHANGED population
     \/ Gone(c)
  /\ UNCHANGED <<run, shutdown>>

(* The pong is written, or the exchange fails or runs out of time.         *)
StatusEnds(c) ==
  /\ conn[c].at = "status"
  /\ Gone(c)
  /\ UNCHANGED <<run, shutdown>>

(* ConnectionLease::session_uuid, when login is about to finish. UUIDs are *)
(* only compared, so any one nobody knows stands for a random one.         *)
session_uuid(c) ==
  /\ conn[c].at = "login" /\ conn[c].session = None
  /\ uuid' = IF uuid # None THEN uuid
             ELSE CHOOSE u \in Uuids : \A d \in Sockets : conn[d].session # u
  /\ conn' = [conn EXCEPT ![c].session = uuid']
  /\ UNCHANGED <<run, shutdown, active, nextId, permits>>

(* run_login drops the lease as it returns, the slot goes after it.        *)
LoginReturns(c) ==
  /\ conn[c].at = "login"
  /\ active' = active - 1
  /\ conn' = [conn EXCEPT ![c].at = "ended", ![c].lease = FALSE]
  /\ UNCHANGED <<run, shutdown, nextId, uuid, permits>>

SlotReturns(c) ==
  /\ conn[c].at = "ended"
  /\ permits' = permits + 1
  /\ conn' = [conn EXCEPT ![c].at = "joinable", ![c].slot = FALSE]
  /\ UNCHANGED <<run, shutdown, population>>

(* abort_all takes effect where the task awaits.                           *)
Abort(c) ==
  /\ run = "aborting" /\ c \in Live
  /\ Gone(c)
  /\ UNCHANGED <<run, shutdown>>

-----------------------------------------------------------------------------
Init ==
  /\ run = "top" /\ shutdown = FALSE
  /\ active = 0 /\ nextId = 0 /\ uuid = None
  /\ permits = MaxLogins
  /\ conn = [c \in Sockets |-> NoConn]

Task(c) ==
  Handshake(c) \/ StatusEnds(c) \/ session_uuid(c) \/ LoginReturns(c) \/ SlotReturns(c)

Next ==
  \/ Top \/ maintain \/ Refuse \/ Break \/ Return \/ Shutdown
  \/ \E c \in Sockets :
       JoinNext(c) \/ Accept(c) \/ JoinAborted(c) \/ Abort(c) \/ Task(c)

Spec == Init /\ [][Next]_vars

(* The runtime schedules run and what its last loop waits for. Peers keep  *)
(* their connections open as long as they like.                            *)
FairSpec ==
  /\ Spec
  /\ WF_vars(Top) /\ WF_vars(shutdown /\ Break) /\ WF_vars(Return)
  /\ \A c \in Sockets :
       WF_vars(JoinAborted(c)) /\ WF_vars(Abort(c)) /\ WF_vars(SlotReturns(c))

-----------------------------------------------------------------------------
(* Type invariant.                                                         *)
TypeOK ==
  /\ run \in {"top", "select", "aborting", "returned"} /\ shutdown \in BOOLEAN
  /\ active \in 0..MaxConnections /\ nextId \in 0..MaxId
  /\ uuid \in Uuids \cup {None} /\ permits \in 0..MaxLogins
  /\ conn \in [Sockets -> [at : {"none", "handshake", "status", "login", "ended", "joinable"},
                           id : Nat, lease : BOOLEAN, slot : BOOLEAN,
                           session : Uuids \cup {None}]]

(* A task owns a lease until it ends or run_login returns, a slot from     *)
(* login until after that.                                                 *)
Ownership ==
  \A c \in Sockets :
    /\ conn[c].lease <=> conn[c].at \in {"handshake", "status", "login"}
    /\ conn[c].slot <=> conn[c].at \in {"login", "ended"}

(* Admission is exact: active counts the leases alive, the semaphore the   *)
(* slots held, each live connection has an identity of its own, and the    *)
(* finished tasks not yet joined keep the whole within the limit, so that  *)
(* the population never refuses what run lets through. Nothing is left     *)
(* when run has returned.                                                  *)
AdmissionExact ==
  /\ TypeOK /\ Ownership
  /\ active = Cardinality(Leases)
  /\ permits + Cardinality(Slots) = MaxLogins
  /\ Cardinality(Records) <= MaxConnections
  /\ \A c \in Records : conn[c].id \in 1..nextId
  /\ \A c, d \in Records : conn[c].id = conn[d].id => c = d
  /\ run = "returned" => Records = {}

(* "Status, login and configuration sockets all retain one lease": all     *)
(* connections that are alive together and were told a session UUID were   *)
(* told the same one, whoever asked first and whoever left meanwhile.      *)
SessionShared ==
  \A c \in Leases : conn[c].session # None => conn[c].session = uuid

(* "Shutdown aborts and joins every connection so no socket/task outlives  *)
(* this method": run returns whatever the peers do, and every task, lease  *)
(* and slot is back by then.                                               *)
ServerStops ==
  shutdown ~> (run = "returned" /\ Records = {} /\ active = 0 /\ permits = MaxLogins)
=============================================================================
