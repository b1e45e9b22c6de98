---------------------------- MODULE AgentRegistry ----------------------------
(***************************************************************************)
(* The agents table.  Every start of an agent process inserts a new row    *)
(* with a new id and the same address; nothing ever deletes or reuses one. *)
(*                                                                         *)
(* beat abstracts status and last_heartbeat_at:                            *)
(*   "never"  status 'offline', no heartbeat yet                           *)
(*   "fresh"  status 'online',  last heartbeat within HeartbeatTTL         *)
(*   "stale"  status 'online',  last heartbeat older than HeartbeatTTL     *)
(* MarkStaleAgentsOffline has no caller, so a row is never set back.       *)
(***************************************************************************)
CONSTANTS AgentIds,   \* ids of agent rows; bounds how often agents start
          Procs,      \* agent processes, named by their address
          None        \* SQL NULL, and "nobody"

ASSUME NoneAssumption == None \notin AgentIds /\ None \notin Procs

VARIABLES addr,       \* agents.address; None: no such row yet
          beat

registryVars == <<addr, beat>>

RegistryTypeOK ==
  /\ addr \in [AgentIds -> Procs \cup {None}]
  /\ beat \in [AgentIds -> {"never", "fresh", "stale"}]

RegistryInit ==
  /\ addr = [a \in AgentIds |-> None]
  /\ beat = [a \in AgentIds |-> "never"]

RegisterAgent(a, p) ==
  /\ addr[a] = None
  /\ addr' = [addr EXCEPT ![a] = p]
  /\ UNCHANGED beat

UpdateAgentHeartbeat(a) ==
  /\ beat' = [beat EXCEPT ![a] = "fresh"]
  /\ UNCHANGED addr

\* The clock passes last_heartbeat_at + HeartbeatTTL.
HeartbeatExpires(a) ==
  /\ beat[a] = "fresh"
  /\ beat' = [beat EXCEPT ![a] = "stale"]
  /\ UNCHANGED addr
=============================================================================
