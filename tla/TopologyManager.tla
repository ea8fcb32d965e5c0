-------------------------- MODULE TopologyManager --------------------------
(***************************************************************************)
(* pkg/deviceplugin: the Manager, which runs one Device Plugin server per  *)
(* topology resource, and kubelet, with which the servers register.  All   *)
(* operations of the Manager hold its mutex.                               *)
(***************************************************************************)
EXTENDS UplinkMonitor

CONSTANTS Resource, NoResource

ASSUME ResourceAssumption == NoResource \notin Resource

VARIABLES
  topology,     \* the resource of each bridge
  servers,      \* the NUMA node the server of a resource advertises, or -1
  ctxDone,      \* the context of the process is cancelled
  kubelet,      \* whether kubelet runs (external)
  created,      \* kubelet's socket was created and the watcher has yet to see it
  registered,   \* resources whose running server kubelet knows (external)
  missed,       \* history: resources whose last start failed and was only logged
  refused       \* history: running servers whose last registration failed

kubeletVars == <<ctxDone, kubelet, created>>
managerVars == <<topology, servers, kubeletVars, registered, missed, refused>>

NoServer == -1

ManagerTypeOK ==
  /\ topology \in [Bridge -> Resource \cup {NoResource}]
  /\ servers \in [Resource -> {NoServer} \cup {Numa[u] : u \in Uplink}]
  /\ ctxDone \in BOOLEAN
  /\ kubelet \in BOOLEAN
  /\ created \in BOOLEAN
  /\ registered \subseteq Resource
  /\ missed \subseteq Resource
  /\ refused \subseteq Resource

ManagerInit ==
  /\ topology = [b \in Bridge |-> NoResource]
  /\ servers = [r \in Resource |-> NoServer]
  /\ ctxDone = FALSE
  /\ kubelet = TRUE
  /\ created = FALSE
  /\ registered = {}
  /\ missed = {}
  /\ refused = {}

Running == {r \in Resource : servers[r] # NoServer}

BridgesOf(t, r) == {b \in Bridge : t[b] = r}

(* Mutant: bridges that are not resolved yet are passed over.              *)
numaOfResolved(nodes, brNames) ==
  LET known == {b \in brNames : nodes[b] # {}}
      common == {n \in UNION {nodes[b] : b \in known} :
                   n >= 0 /\ \A b \in known : nodes[b] = {n}} IN
  IF common = {} THEN NoServer ELSE CHOOSE n \in common : TRUE

(* The node all bridges are on; -1 if one has no uplink, uplinks on        *)
(* several nodes or without affinity, or if two bridges differ.            *)
getConsistentNUMA(nodes, brNames) ==
  LET common == {n \in UNION {nodes[b] : b \in brNames} :
                   n >= 0 /\ \A b \in brNames : nodes[b] = {n}} IN
  IF common = {} THEN NoServer ELSE CHOOSE n \in common : TRUE

(* What getConsistentNUMA reads from the monitor.                          *)
Nodes == [b \in Bridge |-> BridgeNUMANodes(b)]

(* Resources for which ensureServer has to start a server.                 *)
Starts(t) == {r \in Resource :
                /\ getConsistentNUMA(Nodes, BridgesOf(t, r)) # NoServer
                /\ getConsistentNUMA(Nodes, BridgesOf(t, r)) # servers[r]}

(* A registration can succeed: kubelet runs, and the context of the        *)
(* process, which the call uses, is not cancelled.                         *)
Reachable == kubelet /\ ~ctxDone

(* Mutant: a server is started with a context of its own.                  *)
StartRegardless(rs, failing) ==
  /\ failing \subseteq rs
  /\ ~kubelet => failing = rs

(* Server.Start of the resources rs, where failing cannot be started: a    *)
(* server that is not registered is stopped again.                         *)
Start(rs, failing) ==
  /\ failing \subseteq rs
  /\ ~Reachable => failing = rs

(* Server.Register of the running servers, where failing are not accepted. *)
Register(failing) ==
  /\ failing \subseteq Running
  /\ ~Reachable => failing = Running

(* Server.Stop: kubelet loses the connection and drops the plugin.         *)
AfterStop(plugins, rs) == plugins \ rs

(* ensureServer for every resource of rs, when the starts of the resources *)
(* in failing fail: a server for another node was stopped before.          *)
ensureServer(t, rs, failing) ==
  LET node(r) == IF r \in failing THEN NoServer
                 ELSE getConsistentNUMA(Nodes, BridgesOf(t, r))
      changed == {r \in rs : node(r) # servers[r]}
      starting == Starts(t) \cap rs IN
  /\ Start(starting, failing)
  /\ servers' = [r \in Resource |-> IF r \in rs THEN node(r) ELSE servers[r]]
  /\ registered' = AfterStop(registered, changed) \cup (starting \ failing)
  /\ refused' = AfterStop(refused, changed)

-----------------------------------------------------------------------------
(* UpdateResources refuses a bridge with two resources.                    *)
Conflicting(specs) ==
  \E i, j \in DOMAIN specs :
    /\ specs[i].name = specs[j].name
    /\ {specs[i].resource, specs[j].resource} \subseteq Resource
    /\ specs[i].resource # specs[j].resource

TopologyOf(specs) ==
  [b \in Bridge |->
     LET res == {specs[i].resource : i \in {j \in DOMAIN specs : specs[j].name = b}} \ {NoResource}
     IN  IF res = {} THEN NoResource ELSE CHOOSE r \in res : TRUE]

(* Mutant: servers of resources that are not wanted any more run on.       *)
UpdateResourcesKeeping(specs, failing) ==
  LET t == TopologyOf(specs) IN
  /\ ~Conflicting(specs)
  /\ topology' = t
  /\ ensureServer(t, {r \in Resource : BridgesOf(t, r) # {}}, failing)
  /\ missed' = {}
  /\ UNCHANGED kubeletVars

(* Servers of resources without bridges are stopped, the state of the      *)
(* others is ensured.  A failed start is reported, and tried again.        *)
UpdateResources(specs, failing) ==
  LET t == TopologyOf(specs) IN
  /\ ~Conflicting(specs)
  /\ topology' = t
  /\ ensureServer(t, Resource, failing)
  /\ missed' = {}
  /\ UNCHANGED kubeletVars

(* OnInterfaceChange: a failed start is only logged.                       *)
OnInterfaceChange(b, failing) ==
  \/ /\ topology[b] = NoResource
     /\ failing = {}
     /\ UNCHANGED managerVars
  \/ /\ topology[b] # NoResource
     /\ ensureServer(topology, {topology[b]}, failing)
     /\ missed' = (missed \ {topology[b]}) \cup failing
     /\ UNCHANGED <<topology, kubeletVars>>

(* Mutant: kubelet's socket is not watched.                                *)
IgnoreKubelet(failing) ==
  /\ created
  /\ failing = {}
  /\ created' = FALSE
  /\ UNCHANGED <<topology, servers, ctxDone, kubelet, registered, missed, refused>>

(* reregisterAll, when the watcher sees kubelet's socket created; a        *)
(* registration that fails is only logged.                                 *)
ReregisterAll(failing) ==
  /\ created
  /\ Register(failing)
  /\ created' = FALSE
  /\ registered' = (registered \cup Running) \ (failing \ registered)
  /\ refused' = (refused \ Running) \cup (failing \ registered)
  /\ UNCHANGED <<topology, servers, ctxDone, kubelet, missed>>

(* Every server is stopped; topology is kept.                              *)
StopAll ==
  /\ servers' = [r \in Resource |-> NoServer]
  /\ registered' = AfterStop(registered, Running)
  /\ refused' = AfterStop(refused, Running)
  /\ UNCHANGED <<topology, kubeletVars, missed>>

-----------------------------------------------------------------------------
(* kubelet (external): it forgets its plugins when it stops.               *)
KubeletStops ==
  /\ kubelet
  /\ kubelet' = FALSE
  /\ registered' = {}
  /\ UNCHANGED <<topology, servers, ctxDone, created, missed, refused>>

KubeletStarts ==
  /\ ~kubelet
  /\ kubelet' = TRUE
  /\ created' = TRUE
  /\ UNCHANGED <<topology, servers, ctxDone, registered, missed, refused>>
=============================================================================
