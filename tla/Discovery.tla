------------------------------ MODULE Discovery ------------------------------
(***************************************************************************)
(* A cluster channel that follows a registry: setDiscovery, applyInstances *)
(* and resubscribeWatch of src/RpcClusterChannel.cpp, with the registry in *)
(* the process (LocalRegistry) or behind RegistryClient and                *)
(* rpc_registry_server.                                                    *)
(*                                                                         *)
(* An agent is a thread of control that runs discovery code.  In the       *)
(* process there is one: setDiscovery, then the callbacks of its           *)
(* subscription.  Remotely, agent 1 runs setDiscovery, and every watch()   *)
(* starts another agent, which runs watchLoop for ever.                    *)
(*                                                                         *)
(* Two instances may have one address: a server that is started again      *)
(* registers under a new id (src/main.cpp) while the lease of its          *)
(* predecessor lasts.                                                      *)
(***************************************************************************)
EXTENDS LocalRegistry, Sequences, Functions

CONSTANTS
    Addresses,  \* of hosts and ports
    MaxAgents,  \* bound: watchLoop threads
    Modes       \* whether the registry may be remote

Agents == 1..MaxAgents

ASSUME DiscoveryAssumption ==
    /\ Ids \subseteq Nat /\ IsFiniteSet(Ids) /\ MaxAgents \in Nat \ {0} /\ Watchers = Agents
    /\ Modes \subseteq BOOLEAN

VARIABLES
    remote,   \* the registry is reached through RegistryClient
    address,  \* the host and the port an instance registers with
    pc,       \* where an agent is
    seen,     \* what the agent's lookup returned
    list,     \* instances_: addresses with their channels
    created,  \* channels are numbered in the order they are created in
    stopped,  \* channels whose stop() was called
    removed   \* the channels an agent is about to stop

setUp == <<remote, address>>
agentVars == <<pc, seen>>
listVars == <<list, created, stopped, removed>>
vars == <<registryVars, setUp, agentVars, listVars>>

Init ==
    /\ RegistryInit
    /\ remote \in Modes
    /\ address \in [Ids -> Addresses]
    /\ pc = [a \in Agents |-> IF a = 1 THEN "lookup" ELSE "unborn"]
    /\ seen = [a \in Agents |-> <<>>]
    /\ list = <<>>
    /\ created = 0
    /\ stopped = {}
    /\ removed = [a \in Agents |-> {}]

Goto(a, l) == pc' = [pc EXCEPT ![a] = l]

-----------------------------------------------------------------------------
(* applyInstances *)

HasChannel(addr) == \E k \in 1..Len(list) : list[k].addr = addr

\* The infos that no instance of the list has the address of.
Unknown(infos) == {k \in 1..Len(infos) : ~HasChannel(address[infos[k]])}

\* Mutant: every info gets a channel of its own.
NextListAnew(infos) ==
    [k \in 1..Len(infos) |-> [addr |-> address[infos[k]], ch |-> created + k]]

\* Each info takes the first instance of the list that has its address, in the
\* order of infos, or else gets a channel, also when an info before it did.
NextList(infos) ==
    [k \in 1..Len(infos) |->
        IF k \in Unknown(infos)
        THEN [addr |-> address[infos[k]], ch |-> created + Cardinality(Unknown(infos) \cap 1..k)]
        ELSE list[CHOOSE j \in 1..Len(list) :
                     /\ list[j].addr = address[infos[k]]
                     /\ \A i \in 1..(j - 1) : list[i].addr # list[j].addr]]

\* The channels of the addresses that no info has.
Disappeared(infos) ==
    {list[k].ch : k \in {j \in 1..Len(list) :
                            \A i \in Range(infos) : address[i] # list[j].addr}}

-----------------------------------------------------------------------------
(* The steps of an agent *)

\* The list of the instances in S, in the order of std::map.
InIdOrder(S) ==
    {infos \in [1..Cardinality(S) -> S] :
        \A j, k \in 1..Cardinality(S) : j < k => infos[j] < infos[k]}

\* registry->lookup(service).  A remote lookup may fail and then finds nothing,
\* whether or not the server has run it.
LookupInstances(a) ==
    /\ pc[a] = "lookup"
    /\ Goto(a, "apply")
    /\ \/ Lookup /\ \E infos \in InIdOrder(Found) : seen' = [seen EXCEPT ![a] = infos]
       \/ remote /\ Lookup /\ seen' = [seen EXCEPT ![a] = <<>>]
       \/ remote /\ UNCHANGED registryVars /\ seen' = [seen EXCEPT ![a] = <<>>]
    /\ UNCHANGED <<setUp, listVars>>

\* applyInstances up to the end of the locked block.
ApplyInstances(a) ==
    /\ pc[a] = "apply"
    /\ list' = NextList(seen[a])
    /\ created' = created + Cardinality(Unknown(seen[a]))
    /\ removed' = [removed EXCEPT ![a] = Disappeared(seen[a])]
    /\ seen' = [seen EXCEPT ![a] = <<>>]
    /\ Goto(a, "stop")
    /\ UNCHANGED <<registryVars, setUp, stopped>>

\* "Instances that disappeared are stopped outside the lock."
StopRemoved(a) ==
    /\ pc[a] = "stop"
    /\ stopped' = stopped \cup removed[a]
    /\ removed' = [removed EXCEPT ![a] = {}]
    /\ Goto(a, "watch")
    /\ UNCHANGED <<registryVars, setUp, seen, list, created>>

\* resubscribeWatch with a LocalRegistry.
Resubscribe(a) ==
    /\ pc[a] = "watch" /\ ~remote
    /\ Watch(a)
    /\ Goto(a, "waiting")
    /\ UNCHANGED <<setUp, seen, listVars>>

\* RegistryClient::watch starts a thread; watchLoop itself goes on, and
\* setDiscovery returns.
StartWatchLoop(a, b) ==
    /\ pc[a] = "watch" /\ remote
    /\ pc[b] = "unborn" /\ (b - 1 \in Agents => pc[b - 1] # "unborn")
    /\ pc' = [pc EXCEPT ![a] = IF a = 1 THEN "ended" ELSE "poll", ![b] = "poll"]
    /\ UNCHANGED <<registryVars, setUp, seen, listVars>>

\* watchLoop's request reaches the server, which holds it (registry.watch).
Poll(a) ==
    /\ pc[a] = "poll"
    /\ Watch(a)
    /\ Goto(a, "waiting")
    /\ UNCHANGED <<setUp, seen, listVars>>

\* The poll times out or its connection is lost; watchLoop polls again.
PollFails(a) ==
    /\ pc[a] = "waiting" /\ remote
    /\ watchers' = watchers \ {a}
    /\ due' = due \ {a}
    /\ Goto(a, "poll")
    /\ UNCHANGED <<known, leases, version, since, setUp, seen, listVars>>

\* The callback, on the thread that changed the set or in watchLoop.
Callback(a) ==
    /\ pc[a] = "waiting" /\ a \in due
    /\ due' = due \ {a}
    /\ Goto(a, "lookup")
    /\ UNCHANGED <<known, leases, version, watchers, since, setUp, seen, listVars>>

RegistryStep ==
    /\ \/ \E i \in Ids : RegisterService(i) \/ Unregister(i) \/ RenewLease(i) \/ LeaseRunsOut(i)
       \/ Sweep
    /\ UNCHANGED <<setUp, agentVars, listVars>>

AgentStep(a) ==
    \/ LookupInstances(a) \/ ApplyInstances(a) \/ StopRemoved(a) \/ Resubscribe(a)
    \/ (\E b \in Agents : StartWatchLoop(a, b)) \/ Poll(a) \/ Callback(a)

Next == RegistryStep \/ \E a \in Agents : AgentStep(a) \/ PollFails(a)

Spec == Init /\ [][Next]_vars

\* The sweeper runs every second, and the threads of the agents get to run.
Fairness ==
    /\ WF_vars(Sweep /\ UNCHANGED <<setUp, agentVars, listVars>>)
    /\ \A a \in Agents : WF_vars(AgentStep(a))

FairSpec == Spec /\ Fairness

-----------------------------------------------------------------------------
(* Properties *)

ListedChannels == {list[k].ch : k \in 1..Len(list)}

RemovedChannels == UNION {removed[a] : a \in Agents}

\* applyInstances: however the lists of several threads interleave, no channel that
\* calls are sent through is stopped or about to be, and none is stopped by two
\* threads.  While no two instances share an address, no channel is lost either: until
\* it is stopped it is listed or about to be stopped.
ChannelsAccounted ==
    /\ ListedChannels \cap (stopped \cup RemovedChannels) = {}
    /\ \A a \in Agents : removed[a] \cap stopped = {}
    /\ \A a, b \in Agents : a # b => removed[a] \cap removed[b] = {}
    /\ IsInjective(address) => (1..created) \ stopped = ListedChannels \cup RemovedChannels

\* Registry.h: an instance "must renewLease() before the lease expires or it is
\* removed".  In the process, an instance whose lease ran out while the cluster
\* is subscribed leaves its list, unless it, or one with its address, is registered
\* again.
ExpiredLeaves ==
    \A i \in Ids :
        (~remote /\ pc[1] = "waiting" /\ leases[i] = "expired") ~>
            \/ ~HasChannel(address[i])
            \/ \E j \in Ids : address[j] = address[i] /\ leases[j] = "live"
==============================================================================
