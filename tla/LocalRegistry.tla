---------------------------- MODULE LocalRegistry ----------------------------
(***************************************************************************)
(* src/LocalRegistry.cpp, for one service: leases, the version counter and *)
(* one-shot watches.  Every operation holds mutex_ for one step; the       *)
(* callbacks it takes out of watchers run afterwards, without the lock.    *)
(***************************************************************************)
EXTENDS Integers, FiniteSets

CONSTANTS
    Ids,         \* instance ids that servers register under
    Watchers,    \* subscriptions
    MaxVersion   \* bound: registrations and removals stop at this version

VARIABLES
    known,      \* the service has an entry in services_
    leases,     \* instances: absent, within its lease, or past leaseDeadline
    version,    \* version
    watchers,   \* watchers
    due,        \* watchers taken out, whose callbacks are still to run
    since       \* history: the version at which a watcher subscribed

registryVars == <<known, leases, version, watchers, due, since>>

RegistryInit ==
    /\ known = FALSE
    /\ leases = [i \in Ids |-> "absent"]
    /\ version = 0
    /\ watchers = {}
    /\ due = {}
    /\ since = [w \in Watchers |-> -1]

Registered == {i \in Ids : leases[i] # "absent"}
Expired == {i \in Ids : leases[i] = "expired"}

\* version++ and callbacks.swap(watchers): every change of the set does both.
Changed ==
    /\ version' = version + 1
    /\ due' = due \cup watchers
    /\ watchers' = {}

RegisterService(i) ==
    /\ version < MaxVersion
    /\ known' = TRUE
    /\ leases' = [leases EXCEPT ![i] = "live"]
    /\ Changed
    /\ UNCHANGED since

\* Mutant: the version is counted, but the watchers are not told.
UnregisterQuietly(i) ==
    /\ version < MaxVersion /\ known
    /\ leases' = [leases EXCEPT ![i] = "absent"]
    /\ version' = version + 1
    /\ UNCHANGED <<known, watchers, due, since>>

\* An unknown service is ignored; an unknown id is counted as a change.
Unregister(i) ==
    /\ version < MaxVersion /\ known
    /\ leases' = [leases EXCEPT ![i] = "absent"]
    /\ Changed
    /\ UNCHANGED <<known, since>>

\* Mutant: the sweep drops the instances and keeps the change to itself.
SweepExpiredQuietly ==
    /\ leases' = [i \in Ids |-> IF leases[i] = "expired" THEN "absent" ELSE leases[i]]
    /\ UNCHANGED <<version, due, watchers>>

\* sweepExpiredLocked.
SweepExpired ==
    /\ leases' = [i \in Ids |-> IF leases[i] = "expired" THEN "absent" ELSE leases[i]]
    /\ IF Expired = {} THEN UNCHANGED <<version, due, watchers>> ELSE Changed

\* renewLease sweeps first: a lease that is past its deadline is not renewed.
RenewLease(i) == known /\ SweepExpired /\ UNCHANGED <<known, since>>

\* One round of sweeperLoop.
Sweep == SweepExpired /\ UNCHANGED <<known, since>>

\* lookup returns what is left after a sweep; an unknown service has nothing.
Lookup == Sweep
Found == Registered \ Expired

Watch(w) ==
    /\ known' = TRUE
    /\ watchers' = watchers \cup {w}
    /\ since' = [since EXCEPT ![w] = version]
    /\ UNCHANGED <<leases, version, due>>

\* The clock passes a leaseDeadline: renewals came too late, or not at all.
LeaseRunsOut(i) ==
    /\ leases[i] = "live"
    /\ leases' = [leases EXCEPT ![i] = "expired"]
    /\ UNCHANGED <<known, version, watchers, due, since>>

\* LocalRegistry.h: "a change invokes the callback once, then the subscription
\* expires".  Nothing has changed since a watcher that is still subscribed did so.
WatchersUpToDate == \A w \in watchers : since[w] = version /\ w \notin due
==============================================================================
