---------------------------- MODULE CallContract ----------------------------
(***************************************************************************)
(* What a channel promises about its calls, whatever the transport does:   *)
(* a call is issued once and completed at most once, alone, together with  *)
(* others when a connection dies, or at once when the channel refuses it.  *)
(* RpcChannel is shown to implement this specification; components that    *)
(* sit on top of a channel may rely on it.                                 *)
(***************************************************************************)
EXTENDS Naturals

CONSTANT Calls

VARIABLES
    issued,       \* the calls made so far
    completions   \* how often done() ran, per call

contractVars == <<issued, completions>>

Init ==
    /\ issued = {}
    /\ completions = [c \in Calls |-> 0]

InFlight == {c \in issued : completions[c] = 0}

Completed(S) == [c \in Calls |-> IF c \in S THEN completions[c] + 1 ELSE completions[c]]

Issue(c) ==
    /\ c \notin issued
    /\ issued' = issued \cup {c}
    /\ UNCHANGED completions

\* Some in-flight calls complete: one by a response or a deadline, all of them
\* when the connection fails.
Complete(S) ==
    /\ S # {} /\ S \subseteq InFlight
    /\ completions' = Completed(S)
    /\ UNCHANGED issued

\* A call completes before the channel returns from issuing it: it was refused,
\* or the connection failed under it and the in-flight calls S went with it.
Refuse(c, S) ==
    /\ c \notin issued
    /\ S \subseteq InFlight
    /\ issued' = issued \cup {c}
    /\ completions' = Completed(S \cup {c})

Next ==
    \/ \E c \in Calls : Issue(c)
    \/ \E S \in SUBSET Calls : Complete(S)
    \/ \E c \in Calls, S \in SUBSET Calls : Refuse(c, S)

Spec == Init /\ [][Next]_contractVars
=============================================================================
