---------------------------- MODULE CallCounter ----------------------------
(***************************************************************************)
(* What the usage statistics promise: every request adds one call to the   *)
(* counter of its endpoint, at one moment before it is answered; the file  *)
(* keeps all the counters of some moment, or has been torn; a process that *)
(* starts goes on from what the file keeps.                                *)
(***************************************************************************)
EXTENDS Naturals

CONSTANTS
    Threads, Endpoints,
    MayTear     \* a write of the file may stop half-way

VARIABLES
    counted,    \* the calls of each endpoint
    kept,       \* those that a restart would find
    phase,      \* "idle", "called" or "counted"
    endpoint    \* where the request of each thread has come to

vars == <<counted, kept, phase, endpoint>>

Init ==
    /\ counted = [e \in Endpoints |-> 0] /\ kept = counted
    /\ phase = [t \in Threads |-> "idle"]
    /\ endpoint \in [Threads -> Endpoints]

Goto(t, from, to) == phase[t] = from /\ phase' = [phase EXCEPT ![t] = to]

Call(t, e) ==
    /\ Goto(t, "idle", "called")
    /\ endpoint' = [endpoint EXCEPT ![t] = e]
    /\ UNCHANGED <<counted, kept>>

Count(t) ==
    /\ Goto(t, "called", "counted")
    /\ counted' = [counted EXCEPT ![endpoint[t]] = @ + 1]
    /\ UNCHANGED <<kept, endpoint>>

Answer(t) ==
    /\ Goto(t, "counted", "idle")
    /\ UNCHANGED <<counted, kept, endpoint>>

Keep == kept' = counted /\ UNCHANGED <<counted, phase, endpoint>>

Tear == MayTear /\ kept' = [e \in Endpoints |-> 0] /\ UNCHANGED <<counted, phase, endpoint>>

Restart ==
    /\ counted' = kept
    /\ phase' = [t \in Threads |-> "idle"]
    /\ UNCHANGED <<kept, endpoint>>

Next ==
    \/ \E t \in Threads : (\E e \in Endpoints : Call(t, e)) \/ Count(t) \/ Answer(t)
    \/ Keep
    \/ Tear
    \/ Restart

Spec == Init /\ [][Next]_vars

=============================================================================
