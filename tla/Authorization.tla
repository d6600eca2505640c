---------------------------- MODULE Authorization ----------------------------
(***************************************************************************)
(* What the gateway promises about authorisation, with no snapshots,       *)
(* reloads or checks in it: a request is performed only if one policy that *)
(* was in force at some moment of its life permits it.  A policy is never  *)
(* mixed from two; a request that starts after a policy was replaced is    *)
(* never judged by it.  Module Gateway implements this.                    *)
(***************************************************************************)
CONSTANTS
    Request,        \* requests that may be under way at once
    Policy,         \* what can be in force
    Call,           \* what a request can ask for
    NoCall,         \* nothing is asked for
    Permits(_, _)   \* Permits(q, c): policy q lets call c through

VARIABLES
    policy,     \* the policy in force
    stage,      \* "idle", "pending" or "performed"
    call,       \* what a request asks for
    inForce     \* the policies in force since the request arrived

authVars == <<policy, stage, call, inForce>>

Init ==
    /\ policy \in Policy
    /\ stage = [r \in Request |-> "idle"]
    /\ call = [r \in Request |-> NoCall]
    /\ inForce = [r \in Request |-> {}]

Ask(r) ==
    /\ stage[r] = "idle"
    /\ stage' = [stage EXCEPT ![r] = "pending"]
    /\ \E c \in Call : call' = [call EXCEPT ![r] = c]
    /\ inForce' = [inForce EXCEPT ![r] = {policy}]
    /\ UNCHANGED policy

Perform(r) ==
    /\ stage[r] = "pending"
    /\ \E q \in inForce[r] : Permits(q, call[r])
    /\ stage' = [stage EXCEPT ![r] = "performed"]
    /\ UNCHANGED <<policy, call, inForce>>

Close(r) ==
    /\ stage[r] # "idle"
    /\ stage' = [stage EXCEPT ![r] = "idle"]
    /\ call' = [call EXCEPT ![r] = NoCall]
    /\ inForce' = [inForce EXCEPT ![r] = {}]
    /\ UNCHANGED policy

Replace ==
    /\ policy' \in Policy
    /\ inForce' = [r \in Request |->
                      IF stage[r] = "idle" THEN {} ELSE inForce[r] \cup {policy'}]
    /\ UNCHANGED <<stage, call>>

Next ==
    \/ \E r \in Request : Ask(r) \/ Perform(r) \/ Close(r)
    \/ Replace

Spec == Init /\ [][Next]_authVars
=============================================================================
