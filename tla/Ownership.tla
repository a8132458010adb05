------------------------------ MODULE Ownership ------------------------------
(***************************************************************************)
(* What the lifecycle of a node promises the code of its handlers, with    *)
(* the states reduced to three modes: the node is free, held by one call,  *)
(* or closed for good.  A call acquires a free node, and the node becomes  *)
(* free again only by a step of the call that holds it.  A call may also   *)
(* abandon the node: its exception escapes, and no call ever acquires the  *)
(* node again.                                                             *)
(***************************************************************************)
CONSTANT Callers    \* the calls that handlers serve

VARIABLES holders,  \* the calls that hold the node: at most one
          mode      \* "free", "held" or "closed"

vars == <<holders, mode>>

Init == holders = {} /\ mode = "free"

Acquire(c) ==
  /\ mode = "free" /\ holders = {}
  /\ mode' = "held" /\ holders' = {c}

Release(c) ==
  /\ mode = "held" /\ holders = {c}
  /\ mode' = "free" /\ holders' = {}

Abandon(c) ==
  /\ mode = "held" /\ holders = {c}
  /\ mode' = "closed" /\ holders' = {}

Close ==
  /\ mode = "free"
  /\ mode' = "closed"
  /\ UNCHANGED holders

Next ==
  \/ \E c \in Callers : Acquire(c) \/ Release(c) \/ Abandon(c)
  \/ Close

Spec == Init /\ [][Next]_vars

=============================================================================
