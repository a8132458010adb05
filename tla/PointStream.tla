----------------------------- MODULE PointStream -----------------------------
(***************************************************************************)
(* What a motion goal promises the RAPID routine at the other end of the   *)
(* queue, and the client that waits for its result, with the symbols, the  *)
(* retries and the lifecycle left out.  The routine is given one goal's    *)
(* points, each once and in order, and a mark on the last of them, which   *)
(* is the last the goal has or the one that followed a cancel.  A point    *)
(* that was given is not taken back, and no goal begins before the routine *)
(* has taken all points of the one before.  A goal succeeds only when all  *)
(* its points were given.  Once somebody else has run a routine in         *)
(* between, or a symbol was not set, nothing is promised any more.         *)
(***************************************************************************)
EXTENDS Naturals, Sequences

CONSTANTS Goals, MaxPoints

VARIABLES
  status,           \* status[g]: the goal as its client sees it
  total,            \* total[g]: the number of its points
  stream,           \* the points given since a goal began
  taken,            \* how many of them the routine has taken
  disturbed         \* the promise is off

vars == <<status, total, stream, taken, disturbed>>

Init ==
  /\ status = [g \in Goals |-> "unknown"]
  /\ total = [g \in Goals |-> 0]
  /\ stream = <<>> /\ taken = 0 /\ disturbed = FALSE

Running(g) == status[g] \in {"executing", "canceling"}

Marked == \E i \in DOMAIN stream : stream[i].userdef = "2"

Ask(g, n) ==
  /\ status[g] = "unknown"
  /\ total' = [total EXCEPT ![g] = n]
  /\ UNCHANGED <<status, stream, taken>>

Begin(g) ==
  /\ total[g] # 0 /\ \A h \in Goals : status[h] = "unknown"
  /\ taken = Len(stream)
  /\ status' = [status EXCEPT ![g] = "executing"]
  /\ stream' = <<>> /\ taken' = 0
  /\ UNCHANGED total

Cancel(g) ==
  /\ status[g] = "executing"
  /\ status' = [status EXCEPT ![g] = "canceling"]
  /\ UNCHANGED <<total, stream, taken>>

(* The point may arrive though its answer does not, and the goal fails.    *)
Give(g) ==
  /\ Running(g) /\ Len(stream) < total[g] /\ ~Marked
  /\ LET last == Len(stream) + 1 = total[g] \/ status[g] = "canceling"
     IN  stream' = Append(stream, [index |-> Len(stream) + 1,
                                   userdef |-> IF last THEN "2" ELSE "1"])
  /\ status' \in {status, [status EXCEPT ![g] = "aborted"]}
  /\ UNCHANGED <<total, taken>>

Take ==
  /\ taken < Len(stream)
  /\ taken' = taken + 1
  /\ UNCHANGED <<status, total, stream>>

End(g, result) ==
  /\ Running(g)
  /\ result = "succeeded" => status[g] = "executing" /\ Len(stream) = total[g] /\ Marked
  /\ result = "canceled" => status[g] = "canceling" /\ stream # <<>>
  /\ status' = [status EXCEPT ![g] = result]
  /\ UNCHANGED <<total, stream, taken>>

Forget(g) ==
  /\ status' = [status EXCEPT ![g] = "unknown"]
  /\ total' = [total EXCEPT ![g] = 0]
  /\ UNCHANGED <<stream, taken>>

Step ==
  \/ \E g \in Goals :
       \/ \E n \in 0..MaxPoints : Ask(g, n)
       \/ Begin(g) \/ Cancel(g) \/ Give(g) \/ Forget(g)
       \/ \E result \in {"succeeded", "canceled", "aborted"} : End(g, result)
  \/ Take

Next ==
  \/ ~disturbed /\ ~disturbed' /\ Step
  \/ disturbed'

Spec == Init /\ [][Next]_vars

=============================================================================
