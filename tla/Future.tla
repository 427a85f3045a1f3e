------------------------------- MODULE Future -------------------------------
(***************************************************************************)
(* What a scheduled coroutine promises to those who peek at it or await it *)
(* (cubez.h, "Coroutines"): it is started once, ends once, and is answered *)
(* once, after it has ended; from then on every peek sees that answer.     *)
(* CoroScheduler is the implementation.                                    *)
(***************************************************************************)
CONSTANTS
  Coros,
  Answers,   \* what a peek may see of a coroutine that is answered
  Unset      \* what it sees before: qbFuture

VARIABLES stage, answer

Init ==
  /\ stage = [c \in Coros |-> "unscheduled"]
  /\ answer = [c \in Coros |-> Unset]

Schedule(c) ==
  /\ stage[c] = "unscheduled"
  /\ stage' = [stage EXCEPT ![c] = "scheduled"]
  /\ UNCHANGED answer

\* The entry returns.
End(c) ==
  /\ stage[c] = "scheduled"
  /\ stage' = [stage EXCEPT ![c] = "ended"]
  /\ UNCHANGED answer

Answer(c) ==
  /\ stage[c] = "ended" /\ answer[c] = Unset
  /\ \E a \in Answers : answer' = [answer EXCEPT ![c] = a]
  /\ UNCHANGED stage

Next == \E c \in Coros : Schedule(c) \/ End(c) \/ Answer(c)

Spec == Init /\ [][Next]_<<stage, answer>>
=============================================================================
