--------------------------- MODULE PlannerPromise ---------------------------
(***************************************************************************)
(* What a planner promises to the pipeline that commits its plan, whatever *)
(* the model answers: nothing, or once one plan that gives every selected  *)
(* file to exactly one commit, in the order of the first files, under a    *)
(* known type and with a text that keeps the rules of the subject.         *)
(***************************************************************************)
EXTENDS Integers, Sequences, FiniteSets

CONSTANT Types   \* the commit types of the convention

VARIABLES files, answer

NoAnswer == [kind |-> "none", commits |-> <<>>]
Refusal == [kind |-> "error", commits |-> <<>>]

First(S) == CHOOSE f \in S : \A g \in S : f <= g

IsPlan(commits) ==
  /\ commits # <<>>
  /\ UNION {commits[i].files : i \in DOMAIN commits} = files
  /\ \A i \in DOMAIN commits :
       /\ commits[i].files # {} /\ commits[i].type \in Types /\ commits[i].text = "good"
       /\ \A j \in DOMAIN commits : i < j =>
            /\ commits[i].files \cap commits[j].files = {}
            /\ First(commits[i].files) < First(commits[j].files)

Init == answer = NoAnswer
Give ==
  /\ answer = NoAnswer
  /\ \/ answer' = Refusal
     \/ answer'.kind = "plan" /\ IsPlan(answer'.commits)
  /\ UNCHANGED files
\* A plan that the user does not want is asked for again, for the same files
\* or others.
AskAgain == answer.kind = "plan" /\ answer' = NoAnswer
Next == Give \/ AskAgain
Spec == Init /\ [][Next]_<<files, answer>>
=============================================================================
