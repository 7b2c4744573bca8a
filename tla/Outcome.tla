------------------------------ MODULE Outcome ------------------------------
(***************************************************************************)
(* What Shepherdr promises about an answer to a request that changes       *)
(* something in Herdr, whatever the way it takes: "not_done" says that     *)
(* nothing of it happened or will happen, "done" that all of it has, and   *)
(* "unknown" claims neither.  The results of terminal input, keys and file *)
(* sends (internal/server/terminal_batch.go, terminal_keys.go) and those   *)
(* of the actions (workspace_actions.go) are of these three kinds.         *)
(***************************************************************************)

CONSTANT Requests

VARIABLES
    effect,  \* how much of each request happened in Herdr: "none", "some" or "all"
    answer   \* each request's answer, "pending" until it has one

Effects == {"none", "some", "all"}
Answers == {"pending", "not_done", "done", "unknown"}

Init ==
    /\ effect = [r \in Requests |-> "none"]
    /\ answer = [r \in Requests |-> "pending"]

\* More of the request happens: before its answer, or after one that left open
\* whether it would.
Act(r) ==
    /\ answer[r] \in {"pending", "unknown"} /\ effect[r] # "all"
    /\ \E more \in {"some", "all"} : effect' = [effect EXCEPT ![r] = more]
    /\ UNCHANGED answer

\* The answer, and what it claims about the effect, which the same step may
\* have completed.
Answer(r, given) ==
    /\ answer[r] = "pending"
    /\ answer' = [answer EXCEPT ![r] = given]
    /\ \E now \in Effects :
          /\ effect' = [effect EXCEPT ![r] = now]
          /\ effect[r] # "none" => now # "none"
          /\ effect[r] = "all" => now = "all"
          /\ given = "not_done" => now = "none"
          /\ given = "done" => now = "all"

Next == \E r \in Requests : Act(r) \/ \E given \in {"not_done", "done", "unknown"} : Answer(r, given)

vars == <<effect, answer>>
Spec == Init /\ [][Next]_vars

-----------------------------------------------------------------------------
TypeOK == effect \in [Requests -> Effects] /\ answer \in [Requests -> Answers]

\* An answer is never wrong, and stays right: what was answered "not_done" does
\* not happen later, and what was answered "done" was done in full.
Truthful ==
    \A r \in Requests : /\ answer[r] = "not_done" => effect[r] = "none"
                        /\ answer[r] = "done" => effect[r] = "all"

=============================================================================
