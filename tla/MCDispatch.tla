----------------------------- MODULE MCDispatch -----------------------------
(* Hook line-ups and model turns for TLC.                                  *)
EXTENDS Dispatch, TLC

Fps == {"f", "g"}

KindOf(h) == CASE h \in {"b1", "b2", "budget"} -> "budget"
               [] h = "stuck"                  -> "stuck"
               [] h = "policy"                 -> "policy"

AllDecisions == {"Continue", "Skip", "Terminate"}

\* Two dispatches, each with a budget hook of its own over one guard: in one
\* the policy runs after the reservation, in the other before it.
TwoTasks == {"t1", "t2"}
PrivateHooks == {"b1", "b2", "policy"}
PrivateKind == [h \in PrivateHooks |-> KindOf(h)]
PrivateHooksOf == [t \in TwoTasks |-> IF t = "t1" THEN <<"b1", "policy">> ELSE <<"policy", "b2">>]
TwoCalls == [t \in TwoTasks |-> <<"f", "g">>]

\* Three dispatches over one budget hook and one stuck-loop hook.
ThreeTasks == {"t1", "t2", "t3"}
SharedHooks == {"budget", "stuck", "policy"}
SharedKind == [h \in SharedHooks |-> KindOf(h)]
SharedHooksOf ==
  [t \in ThreeTasks |-> CASE t = "t1" -> <<"stuck", "budget">>
                          [] t = "t2" -> <<"budget", "stuck", "policy">>
                          [] t = "t3" -> <<"stuck">>]
SameCall == [t \in ThreeTasks |-> IF t = "t1" THEN <<"f", "f">> ELSE <<"f">>]

\* Three dispatches whose only hook is the same budget hook.
BudgetOnly == {"budget"}
BudgetOnlyKind == [h \in BudgetOnly |-> "budget"]
BudgetOnlyHooksOf == [t \in ThreeTasks |-> <<"budget">>]
OneCall == [t \in ThreeTasks |-> <<"f">>]

\* One dispatch with an audit hook in front of its budget hook.
OneTask == {"t1"}
AuditHooks == {"policy", "budget"}
AuditKind == [h \in AuditHooks |-> KindOf(h)]
AuditHooksOf == [t \in OneTask |-> <<"policy", "budget">>]
AuditCalls == [t \in OneTask |-> <<"f">>]
=============================================================================
