------------------------------ MODULE MCExecutor ------------------------------
(***************************************************************************)
(* WHERE clauses for the executor: every kind of plan, with bounds in gaps *)
(* and on separators and a condition on the other column, which the plan   *)
(* knows nothing of.                                                       *)
(***************************************************************************)
EXTENDS Executor

Key(op, value) == [op |-> op, left |-> Column("key"), right |-> Constant(value)]
Odd == [op |-> "=", left |-> Constant(1), right |-> Column("other")]

MCWheres ==
  {<<>>, <<Key(">", KeyMax)>>, <<Key("=", 3)>>,
   <<Key(">=", 1), Key("<", 3)>>, <<Odd, Key(">", 2), Key("!=", 5)>>}

=============================================================================
