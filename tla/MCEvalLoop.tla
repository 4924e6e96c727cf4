----------------------------- MODULE MCEvalLoop -----------------------------
(* Instances of EvalLoop for TLC. *)
EXTENDS EvalLoop

\* One task of each kind that occurs in assets/xml.
Task(s, o, t) == [suite |-> s, obj |-> o, target |-> t]
AssetTasks ==
  {Task("spatial", TRUE, TRUE), Task("object", FALSE, TRUE),
   Task("scene10", FALSE, TRUE), Task("scene90", TRUE, TRUE)}
=============================================================================
