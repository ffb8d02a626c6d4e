-------------------------- MODULE MCPluginExecution --------------------------
(* Small instances of PluginExecution.                                      *)
EXTENDS PluginExecution

CONSTANTS p1, p2, p3, p4

C(plugin, phase) == [plugin |-> plugin, phase |-> phase]
A(kind, public) == [kind |-> kind, public |-> public]

(* p1 contributes twice with another Plugin between, p4 has no disposer and *)
(* p3 no registration.                                                      *)
MCPlans ==
  {<<>>,
   <<C(p1, "analyze"), C(p2, "analyze"), C(p1, "render"), C(p4, "render")>>,
   <<C(p2, "analyze"), C(p3, "render")>>}

MCArtifactLists ==
  {<<>>,
   <<A("trace", FALSE), A("trace", TRUE), A(Prompt, TRUE)>>}

MCPolicy ==
  [primary |-> Prompt, alternatives |-> {Prompt}, exposed |-> {"trace"}]
=============================================================================
