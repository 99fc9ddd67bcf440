---------------------------- MODULE MCDispatcher ----------------------------
(* Dispatcher for TLC: what sequences the requests may have.                 *)
EXTENDS Dispatcher

\* What executePluginByNameHandler builds: one module, one step.
OneStep == {<<"single">>}

\* What the types allow: no step, several steps, a group among them.
AnySteps == {<<>>, <<"single">>, <<"single", "single">>, <<"single", "group">>}
=============================================================================
