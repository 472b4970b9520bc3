-------------------------- MODULE MCSchedulerTasks --------------------------
(* Two targets that share one permit; a kind with two methods.             *)
EXTENDS SchedulerTasks

MCNodeOf == <<"n1", "n2">>
MCMethods == <<"service", "version">>
=============================================================================
