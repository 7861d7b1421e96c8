------------------------- MODULE MCModuleLifecycle -------------------------
(* Two versions of one module and a module of another name. *)
EXTENDS ModuleLifecycle
CONSTANTS search1, search2, cron
MCModules == {search1, search2, cron}
MCNames == {"web-search", "scheduler"}
MCNameOf == [m \in MCModules |-> IF m = cron THEN "scheduler" ELSE "web-search"]
=============================================================================
