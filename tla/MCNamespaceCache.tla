-------------------------- MODULE MCNamespaceCache --------------------------
(* The connect thread and one worker; tables that grow, swap two entries,   *)
(* lose one and name one twice.                                             *)
EXTENDS NamespaceCache

CONSTANTS connecting, worker, none, machinery, tools, noUri

MCWorkers == {worker}
MCUris == {machinery, tools}
MCTables == {<<machinery>>, <<machinery, tools>>, <<tools, machinery>>,
             <<machinery, machinery>>}
=============================================================================
