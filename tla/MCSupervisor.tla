--------------------------- MODULE MCSupervisor ----------------------------
(* Small instances of Supervisor for TLC: two descriptors that restart on *)
(* failure, the HTTP API and the MySQL API (both have a port, as every   *)
(* descriptor with restart_on_failure does in trunc_processes_struct).    *)
EXTENDS Supervisor, TLC

CONSTANTS http, mysql

MCServices == {http, mysql}
MCNeeded == {http, mysql}
MCPorted == {http, mysql}
MCRestartOnFailure == {http, mysql}
(* http: max_restart_count 1 within 1 second; mysql: 2 restarts, ever.    *)
MCMaxRestartCount == (http :> 1) @@ (mysql :> 2)
MCMaxRestartInterval == (http :> 1) @@ (mysql :> 0)
=============================================================================
