--------------------------- MODULE MCSupervisor ---------------------------
(* task_supervisor over a range of configurations.                         *)
EXTENDS Supervisor

ConfigsUpTo == [wdt_timeout_ms : 1..12, heartbeat_period_ms : 0..14]
===========================================================================
