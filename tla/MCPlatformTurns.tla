---------------------------- MODULE MCPlatformTurns ----------------------------
(* One room in which two messages are written.                               *)
EXTENDS PlatformTurns
=============================================================================
