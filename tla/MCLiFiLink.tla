----------------------------- MODULE MCLiFiLink -----------------------------
(***************************************************************************)
(* LiFiLink for TLC. The material that the run pushes is of one key, or    *)
(* has the id or the MAC key of another.                                   *)
(***************************************************************************)
EXTENDS LiFiLink

MCPushed == {b \in [id : Key, key : Key, mac : Key] : b.key \in {b.id, b.mac}}
=============================================================================
