------------------------------ MODULE MCPosix -------------------------------
(* Small instances of Posix. *)
EXTENDS Posix, TLC

MCFlags == {{"r", "w"}, {"w", "nonblock"}}
=============================================================================
