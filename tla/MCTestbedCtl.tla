--------------------------- MODULE MCTestbedCtl ---------------------------
(* TestbedCtl for TLC: an invocation over all services of the instance, and*)
(* one that works on single services at the same time.                     *)
EXTENDS TestbedCtl

CONSTANTS p1, p2

Line(c, b) == [command |-> c, backend |-> b]

MCLines ==
    (p1 :> {Line("check", "all"), Line("verify", "sql"), Line("health", "directory")})
    @@ (p2 :> {Line("reset", "mysql")})

=============================================================================
