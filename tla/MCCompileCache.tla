--------------------------- MODULE MCCompileCache ---------------------------
(* Instances of CompileCache: two processes on one session's cache, and    *)
(* two units whose digests collide, one of them rejected by the compiler.  *)
EXTENDS CompileCache, TLC

CONSTANTS p1, p2, n1, u1, u2, s1, s2, h1, d1

TwoProc == {p1, p2}
MCNames == {n1}

OneUnit == {u1}
TwoUnits == {u1, u2}
MCAccepts == {u1}
OwnSource == u1 :> s1 @@ u2 :> s2
MCHash == u1 :> h1 @@ u2 :> h1

SharedCache == p1 :> d1 @@ p2 :> d1
=============================================================================
