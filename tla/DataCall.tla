------------------------------- MODULE DataCall -------------------------------
(***************************************************************************)
(* The state of the modules that call algorithms on values: an action      *)
(* calls one of them on an input of a bounded set and holds what it        *)
(* returns; the properties are about that.                                 *)
(***************************************************************************)
VARIABLE call   \* [fn, the arguments, out] of the last call

Calls(f) == call.fn = f
Idle == Calls("none")
Init == call = [fn |-> "none"]

\* The program goes on: the next call is independent of this one.
Return == ~Idle /\ call' = [fn |-> "none"]
=============================================================================
