------------------------------ MODULE MCEngine ------------------------------
(* Small instances of Engine for TLC. *)
EXTENDS Engine

CONSTANTS r1, r2, r3, r4, httpGet, sprintf, exec

\* sprintf stands for any other function, as in the tests of the engines.
Functions == {httpGet, sprintf}

\* exec stands for one that is not whitelisted.
Names == Functions \union {exec}

\* r1 makes a complete call and one without its URL; r2 one with many arguments.
ExprCalls == [r \in Request |->
  CASE r = r1 -> <<[fn |-> httpGet, args |-> 1], [fn |-> httpGet, args |-> 0]>>
    [] r = r2 -> <<[fn |-> sprintf, args |-> 9]>>
    [] OTHER -> <<>>]

\* r2 uses the last overload, r3 would need one more, and r4 another function.
CELCalls == [r \in Request |->
  CASE r = r1 -> <<[fn |-> httpGet, args |-> 1], [fn |-> httpGet, args |-> 0]>>
    [] r = r2 -> <<[fn |-> sprintf, args |-> 8]>>
    [] r = r3 -> <<[fn |-> sprintf, args |-> 9]>>
    [] OTHER -> <<[fn |-> exec, args |-> 0]>>]
=============================================================================
