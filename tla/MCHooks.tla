------------------------------ MODULE MCHooks ------------------------------
(* Instances of Hooks for TLC.  The jobs have the shape of the 64-bit ones: *)
(* a jump beside its pattern (script error), a function (define), a jump    *)
(* inside its pattern that needs the function before it (constructor), and  *)
(* a function with a wildcard in its pattern (engine alive).  One flag      *)
(* stands for the six that are set without a hook.                          *)
EXTENDS Hooks

MCJobs ==
  <<[name |-> "error", place |-> TRUE, pattern |-> <<"a", "b">>,
     offset |-> 2, back |-> 1, needs |-> 0],
    [name |-> "define", place |-> FALSE, pattern |-> <<"b", "b">>,
     offset |-> 0, back |-> 0, needs |-> 0],
    [name |-> "constructor", place |-> TRUE, pattern |-> <<"b", "?", "a">>,
     offset |-> 1, back |-> 0, needs |-> 2],
    [name |-> "alive", place |-> FALSE, pattern |-> <<"a", "?", "b">>,
     offset |-> 0, back |-> 0, needs |-> 0]>>
=============================================================================
