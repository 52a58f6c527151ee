------------------------------ MODULE MCLaunch ------------------------------
(* Launch with one built-in screensaver, a script and a library of its     *)
(* name, a script of another, and a file that is neither.                  *)
EXTENDS Launch

MCBuiltins == <<"denabase">>

MCFiles == {[name |-> "denabase", source |-> "LUA"],
            [name |-> "denabase", source |-> "DYNAMIC"],
            [name |-> "mine", source |-> "LUA"],
            [name |-> "mine", source |-> "OTHER"]}
=============================================================================
