----------------------------- MODULE PrivateEnv -----------------------------
(***************************************************************************)
(* What co_set_env_list promises: the listed environment variables are     *)
(* private to each coroutine that hooks, and all others are the process's. *)
(***************************************************************************)
CONSTANTS Co, Name, Value, Unset

VARIABLES listed,   \* the names that are private
          private,  \* [Co -> [Name -> Value or Unset]]
          shared,   \* [Name -> Value or Unset]
          got       \* what the last getenv returned

vars == <<listed, private, shared, got>>

Env == [Name -> Value \cup {Unset}]

Init == /\ listed = {}
        /\ private = [co \in Co |-> [n \in Name |-> Unset]]
        /\ shared \in Env
        /\ got = Unset

(* The list is made once. *)
SetList == /\ listed = {}
           /\ listed' \in SUBSET Name
           /\ UNCHANGED <<private, shared, got>>

(* v is Unset for unsetenv, and old says that a value there is left alone.   *)
Set(co, n, v, old) ==
  /\ IF n \in listed
     THEN /\ private' = IF old /\ private[co][n] # Unset THEN private
                        ELSE [private EXCEPT ![co][n] = v]
          /\ UNCHANGED shared
     ELSE /\ shared' = IF old /\ shared[n] # Unset THEN shared ELSE [shared EXCEPT ![n] = v]
          /\ UNCHANGED private
  /\ UNCHANGED <<listed, got>>

Get(co, n) == /\ got' = IF n \in listed THEN private[co][n] ELSE shared[n]
              /\ UNCHANGED <<listed, private, shared>>

Next == \/ SetList
        \/ \E co \in Co, n \in Name :
             \/ Get(co, n)
             \/ \E v \in Value \cup {Unset}, old \in BOOLEAN : Set(co, n, v, old)

Spec == Init /\ [][Next]_vars
=============================================================================
