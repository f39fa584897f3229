------------------------------- MODULE SysEnv -------------------------------
(***************************************************************************)
(* co_hook_sys_call.cpp: environment variables of coroutines.  The names   *)
(* of co_set_env_list are kept in a sorted array; a hooked coroutine gets  *)
(* a copy of it, with values, at its first call.  Names are numbers, in    *)
(* the order of strcmp, and 0 is the empty name.                           *)
(***************************************************************************)
EXTENDS Sorting

CONSTANTS Co, Value,
          Unset,       \* NULL: no list, no array, no value
          MaxName,     \* the names are 1 .. MaxName
          MaxList      \* bound on the length of the program's list

ASSUME NameAssumption == MaxName \in Nat /\ MaxList \in Nat

Name == 1 .. MaxName

VARIABLES sysenv,   \* g_co_sysenv: Unset or the sorted names
          pvEnv,    \* [Co -> Unset or the coroutine's array of values]
          shared,   \* the environment of the process
          got       \* what the last getenv returned

envVars == <<sysenv, pvEnv, shared, got>>

Arrays == UNION {[1 .. n -> Name] : n \in 0 .. MaxList}
Values == UNION {[1 .. n -> Value \cup {Unset}] : n \in 0 .. MaxList}

ASSUME UnsetAssumption == Unset \notin Values

(* The types: an array of values has one for each of the names, which are   *)
(* sorted and all different, as bsearch needs them.                         *)
EnvTypeOK ==
  /\ sysenv \in Arrays \cup {Unset}
  /\ sysenv # Unset => \A i, j \in DOMAIN sysenv : i < j => sysenv[i] < sysenv[j]
  /\ pvEnv \in [Co -> Values \cup {Unset}]
  /\ \A co \in Co : pvEnv[co] # Unset => sysenv # Unset /\ DOMAIN pvEnv[co] = DOMAIN sysenv
  /\ shared \in [Name -> Value \cup {Unset}]
  /\ got \in Value \cup {Unset}

EnvInit == /\ sysenv = Unset
           /\ pvEnv = [co \in Co |-> Unset]
           /\ shared \in [Name -> Value \cup {Unset}]
           /\ got = Unset

---------------------------------------------------------------------------
(* The names that are not empty, in the order of the list. *)
Named(name) ==
  LET named[i \in 0 .. Len(name)] ==
        IF i = 0 THEN <<>>
        ELSE IF name[i] # 0 THEN Append(named[i - 1], name[i]) ELSE named[i - 1]
  IN  named[Len(name)]

(* Fault: two equal names after one another are found, a third one is not.  *)
DistinctTwice(s) ==
  Named([i \in DOMAIN s |-> IF i > 1 /\ i % 2 = 0 /\ s[i] = s[i - 1] THEN 0 ELSE s[i]])

(* The loop of co_set_env_list over the sorted names: lq goes through all,  *)
(* and lp is the last place that has a name to keep.                        *)
Distinct(s) ==
  LET keep[i \in 1 .. Len(s)] ==
        IF i = 1 THEN <<s[1]>>
        ELSE IF keep[i - 1][Len(keep[i - 1])] # s[i] THEN Append(keep[i - 1], s[i])
        ELSE keep[i - 1]
  IN  keep[Len(s)]

(* co_set_env_list: empty names are left out, and later calls are ignored.  *)
co_set_env_list(name) ==
  /\ sysenv = Unset
  /\ sysenv' = IF Len(Named(name)) > 1 THEN Distinct(Sorted(Named(name))) ELSE Named(name)
  /\ UNCHANGED <<pvEnv, shared, got>>

(* dup_co_sysenv_arr, at a coroutine's first call: no variable has a value. *)
Copy(co) == IF pvEnv[co] = Unset THEN [i \in DOMAIN sysenv |-> Unset] ELSE pvEnv[co]

(* Fault: the list is handed out itself and not copied, so that all hold    *)
(* the same values.                                                         *)
setenv_uncopied(co, n, value, overwrite) ==
  LET i == IF sysenv = Unset THEN 0 ELSE bsearch(sysenv, n)
  IN  /\ pvEnv' = IF sysenv = Unset THEN pvEnv
                  ELSE [c \in Co |-> IF i > 0 /\ (overwrite \/ Copy(co)[i] = Unset)
                                     THEN [Copy(co) EXCEPT ![i] = value] ELSE Copy(co)]
      /\ shared' = IF i = 0 /\ (overwrite \/ shared[n] = Unset)
                   THEN [shared EXCEPT ![n] = value] ELSE shared
      /\ UNCHANGED <<sysenv, got>>

(* setenv, by a coroutine that hooks. *)
setenv(co, n, value, overwrite) ==
  LET i == IF sysenv = Unset THEN 0 ELSE bsearch(sysenv, n)
  IN  /\ pvEnv' = IF sysenv = Unset THEN pvEnv
                  ELSE [pvEnv EXCEPT ![co] =
                          IF i > 0 /\ (overwrite \/ Copy(co)[i] = Unset)
                          THEN [Copy(co) EXCEPT ![i] = value] ELSE Copy(co)]
      /\ shared' = IF i = 0 /\ (overwrite \/ shared[n] = Unset)
                   THEN [shared EXCEPT ![n] = value] ELSE shared
      /\ UNCHANGED <<sysenv, got>>

unsetenv(co, n) ==
  LET i == IF sysenv = Unset THEN 0 ELSE bsearch(sysenv, n)
  IN  /\ pvEnv' = IF sysenv = Unset THEN pvEnv
                  ELSE [pvEnv EXCEPT ![co] = IF i > 0 THEN [Copy(co) EXCEPT ![i] = Unset]
                                             ELSE Copy(co)]
      /\ shared' = IF i = 0 THEN [shared EXCEPT ![n] = Unset] ELSE shared
      /\ UNCHANGED <<sysenv, got>>

getenv(co, n) ==
  LET i == IF sysenv = Unset THEN 0 ELSE bsearch(sysenv, n)
  IN  /\ pvEnv' = IF sysenv = Unset THEN pvEnv ELSE [pvEnv EXCEPT ![co] = Copy(co)]
      /\ got' = IF i > 0 THEN Copy(co)[i] ELSE shared[n]
      /\ UNCHANGED <<sysenv, shared>>

EnvNext == \/ \E len \in 0 .. MaxList : \E name \in [1 .. len -> 0 .. MaxName] :
                co_set_env_list(name)
           \/ \E co \in Co, n \in Name :
                \/ getenv(co, n) \/ unsetenv(co, n)
                \/ \E v \in Value, overwrite \in BOOLEAN : setenv(co, n, v, overwrite)

EnvSpec == EnvInit /\ [][EnvNext]_envVars

---------------------------------------------------------------------------
(* The arrays implement private variables: what one coroutine sets no other *)
(* sees, an unlisted name is the process's, and nothing is lost between the *)
(* list, the copies and the searches (setenv, unsetenv, getenv).            *)
Names == IF sysenv = Unset THEN {} ELSE {sysenv[i] : i \in DOMAIN sysenv}

Private == INSTANCE PrivateEnv WITH
             listed <- Names,
             private <- [co \in Co |-> [n \in Name |->
                           IF n \notin Names \/ pvEnv[co] = Unset THEN Unset
                           ELSE pvEnv[co][CHOOSE i \in DOMAIN sysenv : sysenv[i] = n]]]

PrivateSpec == Private!Spec
=============================================================================
