--------------------------- MODULE ConfigSettings ---------------------------
(***************************************************************************)
(* What a tedge command promises about the settings of tedge.toml: each    *)
(* setting has one value; `tedge config set` (update_toml) sets one        *)
(* setting in one indivisible step, which happens at most once between the *)
(* call and its return, and nothing else, a load and its migration         *)
(* included, changes a setting.  A call that is refused or killed before   *)
(* its step has no effect.  Return values are not part of this promise.   *)
(* ConfigStore, run by one process at a time, is shown to refine this     *)
(* module.                                                                 *)
(***************************************************************************)
CONSTANTS Procs, Keys, Vals, NoVal

VARIABLES vals,    \* vals[k]: the value of setting k, NoVal when unset
          call     \* call[p]: the update_toml call of process p

Calls == [st: {"idle", "pending", "done"}, k: Keys, v: Vals]

NoCall == [st |-> "idle", k |-> CHOOSE k \in Keys : TRUE,
           v |-> CHOOSE v \in Vals : TRUE]

vars == <<vals, call>>

Init == /\ vals \in [Keys -> Vals \cup {NoVal}]
        /\ call = [p \in Procs |-> NoCall]

\* update_toml(k := v) is called.
Begin(p, k, v) == /\ call[p].st = "idle"
                  /\ call' = [call EXCEPT ![p] = [st |-> "pending", k |-> k, v |-> v]]
                  /\ UNCHANGED vals

\* Its one effect: the setting takes the value.
Commit(p) == /\ call[p].st = "pending"
             /\ vals' = [vals EXCEPT ![call[p].k] = call[p].v]
             /\ call' = [call EXCEPT ![p].st = "done"]

\* The call ends: returned or killed, with or without its effect.
End(p) == /\ call[p].st # "idle"
          /\ call' = [call EXCEPT ![p] = NoCall]
          /\ UNCHANGED vals

Next == \E p \in Procs : \/ \E k \in Keys, v \in Vals : Begin(p, k, v)
                         \/ Commit(p) \/ End(p)

Spec == Init /\ [][Next]_vars
=============================================================================
