-------------------------- MODULE ScriptInstances ---------------------------
(***************************************************************************)
(* sms_route_sync.py as it is run: each process of SingleInstance executes *)
(* the cycles of RouteSync once ensure_single_instance has let it through, *)
(* beside the push thread and the other processes.                         *)
(***************************************************************************)
EXTENDS RouteSync, SingleInstance

ASSUME InstancesAssumption == Syncs = Pids

scriptVars == <<allVars, instVars>>

ScriptInit == SInit /\ InstInit

Gateway ==
    /\ (\E k \in Kinds : InsertKind(k)) \/ PushMark \/ PushOther
    /\ UNCHANGED instVars

\* run_sync_cycle is called only while the instance runs.
Cycle(s) ==
    /\ phase[s] = "run"
    /\ SyncStep(s) \/ Abort(s)
    /\ UNCHANGED instVars

Manage(s) == InstStep(s) /\ UNCHANGED allVars

\* A stop waits for the end of the cycle.
LeaveLoop(s) == At(s, "idle") /\ Leave(s) /\ UNCHANGED allVars

\* The server rolls the transaction of a process that dies back.
Die(s) == Kill(s) /\ IF At(s, "idle") THEN UNCHANGED allVars ELSE Abort(s)

ScriptNext ==
    \/ Gateway
    \/ \E s \in Syncs : Cycle(s) \/ Manage(s) \/ LeaveLoop(s) \/ Die(s)

ScriptSpec == ScriptInit /\ [][ScriptNext]_scriptVars

-----------------------------------------------------------------------------
\* However often the script is started, stopped and killed, a command takes
\* effect once at most, unless two starts overlapped or a running instance was
\* taken for gone (lines 141-174, 797-818).
OnceUnlessTogether == "together" \notin history => ExecutedOnce

-----------------------------------------------------------------------------
(* The inductive invariant OnceUnlessTogether follows from                 *)

\* The rows a transaction works on or has executed.
Claimed(s) == sync[s].rows \cup {sync[s].cur} \cup sync[s].effect

\* Only a running instance has a transaction, and what it executed has its
\* status in it, the present row apart.
TransactionsIInv ==
    \A s \in Syncs :
        /\ ~At(s, "idle") => phase[s] = "run"
        /\ At(s, "idle") => sync[s] = Between
        /\ sync[s].effect \subseteq LockedBy(s) \cup
             (IF sync[s].pc \in {"notice", "mark", "fail"} THEN {sync[s].cur} ELSE {})

\* A command that took effect has its status, and no transaction works on it.
EffectsIInv ==
    "together" \notin history =>
        \A i \in Ids :
            /\ effects[i] \in {0, 1}
            /\ effects[i] = 1 => i \in sent
            /\ \A s \in Syncs : i \in Claimed(s) => effects[i] = 0

ScriptIInv ==
    /\ rows \in Nat
    /\ sync \in [Syncs -> SyncRecords]
    /\ effects \in Seq(Nat) /\ Len(effects) = rows
    /\ ExclusiveIInv
    /\ TransactionsIInv
    /\ EffectsIInv
=============================================================================
