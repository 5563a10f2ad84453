--------------------------- MODULE SingleInstance ---------------------------
(***************************************************************************)
(* The PID file of sms_route_sync.py: main calls ensure_single_instance,   *)
(* runs cycles and calls remove_pid_file.  Every access to the file is a   *)
(* step of its own, a process may be killed between any two, and the       *)
(* system gives the id of a process that ended to another one.             *)
(*                                                                         *)
(* os.kill(pid, 0) finds a process of that id if there is one and it may   *)
(* be signalled.  Any OSError counts as its absence, which on POSIX may be *)
(* the PermissionError for a live process of another user, and on Windows, *)
(* where signal 0 is CTRL_C_EVENT, the error for one without a console.    *)
(***************************************************************************)
CONSTANT Pids  \* ids of processes

VARIABLES
    pidFile, \* what the file holds: a pid, "empty", or "none" if there is none
    phase,   \* what the process of each id does, see Phases
    seen,    \* the pid each process read from the file
    writers, \* processes that have the present file open for writing
    history  \* "together": two starts overlapped, or a start took a running
             \* instance for gone; "reuse": an id the file or a start names
             \* was given to a new process

instVars == <<pidFile, phase, seen, writers, history>>

ASSUME PidsAssumption == Pids \cap {"none", "empty"} = {}

\* The steps of ensure_single_instance, of a run and of remove_pid_file.
StartPhases == {"look", "read", "probe", "remove", "open", "write"}
RunPhases == {"run", "leave", "unlink"}
Phases == StartPhases \cup RunPhases \cup {"off", "foreign"}

Starting == {p \in Pids : phase[p] \in StartPhases}
Running == {p \in Pids : phase[p] \in RunPhases}
Alive(p) == phase[p] # "off"

\* The ids that tell a start of an instance: in the file, or read from it.
Named == {pidFile} \cup {seen[q] : q \in {q \in Pids : phase[q] = "probe"}}

InstInit ==
    /\ pidFile = "none"
    /\ phase = [p \in Pids |-> "off"]
    /\ seen = [p \in Pids |-> "none"]
    /\ writers = {}
    /\ history = {}

Goto(p, place) == phase' = [phase EXCEPT ![p] = place]

-----------------------------------------------------------------------------
(* ensure_single_instance                                                  *)

Launch(p) ==
    /\ phase[p] = "off"
    /\ Goto(p, "look")
    /\ history' = history \cup {h \in {"together"} : Starting # {}}
                          \cup {h \in {"reuse"} : p \in Named}
    /\ UNCHANGED <<pidFile, seen, writers>>

LookForFile(p) ==
    /\ phase[p] = "look"
    /\ Goto(p, IF pidFile = "none" THEN "open" ELSE "read")
    /\ UNCHANGED <<pidFile, seen, writers, history>>

\* A file that is gone by now, or holds no number, counts as invalid.
ReadFile(p) ==
    /\ phase[p] = "read"
    /\ IF pidFile \in Pids
       THEN seen' = [seen EXCEPT ![p] = pidFile] /\ Goto(p, "probe")
       ELSE UNCHANGED seen /\ Goto(p, "remove")
    /\ UNCHANGED <<pidFile, writers, history>>

\* A process of that id exists: the start is refused and main returns 1.
Mut_Refuse(p) ==
    /\ phase[p] = "probe"
    /\ Alive(seen[p])
    /\ Goto(p, "leave")
    /\ UNCHANGED <<pidFile, seen, writers, history>>
MutBlind_Refuse(p) ==
    /\ phase[p] = "probe"
    /\ Goto(p, "off")
    /\ UNCHANGED <<pidFile, seen, writers, history>>
Refuse(p) ==
    /\ phase[p] = "probe"
    /\ Alive(seen[p])
    /\ Goto(p, "off")
    /\ UNCHANGED <<pidFile, seen, writers, history>>

FindStale(p) ==
    /\ phase[p] = "probe"
    /\ Goto(p, "remove")
    /\ history' = history \cup {h \in {"together"} : seen[p] \in Running}
    /\ UNCHANGED <<pidFile, seen, writers>>

\* os.remove raises if the file is gone, and nothing catches it.
RemoveFile(p) ==
    /\ phase[p] = "remove"
    /\ Goto(p, IF pidFile = "none" THEN "off" ELSE "open")
    /\ pidFile' = "none"
    /\ writers' = {}
    /\ UNCHANGED <<seen, history>>

\* open(pid_file, "w") creates the file or empties the one that is there.
OpenFile(p) ==
    /\ phase[p] = "open"
    /\ Goto(p, "write")
    /\ pidFile' = "empty"
    /\ writers' = writers \cup {p}
    /\ UNCHANGED <<seen, history>>

\* What is written to a file that was removed meanwhile is in no file.
WriteFile(p) ==
    /\ phase[p] = "write"
    /\ Goto(p, "run")
    /\ pidFile' = IF p \in writers THEN p ELSE pidFile
    /\ writers' = writers \ {p}
    /\ UNCHANGED <<seen, history>>

-----------------------------------------------------------------------------
(* The end of a run                                                        *)

\* --run-once is through, or a signal set STOP_REQUESTED, which is looked at
\* between cycles.
Leave(p) ==
    /\ phase[p] = "run"
    /\ Goto(p, "leave")
    /\ UNCHANGED <<pidFile, seen, writers, history>>

\* remove_pid_file removes whatever file is there, and catches OSError.
LookOnceMore(p) ==
    /\ phase[p] = "leave"
    /\ Goto(p, IF pidFile = "none" THEN "off" ELSE "unlink")
    /\ UNCHANGED <<pidFile, seen, writers, history>>

Unlink(p) ==
    /\ phase[p] = "unlink"
    /\ Goto(p, "off")
    /\ pidFile' = "none"
    /\ writers' = {}
    /\ UNCHANGED <<seen, history>>

\* SIGKILL, a power failure, or the end of a foreign process.
Kill(p) ==
    /\ phase[p] # "off"
    /\ Goto(p, "off")
    /\ writers' = writers \ {p}
    /\ UNCHANGED <<pidFile, seen, history>>

\* The system starts another program under a free id.
Occupy(p) ==
    /\ phase[p] = "off"
    /\ Goto(p, "foreign")
    /\ history' = history \cup {h \in {"reuse"} : p \in Named}
    /\ UNCHANGED <<pidFile, seen, writers>>

-----------------------------------------------------------------------------
\* Every step but Leave and Kill, which end what the process does in between.
InstStep(p) ==
    \/ Launch(p) \/ LookForFile(p) \/ ReadFile(p) \/ Refuse(p) \/ FindStale(p)
    \/ RemoveFile(p) \/ OpenFile(p) \/ WriteFile(p)
    \/ LookOnceMore(p) \/ Unlink(p) \/ Occupy(p)

InstNext == \E p \in Pids : InstStep(p) \/ Leave(p) \/ Kill(p)

InstSpec == InstInit /\ [][InstNext]_instVars

-----------------------------------------------------------------------------
\* Unless two starts overlapped or the probe took a running instance for gone,
\* one instance runs at most, and the file names it until it removes the file,
\* wherever processes are killed (ensure_single_instance, lines 141-174).
Exclusive ==
    "together" \notin history =>
        \A p \in Running : Running = {p} /\ pidFile = p

\* A start is refused because an instance runs, unless two starts overlapped,
\* a running instance was taken for gone, or the id of an instance that ended
\* belongs to a new process, be it the one that is refused (lines 151-153).
RefusedForACause ==
    [][\A p \in Pids : Refuse(p) => Running # {} \/ history # {}]_instVars

InstTypeOK ==
    /\ pidFile \in Pids \cup {"none", "empty"}
    /\ phase \in [Pids -> Phases]
    /\ seen \in [Pids -> Pids \cup {"none"}]
    /\ writers \subseteq Pids
    /\ history \subseteq {"together", "reuse"}

\* What Exclusive rests on: at most one process starts, and from the moment it
\* may touch the file nobody runs, unless the file is not the one it saw.
ExclusiveIInv ==
    /\ InstTypeOK
    /\ "together" \notin history =>
        /\ \A p, q \in Starting : p = q
        /\ \A p \in Running : Running = {p} /\ pidFile = p
        /\ \A p \in Pids :
            /\ phase[p] = "probe" => seen[p] \in Pids /\ pidFile \in {seen[p], "none"}
            /\ phase[p] = "remove" => Running = {} \/ pidFile = "none"
            /\ phase[p] = "open" => Running = {} /\ pidFile = "none"
            /\ phase[p] = "write" => Running = {} /\ pidFile = "empty" /\ p \in writers

\* What RefusedForACause rests on: unless something odd happened, an id in the
\* file or read from it is that of an instance that runs or of no process.
NamesIInv ==
    history = {} =>
        /\ \A p, q \in Starting : p = q
        /\ \A p \in Named \cap Pids : phase[p] \in RunPhases \cup {"off"}
        /\ \A p \in Pids : phase[p] = "probe" => seen[p] \in Pids
=============================================================================
