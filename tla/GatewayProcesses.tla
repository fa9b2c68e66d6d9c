-------------------------- MODULE GatewayProcesses --------------------------
(***************************************************************************)
(* Which process is the Gateway daemon: GatewayDaemon.run of               *)
(* ax_cli/gateway_daemon.py, the pid file and the process scan of          *)
(* ax_cli/gateway_storage.py and `ax gateway stop` of                      *)
(* ax_cli/commands/gateway_daemon_cmd.py.                                  *)
(*                                                                         *)
(* `ax gateway run` looks at the pid file of its state directory and at    *)
(* the process table, gives up if either shows a live daemon, and writes   *)
(* its pid file otherwise.  Neither is a lock.  A process that is killed   *)
(* leaves its file behind, and its pid may be given to any other process.  *)
(* The state directory is the environment's (AX_GATEWAY_ENV); the process  *)
(* table is the machine's.                                                 *)
(***************************************************************************)
EXTENDS Naturals, FiniteSets

CONSTANTS
    Pids,
    Environments,
    NoFile,         \* there is no pid file
    Garbled,        \* the file is truncated: write_text has not written yet
    Nowhere         \* no stop command runs

ASSUME FileAssumption == NoFile \notin Pids /\ Garbled \notin Pids /\ NoFile # Garbled
ASSUME NowhereAssumption == Nowhere \notin Environments

VARIABLES
    proc,       \* free, foreign (no gateway), or how far `ax gateway run` is
    env,        \* the environment it was started in
    pidFile,
    stopEnv,    \* where `ax gateway stop` runs
    stopStep,   \* idle, found, signalled, cleaning
    targets     \* the pids it has found

stopVars == <<stopEnv, stopStep, targets>>
processes == <<proc, env, pidFile, stopVars>>

Starting == {"boot", "looked"}
Daemon == {"passed", "claiming", "serving", "leaving"}

Alive(p) == proc[p] # "free"
IsGateway(p) == proc[p] \in Starting \cup Daemon

ProcessesInit ==
    /\ proc = [p \in Pids |-> "free"]
    /\ env \in [Pids -> Environments]
    /\ pidFile = [e \in Environments |-> NoFile]
    /\ stopEnv = Nowhere /\ stopStep = "idle" /\ targets = {}

Reaches(p, step) == proc' = [proc EXCEPT ![p] = step]

-----------------------------------------------------------------------------
(* `ax gateway run`                                                        *)

(* MUTATION of Spawn: the pid file is written before the checks.           *)
SpawnClaiming(p, e) ==
    /\ proc[p] = "free"
    /\ Reaches(p, "boot")
    /\ env' = [env EXCEPT ![p] = e]
    /\ pidFile' = [pidFile EXCEPT ![e] = p]
    /\ UNCHANGED stopVars

Spawn(p, e) ==
    /\ proc[p] = "free"
    /\ Reaches(p, "boot")
    /\ env' = [env EXCEPT ![p] = e]
    /\ UNCHANGED <<pidFile, stopVars>>

(* daemon_status: the pid of the file, if a process has it.                *)
Recorded(e) == {q \in Pids : pidFile[e] = q /\ Alive(q)}

(* _scan_gateway_process_pids: live processes whose command line is that   *)
(* of a gateway, in whatever environment.                                  *)
Scanned(p) == {q \in Pids \ {p} : IsGateway(q)}

Refused(p) ==
    /\ \/ proc[p] = "boot" /\ Recorded(env[p]) \ {p} # {}
       \/ proc[p] = "looked" /\ Scanned(p) # {}
    /\ Reaches(p, "free")
    /\ UNCHANGED <<env, pidFile, stopVars>>

Look(p) ==
    /\ proc[p] = "boot"
    /\ Recorded(env[p]) \ {p} = {}
    /\ Reaches(p, "looked")
    /\ UNCHANGED <<env, pidFile, stopVars>>

(* MUTATION of Scan: only daemons that serve already count.                *)
ScanServing(p) ==
    /\ proc[p] = "looked"
    /\ \A q \in Scanned(p) : proc[q] # "serving"
    /\ Reaches(p, "passed")
    /\ UNCHANGED <<env, pidFile, stopVars>>

Scan(p) ==
    /\ proc[p] = "looked"
    /\ Scanned(p) = {}
    /\ Reaches(p, "passed")
    /\ UNCHANGED <<env, pidFile, stopVars>>

Truncate(p) ==
    /\ proc[p] = "passed"
    /\ pidFile' = [pidFile EXCEPT ![env[p]] = Garbled]
    /\ Reaches(p, "claiming")
    /\ UNCHANGED <<env, stopVars>>

WritePid(p) ==
    /\ proc[p] = "claiming"
    /\ pidFile' = [pidFile EXCEPT ![env[p]] = p]
    /\ Reaches(p, "serving")
    /\ UNCHANGED <<env, stopVars>>

(* A signal, --once, or an exception: run() enters its finally clause.     *)
WindsUp(p) ==
    /\ proc[p] = "serving"
    /\ Reaches(p, "leaving")
    /\ UNCHANGED <<env, pidFile, stopVars>>

(* clear_gateway_pid(os.getpid()): another's pid stays.                    *)
Exit(p) ==
    /\ proc[p] = "leaving"
    /\ pidFile' = IF pidFile[env[p]] \in {p, Garbled}
                  THEN [pidFile EXCEPT ![env[p]] = NoFile] ELSE pidFile
    /\ Reaches(p, "free")
    /\ UNCHANGED <<env, stopVars>>

(* SIGKILL, a crash of the machine, or of the interpreter.                 *)
Killed(p) ==
    /\ IsGateway(p)
    /\ Reaches(p, "free")
    /\ UNCHANGED <<env, pidFile, stopVars>>

(* Processes that have nothing to do with the gateway come and go.         *)
Foreign(p) ==
    /\ \/ proc[p] = "free" /\ Reaches(p, "foreign")
       \/ proc[p] = "foreign" /\ Reaches(p, "free")
    /\ UNCHANGED <<env, pidFile, stopVars>>

-----------------------------------------------------------------------------
(* `ax gateway stop`                                                       *)

Cleared(e) == pidFile' = [pidFile EXCEPT ![e] = NoFile]

StopFind(e) ==
    /\ stopStep = "idle"
    /\ stopEnv' = e
    /\ targets' = Recorded(e) \cup {q \in Pids : IsGateway(q)}
    /\ stopStep' = IF targets' = {} THEN "cleaning" ELSE "found"
    /\ UNCHANGED <<proc, env, pidFile>>

(* SIGTERM: a serving daemon winds up, any other process dies of it.       *)
StopTerminate ==
    /\ stopStep = "found"
    /\ proc' = [p \in Pids |->
                  IF p \notin targets \/ proc[p] = "leaving" THEN proc[p]
                  ELSE IF proc[p] = "serving" THEN "leaving" ELSE "free"]
    /\ stopStep' = "signalled"
    /\ UNCHANGED <<env, pidFile, stopEnv, targets>>

(* Everybody is gone, or eight seconds have passed and SIGKILL follows.    *)
StopKill ==
    /\ stopStep = "signalled"
    /\ proc' = [p \in Pids |-> IF p \in targets THEN "free" ELSE proc[p]]
    /\ stopStep' = "cleaning"
    /\ UNCHANGED <<env, pidFile, stopEnv, targets>>

(* clear_gateway_pid(): the file goes, whoever's pid it holds by now.      *)
StopClear ==
    /\ stopStep = "cleaning"
    /\ Cleared(stopEnv)
    /\ stopEnv' = Nowhere /\ stopStep' = "idle" /\ targets' = {}
    /\ UNCHANGED <<proc, env>>

Run(p) ==
    \/ \E e \in Environments : Spawn(p, e)
    \/ Refused(p)
    \/ Look(p)
    \/ Scan(p)
    \/ Truncate(p)
    \/ WritePid(p)
    \/ WindsUp(p)
    \/ Exit(p)
    \/ Killed(p)

StopCommand ==
    \/ \E e \in Environments : StopFind(e)
    \/ StopTerminate
    \/ StopKill
    \/ StopClear

ProcessesNext == (\E p \in Pids : Run(p) \/ Foreign(p)) \/ StopCommand

ProcessesSpec == ProcessesInit /\ [][ProcessesNext]_processes

-----------------------------------------------------------------------------
(* Properties                                                              *)

ProcessesTypeOK ==
    /\ proc \in [Pids -> {"free", "foreign"} \cup Starting \cup Daemon]
    /\ env \in [Pids -> Environments]
    /\ pidFile \in [Environments -> Pids \cup {NoFile, Garbled}]
    /\ stopEnv \in Environments \cup {Nowhere}
    /\ stopStep \in {"idle", "found", "signalled", "cleaning"}
    /\ targets \subseteq Pids

(* Two daemons never reconcile one registry: of the processes that got     *)
(* past the checks of run() at most one is alive.  The checks are no lock; *)
(* it is their order that counts: a process shows up in the table before   *)
(* it looks there.                                                         *)
OneDaemon ==
    \A p, q \in Pids : proc[p] \in Daemon /\ proc[q] \in Daemon => p = q

(* The pid file never points at another process than the one that serves,  *)
(* whatever is stopped, killed, restarted or has its pid reused meanwhile. *)
FileNeverMisleads ==
    \A p \in Pids : proc[p] = "serving" => pidFile[env[p]] \in {p, NoFile}

(* A start is refused only when a gateway of its own state directory runs. *)
RefusedByOwnGateway ==
    [][\A p \in Pids : Refused(p) =>
         \E q \in Pids \ {p} : IsGateway(q) /\ env[q] = env[p]]_processes

(* `ax gateway stop` stops the Gateway of its environment, and nothing     *)
(* else.                                                                   *)
StopsOnlyItsGateway ==
    [][StopTerminate \/ StopKill =>
         \A p \in Pids : proc'[p] # proc[p] => IsGateway(p) /\ env[p] = stopEnv]_processes

(* "Gateway already running": a start is refused only by a gateway.        *)
RefusedByGateway ==
    [][\A p \in Pids : Refused(p) => \E q \in Pids \ {p} : IsGateway(q)]_processes
=============================================================================
