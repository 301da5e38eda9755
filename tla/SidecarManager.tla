--------------------------- MODULE SidecarManager ---------------------------
(***************************************************************************)
(* Who starts the sidecar and who ends it: the servers of one host at      *)
(* their start (sidecar/manager.go, called by cmd/server/main.go), the     *)
(* node processes they spawn, and the one port these all want              *)
(* (sidecar/src/index.js).                                                 *)
(***************************************************************************)
EXTENDS Integers, FiniteSets

CONSTANTS
  Servers,      \* servers on the host
  AutoStarters, \* those with SIDECAR_AUTOSTART
  Children,     \* processes of the sidecar, never used twice
  None,         \* no process
  MaxRuns       \* bound: starts of each server

ASSUME SidecarAssumption ==
  /\ AutoStarters \subseteq Servers
  /\ None \notin Children
  /\ MaxRuns \in Nat

VARIABLES
  at,     \* how far each server is
  runs,   \* how often it was started
  child,  \* what each process does
  handle, \* the process a server's cleanup kills
  owner,  \* history: the run of a server that spawned each process
  source, \* history: the process that answered the check of a server's start
  lost,   \* history: processes whose server ended without its cleanup
  failed, \* history: processes that ended by themselves
  killed  \* history: processes that were killed

hostHist == <<owner, source, lost, failed, killed>>
hostVars == <<at, runs, child, handle, hostHist>>

HostInit ==
  /\ at = [s \in Servers |-> "down"]
  /\ runs = [s \in Servers |-> 0]
  /\ child = [c \in Children |-> "none"]
  /\ handle = [s \in Servers |-> None]
  /\ owner = [c \in Children |-> None]
  /\ source = [s \in Servers |-> None]
  /\ lost = {} /\ failed = {} /\ killed = {}

Lives(c) == child[c] \in {"booting", "serving"}

(* Whoever has the port answers on /health.                                *)
Answering == {c \in Children : child[c] = "serving"}

Run(s) == <<s, runs[s]>>

-----------------------------------------------------------------------------
(* A process of the sidecar                                                *)

(* app.listen; without the port, the error ends the process.               *)
Listen(c) ==
  /\ child[c] = "booting"
  /\ child' = [child EXCEPT ![c] = IF Answering = {} THEN "serving" ELSE "ended"]
  /\ failed' = IF Answering = {} THEN failed ELSE failed \cup {c}
  /\ UNCHANGED <<at, runs, handle, owner, source, lost, killed>>

Break(c) ==
  /\ Lives(c)
  /\ child' = [child EXCEPT ![c] = "ended"]
  /\ failed' = failed \cup {c}
  /\ UNCHANGED <<at, runs, handle, owner, source, lost, killed>>

-----------------------------------------------------------------------------
(* EnsureRunning                                                           *)

Start(s) ==
  /\ at[s] = "down"
  /\ runs[s] < MaxRuns
  /\ runs' = [runs EXCEPT ![s] = @ + 1]
  /\ at' = [at EXCEPT ![s] = "ping"]
  /\ UNCHANGED <<child, handle, hostHist>>

(* Breakage of CleanupOfAdopted: what was found running is killed, too.    *)
CleanupOfFound(c) == c

(* noopCleanup                                                             *)
CleanupOfAdopted(c) == None

(* pingHealth finds a sidecar, ...                                         *)
Adopt(s) ==
  /\ at[s] = "ping"
  /\ \E c \in Answering :
       /\ handle' = [handle EXCEPT ![s] = CleanupOfAdopted(c)]
       /\ source' = [source EXCEPT ![s] = c]
  /\ at' = [at EXCEPT ![s] = "boot"]
  /\ UNCHANGED <<runs, child, owner, lost, failed, killed>>

(* ... or none, or not in time; only some servers spawn one then.  main    *)
(* goes on without.                                                        *)
NotFound(s) ==
  /\ at[s] = "ping"
  /\ at' = [at EXCEPT ![s] = IF s \in AutoStarters THEN "spawn" ELSE "boot"]
  /\ UNCHANGED <<runs, child, handle, hostHist>>

(* cmd.Start, which may fail.                                              *)
Spawn(s) ==
  /\ at[s] = "spawn"
  /\ \/ /\ \E c \in Children :
             /\ child[c] = "none"
             /\ child' = [child EXCEPT ![c] = "booting"]
             /\ owner' = [owner EXCEPT ![c] = Run(s)]
             /\ handle' = [handle EXCEPT ![s] = c]
        /\ at' = [at EXCEPT ![s] = "wait"]
     \/ at' = [at EXCEPT ![s] = "boot"] /\ UNCHANGED <<child, owner, handle>>
  /\ UNCHANGED <<runs, source, lost, failed, killed>>

(* waitForHealth: whichever process answers.                               *)
Ready(s) ==
  /\ at[s] = "wait"
  /\ \E c \in Answering : source' = [source EXCEPT ![s] = c]
  /\ at' = [at EXCEPT ![s] = "boot"]
  /\ UNCHANGED <<runs, child, handle, owner, lost, failed, killed>>

(* Breakage of Kill: the process is forgotten.                             *)
KillNothing(s) ==
  /\ handle' = [handle EXCEPT ![s] = None]
  /\ UNCHANGED <<child, killed>>

(* Kill and Wait, if there is a process and it still lives.                *)
Kill(s) ==
  /\ handle' = [handle EXCEPT ![s] = None]
  /\ LET C == {c \in Children : c = handle[s] /\ Lives(c)} IN
     /\ child' = [c \in Children |-> IF c \in C THEN "ended" ELSE child[c]]
     /\ killed' = killed \cup C

(* StartTimeout is over.  The process may have the port by now.            *)
WaitTooLong(s) ==
  /\ at[s] = "wait"
  /\ Kill(s)
  /\ at' = [at EXCEPT ![s] = "boot"]
  /\ UNCHANGED <<runs, owner, source, lost, failed>>

-----------------------------------------------------------------------------
(* The rest of main                                                        *)

Serve(s) ==
  /\ at[s] = "boot"
  /\ at' = [at EXCEPT ![s] = "up"]
  /\ UNCHANGED <<runs, child, handle, hostHist>>

End(s) ==
  /\ at' = [at EXCEPT ![s] = "down"]
  /\ source' = [source EXCEPT ![s] = None]
  /\ UNCHANGED <<runs, owner, failed>>

(* A signal to a server that is up: the deferred cleanup is run.           *)
Shutdown(s) ==
  /\ at[s] = "up"
  /\ Kill(s)
  /\ End(s)
  /\ UNCHANGED lost

(* Migrations or the pool fail, or the HTTP server cannot listen:          *)
(* os.Exit(1).  The same goes for a crash, and for a signal that comes     *)
(* before anybody has asked for signals.                                   *)
Exit(s) ==
  /\ at[s] # "down"
  /\ lost' = lost \cup ({handle[s]} \ {None})
  /\ handle' = [handle EXCEPT ![s] = None]
  /\ End(s)
  /\ UNCHANGED <<child, killed>>

HostNext ==
  \/ \E c \in Children : Listen(c) \/ Break(c)
  \/ \E s \in Servers :
       \/ Start(s) \/ Adopt(s) \/ NotFound(s) \/ Spawn(s) \/ Ready(s) \/ WaitTooLong(s)
       \/ Serve(s) \/ Shutdown(s) \/ Exit(s)

HostSpec == HostInit /\ [][HostNext]_hostVars

-----------------------------------------------------------------------------
(* Properties                                                              *)

HostTypeOK ==
  /\ at \in [Servers -> {"down", "ping", "spawn", "wait", "boot", "up"}]
  /\ runs \in [Servers -> 0 .. MaxRuns]
  /\ child \in [Children -> {"none", "booting", "serving", "ended"}]
  /\ handle \in [Servers -> Children \cup {None}]
  /\ owner \in [Children -> (Servers \X (1 .. MaxRuns)) \cup {None}]
  /\ source \in [Servers -> Children \cup {None}]
  /\ {lost, failed, killed} \subseteq SUBSET Children

(* A process of the sidecar that runs is in the hands of the server run    *)
(* that spawned it, or that run has ended without its cleanup: a start     *)
(* that is given up leaves no process behind.                              *)
StraysHaveACause ==
  \A c \in Children : Lives(c) /\ c \notin lost =>
    \E s \in Servers : at[s] # "down" /\ owner[c] = Run(s) /\ handle[s] = c

(* A server whose start has found a sidecar still has it, unless the       *)
(* process broke, or was spawned by another run, which has killed it: a    *)
(* sidecar is not ended by the servers that only use it.                   *)
SidecarStays ==
  \A s \in Servers : source[s] # None =>
    \/ child[source[s]] = "serving"
    \/ source[s] \in failed
    \/ source[s] \in killed /\ owner[source[s]] # Run(s)
=============================================================================
