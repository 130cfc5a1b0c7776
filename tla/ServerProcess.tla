--------------------------- MODULE ServerProcess ----------------------------
(***************************************************************************)
(* The life of a dns-server process as its supervisor and its              *)
(* configuration file see it (cmd/main.go, config.go): it loads the file,  *)
(* starts the controller, takes the file's modification time, binds its    *)
(* ports, and from then on polls the modification time and reloads.        *)
(*                                                                         *)
(* The contents of the file are told apart by what LoadConfig does with    *)
(* them: Good ones load, Malformed ones are an error, and a BadAddress     *)
(* makes ParseIPv4 panic inside the decoder, which ends the process.       *)
(***************************************************************************)
EXTENDS Integers, FiniteSets

CONSTANTS Pid,        \* process numbers
          Good, Malformed, BadAddress,   \* contents of config.yaml
          MaxEdits, MaxCrashes

Content == Good \cup Malformed \cup BadAddress

ASSUME PidAssumption == Pid \subseteq Nat \ {0}
ASSUME ContentAssumption == Good # {} /\ Good \cap Malformed = {}
                            /\ (Good \cup Malformed) \cap BadAddress = {}
ASSUME LimitsAssumption == MaxEdits \in Nat /\ MaxCrashes \in Nat

VARIABLES config,   \* the file: its content and modification time
          procs,    \* the processes
          crashes   \* how many crashes have been spent

serverVars == <<config, procs, crashes>>

\* st: gone, load, init (Start's pass runs), bind, serve, reload, stopping.
\* bin: the binary it runs.  cfg: the configuration in force.  mod: modTime.
\* seen: t of the poll under way.  bound: it has the ports.
\* missed is history: the file changed between LoadConfig and FirstModTime.
Gone == [st |-> "gone", bin |-> 0, runs |-> FALSE, cfg |-> "none", mod |-> 0,
         seen |-> 0, bound |-> FALSE, missed |-> FALSE]

Alive(p) == procs[p].st # "gone"

Serving(p) == procs[p].st \in {"serve", "reload"}

Become(p, rec) == procs' = [procs EXCEPT ![p] = rec]

ServerInit == /\ config \in [content : Good, mtime : {0}]
              /\ procs = [p \in Pid |-> Gone]
              /\ crashes = 0

\* A new process; a binary that is not whole does not get to main.
Spawned(ver, whole) ==
    [Gone EXCEPT !.st = "load", !.bin = ver, !.runs = whole]

Loaded(rec, st) == [rec EXCEPT !.st = st, !.cfg = config.content,
                               !.missed = FALSE]

\* main up to LoadConfig: a file that cannot be loaded ends the process.
LoadConfig(p) ==
    /\ procs[p].st = "load"
    /\ Become(p, IF procs[p].runs /\ config.content \in Good
                 THEN Loaded(procs[p], "init") ELSE Gone)
    /\ UNCHANGED <<config, crashes>>

\* The first getModTime of listenConfigUpdate, once Start's pass is over.
FirstModTime(p) ==
    /\ procs[p].st = "init"
    /\ Become(p, [procs[p] EXCEPT !.st = "bind", !.mod = config.mtime,
                                  !.missed = procs[p].cfg # config.content])
    /\ UNCHANGED <<config, crashes>>

\* The two Serve goroutines: a port in use ends the process.
Bind(p) ==
    /\ procs[p].st = "bind"
    /\ Become(p, IF \E q \in Pid : procs[q].bound THEN Gone
                 ELSE [procs[p] EXCEPT !.st = "serve", !.bound = TRUE])
    /\ UNCHANGED <<config, crashes>>

\* A tick of the watcher that finds a later modification time.
Poll(p) ==
    /\ procs[p].st = "serve" /\ config.mtime > procs[p].mod
    /\ Become(p, [procs[p] EXCEPT !.st = "reload", !.seen = config.mtime])
    /\ UNCHANGED <<config, crashes>>

\* Mutant: the modification time counts as seen although the load failed.
NotReloadedSeen(rec) == [rec EXCEPT !.st = "serve", !.mod = rec.seen, !.seen = 0]

\* reloadConfig returned false: the next tick tries again.
NotReloaded(rec) == [rec EXCEPT !.st = "serve", !.seen = 0]

\* reloadConfig: the file is read now, and may have changed since the poll.
Reload(p) ==
    /\ procs[p].st = "reload"
    /\ \/ /\ config.content \in Good
          /\ Become(p, [Loaded(procs[p], "serve") EXCEPT !.mod = procs[p].seen,
                                                         !.seen = 0])
       \/ /\ config.content \in Malformed
          /\ Become(p, NotReloaded(procs[p]))
       \/ /\ config.content \in BadAddress
          /\ Become(p, Gone)
    /\ UNCHANGED <<config, crashes>>

\* SIGTERM cancels the context, whatever main is doing.
Signalled(p) == [Gone EXCEPT !.st = "stopping", !.bound = procs[p].bound]

\* main saves the store and returns.
Exit(p) ==
    /\ procs[p].st = "stopping"
    /\ Become(p, Gone)
    /\ UNCHANGED <<config, crashes>>

Crash(p) ==
    /\ Alive(p) /\ crashes < MaxCrashes
    /\ crashes' = crashes + 1
    /\ Become(p, Gone)
    /\ UNCHANGED config

\* Somebody edits the file.  Every edit has a modification time of its own.
Edit(c) ==
    /\ config.mtime < MaxEdits /\ c # config.content
    /\ config' = [content |-> c, mtime |-> config.mtime + 1]
    /\ UNCHANGED <<procs, crashes>>

ProcStep(p) == \/ LoadConfig(p) \/ FirstModTime(p) \/ Bind(p)
               \/ Poll(p) \/ Reload(p) \/ Exit(p)
=============================================================================
