------------------------------ MODULE Watchdog ------------------------------
(***************************************************************************)
(* service_watchdog.sh around the server process.  Script i is the i-th    *)
(* run of the script; a `start` that is to watch goes on as the watchdog   *)
(* it forks.  Scripts share the pid file, the process table and the        *)
(* binaries, and have no lock: every look at one of them is a step, and    *)
(* between two of them any other script, process or transfer may take its  *)
(* own.                                                                    *)
(*                                                                         *)
(* Modification times of the two binaries come from a clock of their own,  *)
(* 0 standing for a file that is not there.                                *)
(***************************************************************************)
EXTENDS ServerProcess

CONSTANTS Runs,        \* how many times the script is run
          Commands,    \* which commands each run may be given
          StalePid,    \* what an earlier boot may have left in the pid file
          FirstInstall,\* $BIN may be missing at first
          MaxUploads

ASSUME RunsAssumption == Runs \in Nat /\ MaxUploads \in Nat
ASSUME CommandsAssumption ==
    Commands \in [1 .. Runs -> SUBSET {"start", "stop", "restart"}]
ASSUME StalePidAssumption == StalePid \subseteq Pid
ASSUME InstallAssumption == FirstInstall \in BOOLEAN

Script == 1 .. Runs    \* in the order of their start

VARIABLES sh,       \* the scripts: command, place, PID, why stop and start run
          pidfile,  \* its content: a pid, Empty, or NoFile
          bin,      \* $BIN: version, complete or not, modification time
          update,   \* $UPDATE_BIN
          clock,    \* the time of binaries
          \* history
          unwatched,\* a watchdog left while an instance was alive
          raced,    \* a script changed something while another was at work,
                    \* or was killed between two changes
          torn      \* $UPDATE_BIN was written to while it was copied

fileVars == <<pidfile, bin, update, clock>>
vars == <<serverVars, sh, fileVars, unwatched, raced, torn>>

NoFile == -1
Empty == 0      \* also an unset PID

NotRun == [cmd |-> "none", pc |-> "none", pid |-> Empty, why |-> "none"]

Running(i) == sh[i].pc \notin {"none", "exit"}

Init == /\ ServerInit
        /\ sh = [i \in Script |-> NotRun]
        /\ pidfile \in {NoFile} \cup StalePid
        /\ \E m \in IF FirstInstall THEN {0, 1} ELSE {1} :
              bin = [ver |-> 0, whole |-> TRUE, mtime |-> m]
        /\ update = [ver |-> 0, whole |-> TRUE, mtime |-> 1]
        /\ clock = 1
        /\ unwatched = FALSE /\ raced = FALSE /\ torn = FALSE
-----------------------------------------------------------------------------
\* A script that sleeps or has left remembers nothing: a watchdog reads its
\* PID anew when it wakes.
At(s, pc) == IF pc \in {"sleep", "exit"}
             THEN [NotRun EXCEPT !.cmd = s.cmd, !.pc = pc]
             ELSE [s EXCEPT !.pc = pc]

Goto(i, pc) == sh' = [sh EXCEPT ![i] = At(@, pc)]

\* Mutant: the content of a file that is not there is not taken for empty.
CatRaw == pidfile

\* cat "$PIDFILE": no file and an empty one read the same.
Cat == IF pidfile = NoFile THEN Empty ELSE pidfile

is_running(i) == sh[i].pid # Empty /\ Alive(sh[i].pid)

\* pgrep -o finds this script: no earlier `start` is about.
Oldest(i) == \A k \in Script : Running(k) /\ sh[k].cmd = "start" => i <= k

\* A pid the kernel may hand out: of no process, and remembered nowhere.
Fresh(p) == /\ ~Alive(p) /\ pidfile # p
            /\ \A i \in Script : Running(i) => sh[i].pid # p

\* A script at work, between two sleeps: it acts on what it has seen so far.
Busy(i) == sh[i].pc \notin {"none", "sleep", "exit"}

\* It is at a place where it changes what the others look at.
Changing(i) == sh[i].pc \in {"stop", "wait", "rm", "cp", "trunc", "echo"}

\* Nothing keeps one script from changing what another has just looked at.
Race == \E i, k \in Script : i # k /\ Changing(i) /\ Busy(k)

NextRun(i) == sh[i] = NotRun /\ \A k \in Script : k < i => sh[k] # NotRun

\* The script starts: update_pid, then the command.
Begin(s, i, c) ==
    [s EXCEPT ![i] = [cmd |-> c, pid |-> Cat, why |-> c,
                      pc |-> IF c = "start" THEN "start" ELSE "stop"]]

\* The init script is called with a command.
Command(i, c) ==
    /\ NextRun(i)
    /\ sh' = Begin(sh, i, c)
    /\ raced' = (raced \/ Race')
    /\ UNCHANGED <<serverVars, fileVars, unwatched, torn>>

\* restart_watchdogs.sh: kill every script, wherever it is, and start anew.
\* Between spawn and echo the pid is lost, during cp the copy.
RestartWatchdogs(i) ==
    /\ NextRun(i)
    /\ sh' = Begin([k \in Script |->
                      IF Running(k) THEN At(sh[k], "exit") ELSE sh[k]],
                   i, "start")
    /\ raced' = (raced \/ \E k \in Script : sh[k].pc \in {"trunc", "echo", "cp"})
    /\ UNCHANGED <<serverVars, fileVars, unwatched, torn>>
-----------------------------------------------------------------------------
(* start *)

\* "already running": watch, unless an earlier script does.
AlreadyRunning(i) ==
    /\ sh[i].pc = "start" /\ is_running(i)
    /\ Goto(i, IF Oldest(i) THEN "sleep" ELSE "exit")
    /\ UNCHANGED <<serverVars, fileVars, unwatched>>

\* Mutant: start does not look whether the program runs.
Always(i) == TRUE

MustStart(i) == ~is_running(i)

\* eval "$PROGRAM &": the program's pid is a new one.
Spawn(i) ==
    /\ sh[i].pc = "start" /\ MustStart(i)
    /\ \E p \in Pid :
          /\ Fresh(p) /\ \A q \in Pid : Fresh(q) => p <= q
          /\ Become(p, Spawned(bin.ver, bin.whole /\ bin.mtime > 0))
          /\ sh' = [sh EXCEPT ![i].pid = p, ![i].pc = "trunc"]
    /\ UNCHANGED <<config, crashes, fileVars, unwatched>>

\* echo "$PID" > "$PIDFILE": the shell truncates the file, then writes it.
Truncate(i) ==
    /\ sh[i].pc = "trunc"
    /\ pidfile' = Empty
    /\ Goto(i, "echo")
    /\ UNCHANGED <<serverVars, bin, update, clock, unwatched>>

\* Where the caller of start goes on.
AfterStart(why) == CASE why = "restart" -> "exit"
                     [] why = "update" -> "check"
                     [] OTHER -> "sleep"

Echo(i) ==
    /\ sh[i].pc = "echo"
    /\ pidfile' = sh[i].pid
    /\ Goto(i, AfterStart(sh[i].why))
    /\ UNCHANGED <<serverVars, bin, update, clock, unwatched>>
-----------------------------------------------------------------------------
(* stop *)

AfterStop(why) == CASE why = "stop" -> "exit"
                    [] why = "update" -> "cp"
                    [] OTHER -> "start"

\* Mutant: stop does not wait for the process to end.
KillOnly == "rm"

\* After the kill: poll /proc until the process is gone.
KillAndWait == "wait"

Kill(i) ==
    /\ sh[i].pc = "stop"
    /\ \/ /\ sh[i].pid = Empty
          /\ Goto(i, AfterStop(sh[i].why))
          /\ UNCHANGED procs
       \/ /\ is_running(i)
          /\ Become(sh[i].pid, Signalled(sh[i].pid))
          /\ Goto(i, KillAndWait)
       \/ /\ sh[i].pid # Empty /\ ~is_running(i)
          /\ Goto(i, "rm")
          /\ UNCHANGED procs
    /\ UNCHANGED <<config, crashes, fileVars, unwatched>>

Stopped(i) ==
    /\ sh[i].pc = "wait" /\ ~is_running(i)
    /\ Goto(i, "rm")
    /\ UNCHANGED <<serverVars, fileVars, unwatched>>

Rm(i) ==
    /\ sh[i].pc = "rm"
    /\ pidfile' = NoFile
    /\ sh' = [sh EXCEPT ![i] = At([@ EXCEPT !.pid = Empty], AfterStop(@.why))]
    /\ UNCHANGED <<serverVars, bin, update, clock, unwatched>>
-----------------------------------------------------------------------------
(* watchdog *)

\* The sleep is over: update_pid.
update_pid(i) ==
    /\ sh[i].pc = "sleep"
    /\ sh' = [sh EXCEPT ![i].pid = Cat, ![i].pc = "newer"]
    /\ UNCHANGED <<serverVars, fileVars, unwatched>>

\* Mutant: only a missing binary is replaced.
MissingOnly == bin.mtime = 0

\* $UPDATE_BIN -nt $BIN -o ! -f $BIN
UpdateReady == update.mtime > bin.mtime

CheckUpdate(i) ==
    /\ sh[i].pc = "newer"
    /\ sh' = IF UpdateReady
             THEN [sh EXCEPT ![i].pc = "stop", ![i].why = "update"]
             ELSE [sh EXCEPT ![i].pc = "check"]
    /\ UNCHANGED <<serverVars, fileVars, unwatched>>

\* cp -f: the copy is as complete as the source, and as new as the moment.
Cp(i) ==
    /\ sh[i].pc = "cp"
    /\ bin' = [update EXCEPT !.mtime = clock]
    /\ torn' = (torn \/ ~update.whole)
    /\ Goto(i, "start")
    /\ UNCHANGED <<serverVars, pidfile, update, clock, unwatched>>

CheckRunning(i) ==
    /\ sh[i].pc = "check"
    /\ Goto(i, IF is_running(i) THEN "sleep" ELSE "file")
    /\ UNCHANGED <<serverVars, fileVars, unwatched>>

\* With a pid file "looks like program exited unexpectedly", without one
\* "assume that program stopped".
CheckFile(i) ==
    /\ sh[i].pc = "file"
    /\ \/ /\ pidfile # NoFile
          /\ sh' = [sh EXCEPT ![i].pc = "stop", ![i].why = "exited"]
          /\ UNCHANGED unwatched
       \/ /\ pidfile = NoFile
          /\ Goto(i, "exit")
          /\ unwatched' = (unwatched \/ \E p \in Pid : Alive(p))
    /\ UNCHANGED <<serverVars, fileVars>>
-----------------------------------------------------------------------------
(* make upload-dns-server: scp -p writes the file in place and sets its     *)
(* modification time to that of the build when all of it has arrived.       *)

Upload ==
    /\ update.whole /\ update.ver < MaxUploads
    /\ clock' = clock + 2
    /\ update' = [ver |-> update.ver + 1, whole |-> FALSE, mtime |-> clock + 2]
    /\ UNCHANGED <<serverVars, sh, pidfile, bin, unwatched, raced, torn>>

EndUpload ==
    /\ ~update.whole
    /\ update' = [update EXCEPT !.whole = TRUE, !.mtime = clock - 1]
    /\ torn' = (torn \/ \E i \in Script : sh[i].pc = "cp")
    /\ UNCHANGED <<serverVars, sh, pidfile, bin, clock, unwatched, raced>>
-----------------------------------------------------------------------------
ScriptStep(i) ==
    /\ \/ /\ \/ AlreadyRunning(i) \/ Spawn(i) \/ Truncate(i) \/ Echo(i)
             \/ Kill(i) \/ Stopped(i) \/ Rm(i)
             \/ update_pid(i) \/ CheckUpdate(i) \/ CheckRunning(i) \/ CheckFile(i)
          /\ UNCHANGED torn
       \/ Cp(i)
    /\ raced' = (raced \/ Race')

Environment ==
    \/ \E i \in Script : \/ \E c \in Commands[i] : Command(i, c)
                         \/ RestartWatchdogs(i)
    \/ Upload \/ EndUpload

ServerStep == /\ \/ \E p \in Pid : ProcStep(p) \/ Crash(p)
                 \/ \E c \in Content : Edit(c)
              /\ UNCHANGED <<sh, fileVars, unwatched, raced, torn>>

Next == \/ \E i \in Script : ScriptStep(i)
        \/ Environment
        \/ ServerStep

Spec == Init /\ [][Next]_vars

\* Scripts and processes make progress; a transfer ends.
Fairness ==
    /\ \A i \in Script : WF_vars(ScriptStep(i))
    /\ \A p \in Pid : WF_vars(ProcStep(p) /\ UNCHANGED <<sh, fileVars, unwatched, raced, torn>>)
    /\ WF_vars(EndUpload)

FairSpec == Spec /\ Fairness
-----------------------------------------------------------------------------
Binary == [ver : 0 .. MaxUploads, whole : BOOLEAN, mtime : Nat]

Process == [st : {"gone", "load", "init", "bind", "serve", "reload", "stopping"},
            bin : 0 .. MaxUploads, runs : BOOLEAN, cfg : Good \cup {"none"},
            mod : 0 .. MaxEdits, seen : 0 .. MaxEdits, bound : BOOLEAN,
            missed : BOOLEAN]

Place == {"none", "start", "trunc", "echo", "stop", "wait", "rm", "cp",
          "sleep", "newer", "check", "file", "exit"}

Memory == [cmd : {"none", "start", "stop", "restart"},
           pc : Place,
           pid : Pid \cup {Empty},
           why : {"none", "start", "stop", "restart", "update", "exited"}]

TypeOK ==
    /\ config \in [content : Content, mtime : 0 .. MaxEdits]
    /\ procs \in [Pid -> Process]
    /\ crashes \in 0 .. MaxCrashes
    /\ sh \in [Script -> Memory]
    /\ pidfile \in Pid \cup {NoFile, Empty}
    /\ bin \in Binary /\ update \in Binary
    /\ clock \in Nat
    /\ unwatched \in BOOLEAN /\ raced \in BOOLEAN /\ torn \in BOOLEAN

\* However crashes, updates, failing starts, commands and restarts of the
\* watchdog follow each other, there are never two instances, as long as no
\* script has changed anything while another was at work: stop waits for the
\* old instance to release its ports before another is started, and a start
\* that finds an instance only watches it.  The scripts do nothing to exclude
\* such a race, and after one there may be two instances: a start after a
\* crash makes a second watchdog; both wake up to the same update, and either
\* both see the instance end and each starts another, or one finds the pid
\* file still empty between the other's spawn and echo.
OneInstance == ~raced => \A p, q \in Pid : Alive(p) /\ Alive(q) => p = q

\* A live instance can be found again: the pid file names it, or the script
\* that started it is about to write its pid; again as long as no script has
\* changed anything while another was at work, and none was killed before it
\* had written the pid.  A watchdog that wakes up while a stop waits may lose
\* the pid file of the instance it starts.
NoOrphan == ~raced => \A p \in Pid : Alive(p) =>
                \/ pidfile = p
                \/ \E i \in Script : sh[i].pid = p /\ sh[i].pc \in {"trunc", "echo"}

\* A server for which the file has not been modified since has the content of
\* the file in force: no edit is lost between poll, load and bookkeeping, and
\* a file that could not be loaded is tried again.  Only an edit made between
\* the load at start and the first look at the modification time is lost.
NothingMissed ==
    \A p \in Pid : (Serving(p) /\ procs[p].mod >= config.mtime /\ ~procs[p].missed)
                      => procs[p].cfg = config.content


Watched == \E i \in Script : Running(i)

\* The newest binary serves, with the configuration the file holds.
UpToDate == \E p \in Pid : /\ Serving(p)
                           /\ procs[p].bin = update.ver
                           /\ procs[p].cfg = config.content \/ procs[p].missed

\* Once crashes, edits and uploads end, a watched service with a configuration
\* that can be loaded ends up serving it with the newest binary, and stays so,
\* whatever contents the file had on the way; but not
\*   - with an edit made between the load at start and the first look at the
\*     file's time, which is seen only with the next edit (missed);
\*   - if a binary was copied while it was uploaded: the copy is newer than the
\*     build, and is not replaced before the next upload (torn);
\*   - if scripts came into each other's way (raced).
Recovers ==
    <>[](Watched /\ config.content \in Good /\ ~raced /\ ~torn => UpToDate)
=============================================================================
