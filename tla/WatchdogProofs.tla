--------------------------- MODULE WatchdogProofs ---------------------------
(***************************************************************************)
(* Proofs about the scripts and the processes they supervise.  What is     *)
(* said of a process and its configuration holds however the scripts fall  *)
(* together.  That there is one instance, and that the scripts know it,    *)
(* holds in every behaviour until a script changes something while another *)
(* is at work; any number of them may look at the same time.               *)
(***************************************************************************)
EXTENDS Watchdog, TLAPS

\* The configuration of a process that has looked at the file's time: what
\* it remembers is not of the future, and if the file is not newer than that,
\* its content is in force.
Caught(rec) ==
    /\ rec.seen <= config.mtime
    /\ rec.st \in {"bind", "serve", "reload"} =>
          /\ rec.mod <= config.mtime
          /\ rec.mod = config.mtime /\ ~rec.missed => rec.cfg = config.content

InForce == \A p \in Pid : Caught(procs[p])

IInv == TypeOK /\ clock >= 1 /\ InForce

\* A script at work has in its PID every process there is, and knows when
\* there is none.
InHand == \A i \in Script, p \in Pid : Busy(i) /\ Alive(p) =>
              sh[i].pid = p /\ sh[i].pc \notin {"rm", "cp"}

\* The pid file names every process, except between spawn and echo.
InFile == \A p \in Pid : Alive(p) =>
              \/ pidfile = p
              \/ \E i \in Script : sh[i].pc \in {"trunc", "echo"}

Supervised == ~raced => ~Race /\ InHand /\ InFile

\* What a step of a script leaves to ScriptStep.
History == raced \in BOOLEAN /\ torn \in BOOLEAN
-----------------------------------------------------------------------------
(* Processes *)

LEMMA GoneIs == Gone \in Process /\ Gone.st = "gone" /\ Gone.seen = 0
BY RunsAssumption, LimitsAssumption DEF Gone, Process

\* A process that has not looked at the file has nothing to answer for.
LEMMA NotLooked ==
    ASSUME TypeOK, NEW rec \in Process, rec.seen = 0,
           rec.st \notin {"bind", "serve", "reload"}
    PROVE  Caught(rec)
BY DEF Caught, TypeOK

\* What an action makes of one process.
LEMMA BecomeIs ==
    ASSUME TypeOK, NEW p \in Pid, NEW rec \in Process, Become(p, rec)
    PROVE  /\ procs' \in [Pid -> Process]
           /\ procs'[p] = rec
           /\ \A q \in Pid \ {p} : procs'[q] = procs[q]
BY DEF TypeOK, Become

\* A process that did not change its place is where it was for the file.
LEMMA OneChanges ==
    ASSUME TypeOK, InForce, NEW p \in Pid, NEW rec \in Process, Become(p, rec),
           Caught(rec), UNCHANGED config
    PROVE  procs' \in [Pid -> Process] /\ InForce'
<1>1. /\ procs' \in [Pid -> Process]
      /\ procs'[p] = rec
      /\ \A q \in Pid \ {p} : procs'[q] = procs[q]
  BY BecomeIs
<1>2. ASSUME NEW q \in Pid PROVE Caught(procs[q])'
  <2>1. CASE q = p
    BY <1>1, <2>1 DEF Caught
  <2>2. CASE q # p
    <3>1. procs'[q] = procs[q] /\ Caught(procs[q])
      BY <1>1, <2>2 DEF InForce
    <3> QED
      BY <3>1 DEF Caught
  <2> QED
    BY <2>1, <2>2
<1> QED
  BY <1>1, <1>2 DEF InForce

LEMMA SpawnedIs ==
    ASSUME NEW ver \in 0 .. MaxUploads, NEW whole \in BOOLEAN
    PROVE  /\ Spawned(ver, whole) \in Process
           /\ Spawned(ver, whole).st = "load" /\ Spawned(ver, whole).seen = 0
BY GoneIs DEF Spawned, Process

LEMMA SignalledIs ==
    ASSUME TypeOK, NEW p \in Pid
    PROVE  /\ Signalled(p) \in Process
           /\ Signalled(p).st = "stopping" /\ Signalled(p).seen = 0
<1>1. procs[p].bound \in BOOLEAN
  BY DEF TypeOK, Process
<1> QED
  BY <1>1, GoneIs DEF Signalled, Process

LEMMA LoadedIs ==
    ASSUME NEW rec \in Process, NEW st \in {"init", "serve"},
           config.content \in Good
    PROVE  /\ Loaded(rec, st) \in Process
           /\ Loaded(rec, st).st = st /\ Loaded(rec, st).cfg = config.content
           /\ Loaded(rec, st).seen = rec.seen
BY DEF Loaded, Process

LEMMA LoadConfigOK ==
    ASSUME IInv, NEW p \in Pid, LoadConfig(p)
    PROVE  procs' \in [Pid -> Process] /\ InForce'
<1>1. procs[p] \in Process
  BY DEF IInv, TypeOK
<1>2. CASE procs[p].runs /\ config.content \in Good
  <2>1. PICK rec : rec = Loaded(procs[p], "init")
    OBVIOUS
  <2>2. rec \in Process /\ rec.st = "init" /\ rec.seen = procs[p].seen
    BY <1>1, <1>2, <2>1, LoadedIs
  <2>3. Caught(rec) /\ Become(p, rec)
    BY <1>2, <2>1, <2>2 DEF Caught, LoadConfig, IInv, InForce
  <2> QED
    BY <2>2, <2>3, OneChanges DEF IInv, LoadConfig
<1>3. CASE ~(procs[p].runs /\ config.content \in Good)
  <2>1. Become(p, Gone)
    BY <1>3 DEF LoadConfig
  <2>2. Caught(Gone)
    BY GoneIs, NotLooked DEF IInv
  <2> QED
    BY <2>1, <2>2, GoneIs, OneChanges DEF IInv, LoadConfig
<1> QED
  BY <1>2, <1>3

\* The time is taken after the load: an edit between them is the missed one.
LEMMA FirstModTimeOK ==
    ASSUME IInv, NEW p \in Pid, FirstModTime(p)
    PROVE  procs' \in [Pid -> Process] /\ InForce'
<1>1. procs[p] \in Process /\ config.mtime \in 0 .. MaxEdits
  BY DEF IInv, TypeOK
<1>2. PICK rec : rec = [procs[p] EXCEPT !.st = "bind", !.mod = config.mtime,
                            !.missed = procs[p].cfg # config.content]
  OBVIOUS
<1>3. rec \in Process
  BY <1>1, <1>2 DEF Process
<1>4. /\ rec.mod = config.mtime /\ rec.cfg = procs[p].cfg
      /\ rec.seen = procs[p].seen
      /\ rec.missed <=> procs[p].cfg # config.content
  BY <1>1, <1>2 DEF Process
<1>5. Caught(rec)
  <2>1. rec.seen <= config.mtime
    BY <1>4 DEF IInv, InForce, Caught
  <2>2. rec.mod <= config.mtime
    BY <1>1, <1>4
  <2> QED
    BY <1>4, <2>1, <2>2 DEF Caught
<1>6. Become(p, rec) /\ UNCHANGED config
  BY <1>2 DEF FirstModTime
<1> QED
  BY <1>3, <1>5, <1>6, OneChanges DEF IInv

LEMMA BindOK ==
    ASSUME IInv, NEW p \in Pid, Bind(p)
    PROVE  procs' \in [Pid -> Process] /\ InForce'
<1>1. procs[p] \in Process /\ Caught(procs[p]) /\ procs[p].st = "bind"
  BY DEF IInv, TypeOK, InForce, Bind
<1>2. CASE \E q \in Pid : procs[q].bound
  <2>1. Become(p, Gone) /\ Caught(Gone)
    BY <1>2, GoneIs, NotLooked DEF Bind, IInv
  <2> QED
    BY <2>1, GoneIs, OneChanges DEF IInv, Bind
<1>3. CASE ~\E q \in Pid : procs[q].bound
  <2>1. PICK rec : rec = [procs[p] EXCEPT !.st = "serve", !.bound = TRUE]
    OBVIOUS
  <2>2. /\ rec \in Process /\ rec.st = "serve"
        /\ rec.mod = procs[p].mod /\ rec.seen = procs[p].seen
        /\ rec.cfg = procs[p].cfg
        /\ rec.missed <=> procs[p].missed
    BY <1>1, <2>1 DEF Process
  <2>3. Caught(rec)
    BY <1>1, <2>2 DEF Caught
  <2>4. Become(p, rec)
    BY <1>3, <2>1 DEF Bind
  <2> QED
    BY <2>2, <2>3, <2>4, OneChanges DEF IInv, Bind
<1> QED
  BY <1>2, <1>3

LEMMA PollOK ==
    ASSUME IInv, NEW p \in Pid, Poll(p)
    PROVE  procs' \in [Pid -> Process] /\ InForce'
<1>1. /\ procs[p] \in Process /\ Caught(procs[p]) /\ procs[p].st = "serve"
      /\ config.mtime \in 0 .. MaxEdits
  BY DEF IInv, TypeOK, InForce, Poll
<1>2. PICK rec : rec = [procs[p] EXCEPT !.st = "reload", !.seen = config.mtime]
  OBVIOUS
<1>3. /\ rec \in Process /\ rec.st = "reload"
      /\ rec.mod = procs[p].mod /\ rec.seen = config.mtime
      /\ rec.cfg = procs[p].cfg
      /\ rec.missed <=> procs[p].missed
  BY <1>1, <1>2 DEF Process
<1>4. Caught(rec)
  BY <1>1, <1>3 DEF Caught
<1> QED
  BY <1>2, <1>3, <1>4, OneChanges DEF IInv, Poll

\* What is loaded is the file's content now; what is remembered as its time
\* is that of the poll, which may be earlier and is never later.
LEMMA ReloadOK ==
    ASSUME IInv, NEW p \in Pid, Reload(p)
    PROVE  procs' \in [Pid -> Process] /\ InForce'
<1>1. /\ procs[p] \in Process /\ Caught(procs[p]) /\ procs[p].st = "reload"
      /\ config.mtime \in 0 .. MaxEdits /\ 0 \in 0 .. MaxEdits
  BY LimitsAssumption DEF IInv, TypeOK, InForce, Reload
<1>2. CASE /\ config.content \in Good
           /\ Become(p, [Loaded(procs[p], "serve") EXCEPT
                            !.mod = procs[p].seen, !.seen = 0])
  <2>1. PICK load : load = Loaded(procs[p], "serve")
    OBVIOUS
  <2>2. load \in Process /\ load.st = "serve" /\ load.cfg = config.content
    BY <1>1, <1>2, <2>1, LoadedIs
  <2>3. PICK rec : rec = [load EXCEPT !.mod = procs[p].seen, !.seen = 0]
    OBVIOUS
  <2>4. procs[p].seen \in 0 .. MaxEdits
    BY <1>1 DEF Process
  <2>5. /\ rec \in Process /\ rec.st = "serve" /\ rec.cfg = config.content
        /\ rec.mod = procs[p].seen /\ rec.seen = 0
    BY <1>1, <2>2, <2>3, <2>4 DEF Process
  <2>6. Caught(rec)
    BY <1>1, <2>5 DEF Caught
  <2>7. Become(p, rec)
    BY <1>2, <2>1, <2>3
  <2> QED
    BY <2>5, <2>6, <2>7, OneChanges DEF IInv, Reload
<1>3. CASE Become(p, NotReloaded(procs[p]))
  <2>1. PICK rec : rec = NotReloaded(procs[p])
    OBVIOUS
  <2>2. /\ rec \in Process /\ rec.st = "serve"
        /\ rec.mod = procs[p].mod /\ rec.seen = 0
        /\ rec.cfg = procs[p].cfg
        /\ rec.missed <=> procs[p].missed
    BY <1>1, <2>1 DEF Process, NotReloaded
  <2>3. Caught(rec)
    BY <1>1, <2>2 DEF Caught
  <2> QED
    BY <1>3, <2>1, <2>2, <2>3, OneChanges DEF IInv, Reload
<1>4. CASE Become(p, Gone)
  <2>1. Caught(Gone)
    BY GoneIs, NotLooked DEF IInv
  <2> QED
    BY <1>4, <2>1, GoneIs, OneChanges DEF IInv, Reload
<1> QED
  BY <1>2, <1>3, <1>4 DEF Reload

LEMMA EndsOK ==
    ASSUME IInv, NEW p \in Pid, Become(p, Gone), UNCHANGED config
    PROVE  procs' \in [Pid -> Process] /\ InForce'
BY GoneIs, NotLooked, OneChanges DEF IInv

\* No process has seen the time of the new edit.
LEMMA EditOK ==
    ASSUME IInv, NEW c \in Content, Edit(c)
    PROVE  /\ config' \in [content : Content, mtime : 0 .. MaxEdits]
           /\ InForce'
<1>1. /\ config \in [content : Content, mtime : 0 .. MaxEdits]
      /\ config.mtime < MaxEdits
      /\ config' = [content |-> c, mtime |-> config.mtime + 1]
      /\ UNCHANGED procs
  BY DEF IInv, TypeOK, Edit
<1>2. config.mtime \in Nat /\ config'.mtime = config.mtime + 1
  BY <1>1
<1>3. config' \in [content : Content, mtime : 0 .. MaxEdits]
  BY <1>1, LimitsAssumption
<1>4. ASSUME NEW p \in Pid PROVE Caught(procs[p])'
  <2>1. procs[p] \in Process /\ Caught(procs[p])
    BY DEF IInv, TypeOK, InForce
  <2>2. procs[p].mod \in Nat /\ procs[p].seen \in Nat
    BY <2>1 DEF Process
  <2>3. procs'[p] = procs[p]
    BY <1>1
  <2> QED
    BY <1>2, <2>1, <2>2, <2>3 DEF Caught
<1> QED
  BY <1>3, <1>4 DEF InForce

\* The server's own steps, whatever the scripts do.
LEMMA ServerStepOK ==
    ASSUME IInv, ServerStep
    PROVE  IInv'
<1>1. UNCHANGED <<sh, pidfile, bin, update, clock, unwatched, raced, torn>>
  BY DEF ServerStep, fileVars
<1>2. /\ config' \in [content : Content, mtime : 0 .. MaxEdits]
      /\ procs' \in [Pid -> Process]
      /\ crashes' \in 0 .. MaxCrashes
      /\ InForce'
  <2>1. ASSUME NEW p \in Pid, ProcStep(p) PROVE <1>2!:
    <3>1. UNCHANGED <<config, crashes>>
      BY <2>1 DEF ProcStep, LoadConfig, FirstModTime, Bind, Poll, Reload, Exit
    <3>2. procs' \in [Pid -> Process] /\ InForce'
      <4>1. CASE LoadConfig(p)
        BY <4>1, LoadConfigOK
      <4>2. CASE FirstModTime(p)
        BY <4>2, FirstModTimeOK
      <4>3. CASE Bind(p)
        BY <4>3, BindOK
      <4>4. CASE Poll(p)
        BY <4>4, PollOK
      <4>5. CASE Reload(p)
        BY <4>5, ReloadOK
      <4>6. CASE Exit(p)
        BY <4>6, EndsOK DEF Exit
      <4> QED
        BY <2>1, <4>1, <4>2, <4>3, <4>4, <4>5, <4>6 DEF ProcStep
    <3> QED
      BY <3>1, <3>2 DEF IInv, TypeOK
  <2>2. ASSUME NEW p \in Pid, Crash(p) PROVE <1>2!:
    <3>1. crashes' \in 0 .. MaxCrashes /\ UNCHANGED config
      BY <2>2, LimitsAssumption DEF Crash, IInv, TypeOK
    <3>2. procs' \in [Pid -> Process] /\ InForce'
      BY <2>2, EndsOK DEF Crash
    <3> QED
      BY <3>1, <3>2 DEF IInv, TypeOK
  <2>3. ASSUME NEW c \in Content, Edit(c) PROVE <1>2!:
    BY <2>3, EditOK DEF Edit, IInv, TypeOK
  <2> QED
    BY <2>1, <2>2, <2>3 DEF ServerStep
<1> QED
  BY <1>1, <1>2 DEF IInv, TypeOK
-----------------------------------------------------------------------------
(* Scripts *)

\* Script i comes to place pc, with PID pid unless it sleeps or leaves there;
\* the other scripts stay as they are.
Moves(i, pc, pid) ==
    /\ sh' \in [Script -> Memory]
    /\ \A k \in Script \ {i} : sh'[k] = sh[k]
    /\ sh'[i].pc = pc
    /\ pc \notin {"sleep", "exit"} => sh'[i].pid = pid

LEMMA PidIs == /\ Empty \notin Pid /\ NoFile \notin Pid
               /\ \A p \in Pid : p \in Nat
BY PidAssumption DEF Empty, NoFile

LEMMA ScriptIs ==
    ASSUME TypeOK, NEW i \in Script
    PROVE  sh[i] \in Memory /\ sh[i].pid \in Pid \cup {Empty}
BY DEF TypeOK, Memory

LEMMA AtIs ==
    ASSUME NEW s \in Memory, NEW pc \in Place
    PROVE  /\ At(s, pc) \in Memory
           /\ At(s, pc).pc = pc
           /\ pc \notin {"sleep", "exit"} => At(s, pc).pid = s.pid
<1>1. NotRun \in Memory
  BY DEF NotRun, Memory, Place
<1>2. CASE pc \in {"sleep", "exit"}
  <2>1. PICK idle : idle = NotRun
    OBVIOUS
  <2>2. At(s, pc) = [idle EXCEPT !.cmd = s.cmd, !.pc = pc]
    BY <1>2, <2>1 DEF At
  <2> QED
    BY <1>1, <1>2, <2>1, <2>2 DEF Memory
<1>3. CASE pc \notin {"sleep", "exit"}
  BY <1>3 DEF At, Memory
<1> QED
  BY <1>2, <1>3

LEMMA SetIs ==
    ASSUME TypeOK, NEW i \in Script, NEW s \in Memory,
           sh' = [sh EXCEPT ![i] = s]
    PROVE  Moves(i, s.pc, s.pid)
BY DEF TypeOK, Moves

LEMMA GotoIs ==
    ASSUME TypeOK, NEW i \in Script, NEW pc \in Place, Goto(i, pc)
    PROVE  Moves(i, pc, sh[i].pid)
<1>1. PICK s : s = At(sh[i], pc)
  OBVIOUS
<1>2. /\ s \in Memory /\ s.pc = pc
      /\ pc \notin {"sleep", "exit"} => s.pid = sh[i].pid
  BY <1>1, ScriptIs, AtIs
<1>3. sh' = [sh EXCEPT ![i] = s]
  BY <1>1 DEF Goto
<1>4. Moves(i, s.pc, s.pid)
  BY <1>2, <1>3, SetIs
<1> QED
  BY <1>2, <1>4 DEF Moves

LEMMA AfterIs ==
    /\ \A why : AfterStart(why) \in {"exit", "check", "sleep"}
    /\ \A why : AfterStop(why) \in {"exit", "cp", "start"}
BY DEF AfterStart, AfterStop

LEMMA CatIs == TypeOK => Cat \in Pid \cup {Empty}
BY PidIs DEF TypeOK, Cat

LEMMA KeepIs ==
    ASSUME IInv, UNCHANGED serverVars, sh' \in [Script -> Memory],
           pidfile' \in Pid \cup {NoFile, Empty},
           UNCHANGED <<bin, update, clock>>, unwatched' \in BOOLEAN, History'
    PROVE  IInv'
<1>1. /\ config' = config /\ procs' = procs /\ crashes' = crashes
      /\ bin' = bin /\ update' = update /\ clock' = clock
  BY DEF serverVars
<1>2. TypeOK'
  BY <1>1 DEF IInv, TypeOK, History
<1>3. InForce'
  BY <1>1 DEF IInv, InForce, Caught
<1> QED
  BY <1>1, <1>2, <1>3 DEF IInv

\* What each step of a script does to it, to the pid file and to IInv.
LEMMA AlreadyRunningIs ==
    ASSUME IInv, History', NEW i \in Script, AlreadyRunning(i)
    PROVE  /\ IInv'
           /\ \E pc \in {"sleep", "exit"} : Moves(i, pc, sh[i].pid)
<1>1. PICK pc \in {"sleep", "exit"} : Goto(i, pc)
  BY DEF AlreadyRunning
<1>2. Moves(i, pc, sh[i].pid)
  BY <1>1, GotoIs DEF IInv, Place
<1> QED
  BY <1>2, KeepIs DEF AlreadyRunning, fileVars, Moves, IInv, TypeOK

LEMMA SpawnIs ==
    ASSUME IInv, History', NEW i \in Script, Spawn(i)
    PROVE  /\ IInv'
           /\ \E p \in Pid : /\ Moves(i, "trunc", p)
                             /\ \A q \in Pid \ {p} : Alive(q)' <=> Alive(q)
<1>1. PICK p \in Pid :
         /\ Become(p, Spawned(bin.ver, bin.whole /\ bin.mtime > 0))
         /\ sh' = [sh EXCEPT ![i].pid = p, ![i].pc = "trunc"]
  BY DEF Spawn
<1>2. PICK rec : rec = Spawned(bin.ver, bin.whole /\ bin.mtime > 0)
  OBVIOUS
<1>3. bin.ver \in 0 .. MaxUploads
  BY DEF IInv, TypeOK, Binary
<1>4. (bin.whole /\ bin.mtime > 0) \in BOOLEAN
  OBVIOUS
<1>5. rec \in Process /\ rec.st = "load" /\ rec.seen = 0
  BY <1>2, <1>3, <1>4, SpawnedIs
<1>6. Caught(rec)
  BY <1>5, NotLooked DEF IInv
<1>7. /\ procs' \in [Pid -> Process] /\ InForce'
      /\ \A q \in Pid \ {p} : procs'[q] = procs[q]
  BY <1>1, <1>2, <1>5, <1>6, OneChanges, BecomeIs DEF IInv, Spawn
<1>8. Moves(i, "trunc", p)
  <2>1. PICK s : s = [sh[i] EXCEPT !.pid = p, !.pc = "trunc"]
    OBVIOUS
  <2>2. s \in Memory /\ s.pc = "trunc" /\ s.pid = p
    BY <2>1, ScriptIs DEF Memory, Place, IInv
  <2>3. sh' = [sh EXCEPT ![i] = s]
    BY <1>1, <2>1, ScriptIs DEF Memory, IInv, TypeOK
  <2>4. Moves(i, s.pc, s.pid)
    BY <2>2, <2>3, SetIs DEF IInv
  <2> QED
    BY <2>2, <2>4
<1>9. IInv'
  BY <1>7, <1>8 DEF Spawn, fileVars, Moves, IInv, TypeOK, History
<1> QED
  BY <1>7, <1>8, <1>9 DEF Alive

LEMMA TruncateIs ==
    ASSUME IInv, History', NEW i \in Script, Truncate(i)
    PROVE  IInv' /\ Moves(i, "echo", sh[i].pid)
<1>1. Moves(i, "echo", sh[i].pid)
  BY GotoIs DEF IInv, Place, Truncate
<1> QED
  BY <1>1, KeepIs DEF Truncate, Moves, IInv, TypeOK

LEMMA EchoIs ==
    ASSUME IInv, History', NEW i \in Script, Echo(i)
    PROVE  /\ IInv'
           /\ \E pc \in {"exit", "check", "sleep"} : Moves(i, pc, sh[i].pid)
<1>1. PICK pc \in {"exit", "check", "sleep"} : Goto(i, pc)
  BY AfterIs DEF Echo
<1>2. Moves(i, pc, sh[i].pid)
  BY <1>1, GotoIs DEF IInv, Place
<1>3. pidfile' \in Pid \cup {NoFile, Empty}
  BY ScriptIs DEF Echo, IInv
<1> QED
  BY <1>2, <1>3, KeepIs DEF Echo, Moves, IInv, TypeOK

LEMMA KillIs ==
    ASSUME IInv, History', NEW i \in Script, Kill(i)
    PROVE  /\ IInv'
           /\ \A q \in Pid : Alive(q)' <=> Alive(q)
           /\ \/ /\ sh[i].pid = Empty
                 /\ \E pc \in {"exit", "cp", "start"} : Moves(i, pc, Empty)
              \/ is_running(i) /\ Moves(i, "wait", sh[i].pid)
              \/ ~is_running(i) /\ Moves(i, "rm", sh[i].pid)
<1>1. UNCHANGED <<config, crashes, pidfile, bin, update, clock, unwatched>>
  BY DEF Kill, fileVars
<1>2. CASE sh[i].pid = Empty /\ Goto(i, AfterStop(sh[i].why)) /\ UNCHANGED procs
  <2>1. PICK pc \in {"exit", "cp", "start"} : Goto(i, pc)
    BY <1>2, AfterIs
  <2>2. Moves(i, pc, Empty)
    BY <1>2, <2>1, GotoIs DEF IInv, Place
  <2>3. IInv'
    BY <1>1, <1>2, <2>2, KeepIs DEF Moves, IInv, TypeOK, serverVars
  <2> QED
    BY <1>2, <2>2, <2>3 DEF Alive
<1>3. CASE /\ is_running(i)
           /\ Become(sh[i].pid, Signalled(sh[i].pid))
           /\ Goto(i, KillAndWait)
  <2>1. PICK p \in Pid : p = sh[i].pid
    BY <1>3, ScriptIs DEF IInv, is_running
  <2>2. PICK rec : rec = Signalled(p)
    OBVIOUS
  <2>3. rec \in Process /\ rec.st = "stopping" /\ rec.seen = 0
    BY <2>2, SignalledIs DEF IInv
  <2>4. Caught(rec) /\ Become(p, rec)
    BY <1>3, <2>1, <2>2, <2>3, NotLooked DEF IInv
  <2>5. /\ procs' \in [Pid -> Process] /\ InForce'
        /\ procs'[p] = rec /\ \A q \in Pid \ {p} : procs'[q] = procs[q]
    BY <1>1, <2>3, <2>4, OneChanges, BecomeIs DEF IInv
  <2>6. Moves(i, "wait", sh[i].pid)
    BY <1>3, GotoIs DEF IInv, Place, KillAndWait
  <2>7. IInv'
    BY <1>1, <2>5, <2>6 DEF IInv, TypeOK, Moves, History
  <2>8. Alive(p) /\ Alive(p)'
    BY <1>3, <2>1, <2>3, <2>5 DEF is_running, Alive
  <2>9. \A q \in Pid : Alive(q)' <=> Alive(q)
    BY <2>5, <2>8 DEF Alive
  <2> QED
    BY <1>3, <2>6, <2>7, <2>9
<1>4. CASE ~is_running(i) /\ Goto(i, "rm") /\ UNCHANGED procs
  <2>1. Moves(i, "rm", sh[i].pid)
    BY <1>4, GotoIs DEF IInv, Place
  <2>2. IInv'
    BY <1>1, <1>4, <2>1, KeepIs DEF Moves, IInv, TypeOK, serverVars
  <2> QED
    BY <1>4, <2>1, <2>2 DEF Alive
<1> QED
  BY <1>2, <1>3, <1>4 DEF Kill

LEMMA StoppedIs ==
    ASSUME IInv, History', NEW i \in Script, Stopped(i)
    PROVE  IInv' /\ Moves(i, "rm", sh[i].pid)
<1>1. Moves(i, "rm", sh[i].pid)
  BY GotoIs DEF IInv, Place, Stopped
<1> QED
  BY <1>1, KeepIs DEF Stopped, fileVars, Moves, IInv, TypeOK

LEMMA RmIs ==
    ASSUME IInv, History', NEW i \in Script, Rm(i)
    PROVE  /\ IInv'
           /\ \E pc \in {"exit", "cp", "start"} : Moves(i, pc, Empty)
<1>1. PICK s : s = [sh[i] EXCEPT !.pid = Empty]
  OBVIOUS
<1>2. s \in Memory /\ s.pid = Empty
  BY <1>1, ScriptIs DEF Memory, IInv
<1>3. PICK pc \in {"exit", "cp", "start"} : pc = AfterStop(sh[i].why)
  BY AfterIs
<1>4. PICK r : r = At(s, pc)
  OBVIOUS
<1>5. /\ r \in Memory /\ r.pc = pc
      /\ pc \notin {"sleep", "exit"} => r.pid = Empty
  BY <1>2, <1>4, AtIs DEF Place
<1>6. sh' = [sh EXCEPT ![i] = r]
  BY <1>1, <1>3, <1>4 DEF Rm
<1>7. Moves(i, pc, Empty)
  BY <1>5, <1>6, SetIs DEF IInv, Moves
<1>8. IInv'
  BY <1>7, KeepIs DEF Rm, Moves, IInv, TypeOK
<1> QED
  BY <1>7, <1>8

LEMMA WakeIs ==
    ASSUME IInv, History', NEW i \in Script, update_pid(i)
    PROVE  IInv' /\ Moves(i, "newer", Cat)
<1>1. PICK s : s = [sh[i] EXCEPT !.pid = Cat, !.pc = "newer"]
  OBVIOUS
<1>2. s \in Memory /\ s.pc = "newer" /\ s.pid = Cat
  BY <1>1, ScriptIs, CatIs DEF Memory, Place, IInv
<1>3. sh' = [sh EXCEPT ![i] = s]
  BY <1>1, ScriptIs DEF Memory, IInv, TypeOK, update_pid
<1>4. Moves(i, s.pc, s.pid)
  BY <1>2, <1>3, SetIs DEF IInv
<1> QED
  BY <1>2, <1>4, KeepIs DEF update_pid, fileVars, Moves, IInv, TypeOK

LEMMA CheckUpdateIs ==
    ASSUME IInv, History', NEW i \in Script, CheckUpdate(i)
    PROVE  /\ IInv'
           /\ \E pc \in {"stop", "check"} : Moves(i, pc, sh[i].pid)
<1>1. CASE UpdateReady
  <2>1. PICK s : s = [sh[i] EXCEPT !.pc = "stop", !.why = "update"]
    OBVIOUS
  <2>2. s \in Memory /\ s.pc = "stop" /\ s.pid = sh[i].pid
    BY <2>1, ScriptIs DEF Memory, Place, IInv
  <2>3. sh' = [sh EXCEPT ![i] = s]
    BY <1>1, <2>1, ScriptIs DEF Memory, IInv, TypeOK, CheckUpdate
  <2>4. Moves(i, "stop", sh[i].pid)
    BY <2>2, <2>3, SetIs DEF IInv, Moves
  <2> QED
    BY <2>4, KeepIs DEF CheckUpdate, fileVars, Moves, IInv, TypeOK
<1>2. CASE ~UpdateReady
  <2>1. PICK s : s = [sh[i] EXCEPT !.pc = "check"]
    OBVIOUS
  <2>2. s \in Memory /\ s.pc = "check" /\ s.pid = sh[i].pid
    BY <2>1, ScriptIs DEF Memory, Place, IInv
  <2>3. sh' = [sh EXCEPT ![i] = s]
    BY <1>2, <2>1, ScriptIs DEF Memory, IInv, TypeOK, CheckUpdate
  <2>4. Moves(i, "check", sh[i].pid)
    BY <2>2, <2>3, SetIs DEF IInv, Moves
  <2> QED
    BY <2>4, KeepIs DEF CheckUpdate, fileVars, Moves, IInv, TypeOK
<1> QED
  BY <1>1, <1>2

LEMMA CpIs ==
    ASSUME IInv, History', NEW i \in Script, Cp(i)
    PROVE  IInv' /\ Moves(i, "start", sh[i].pid)
<1>1. Moves(i, "start", sh[i].pid)
  BY GotoIs DEF IInv, Place, Cp
<1>2. bin' \in Binary
  BY DEF Cp, IInv, TypeOK, Binary
<1>3. InForce'
  BY DEF Cp, serverVars, IInv, InForce, Caught
<1>4. TypeOK' /\ clock' >= 1
  BY <1>1, <1>2 DEF Cp, serverVars, IInv, TypeOK, Moves, History
<1> QED
  BY <1>1, <1>3, <1>4 DEF IInv

LEMMA CheckRunningIs ==
    ASSUME IInv, History', NEW i \in Script, CheckRunning(i)
    PROVE  /\ IInv'
           /\ \/ is_running(i) /\ Moves(i, "sleep", sh[i].pid)
              \/ ~is_running(i) /\ Moves(i, "file", sh[i].pid)
<1>1. CASE is_running(i)
  <2>1. Moves(i, "sleep", sh[i].pid)
    BY <1>1, GotoIs DEF IInv, Place, CheckRunning
  <2> QED
    BY <1>1, <2>1, KeepIs DEF CheckRunning, fileVars, Moves, IInv, TypeOK
<1>2. CASE ~is_running(i)
  <2>1. Moves(i, "file", sh[i].pid)
    BY <1>2, GotoIs DEF IInv, Place, CheckRunning
  <2> QED
    BY <1>2, <2>1, KeepIs DEF CheckRunning, fileVars, Moves, IInv, TypeOK
<1> QED
  BY <1>1, <1>2

LEMMA CheckFileIs ==
    ASSUME IInv, History', NEW i \in Script, CheckFile(i)
    PROVE  /\ IInv'
           /\ \E pc \in {"stop", "exit"} : Moves(i, pc, sh[i].pid)
<1>1. CASE /\ sh' = [sh EXCEPT ![i].pc = "stop", ![i].why = "exited"]
           /\ UNCHANGED unwatched
  <2>1. PICK s : s = [sh[i] EXCEPT !.pc = "stop", !.why = "exited"]
    OBVIOUS
  <2>2. s \in Memory /\ s.pc = "stop" /\ s.pid = sh[i].pid
    BY <2>1, ScriptIs DEF Memory, Place, IInv
  <2>3. sh' = [sh EXCEPT ![i] = s]
    BY <1>1, <2>1, ScriptIs DEF Memory, IInv, TypeOK
  <2>4. Moves(i, "stop", sh[i].pid)
    BY <2>2, <2>3, SetIs DEF IInv, Moves
  <2> QED
    BY <1>1, <2>4, KeepIs DEF CheckFile, fileVars, Moves, IInv, TypeOK
<1>2. CASE /\ Goto(i, "exit")
           /\ unwatched' = (unwatched \/ \E p \in Pid : Alive(p))
  <2>1. Moves(i, "exit", sh[i].pid)
    BY <1>2, GotoIs DEF IInv, Place
  <2>2. unwatched' \in BOOLEAN
    BY <1>2
  <2> QED
    BY <2>1, <2>2, KeepIs DEF CheckFile, fileVars, Moves, IInv, TypeOK
<1> QED
  BY <1>1, <1>2 DEF CheckFile

\* Script i begins, with what the pid file says; others may be killed.
Begins(i) ==
    /\ sh' \in [Script -> Memory]
    /\ sh'[i].pid = Cat /\ sh'[i].pc \in {"start", "stop"}
    /\ \A k \in Script \ {i} : sh'[k] = sh[k] \/ sh'[k].pc = "exit"

LEMMA BeginIs ==
    ASSUME TypeOK, NEW i \in Script, NEW c \in {"start", "stop", "restart"},
           NEW s \in [Script -> Memory]
    PROVE  /\ Begin(s, i, c) \in [Script -> Memory]
           /\ Begin(s, i, c)[i].pid = Cat
           /\ Begin(s, i, c)[i].pc \in {"start", "stop"}
           /\ \A k \in Script \ {i} : Begin(s, i, c)[k] = s[k]
BY CatIs DEF Begin, Memory, Place

LEMMA CommandIs ==
    ASSUME IInv, NEW i \in Script, NEW c \in Commands[i], Command(i, c)
    PROVE  IInv' /\ Begins(i) /\ \A k \in Script \ {i} : sh'[k] = sh[k]
<1>1. c \in {"start", "stop", "restart"}
  BY CommandsAssumption DEF Script
<1>2. Begins(i) /\ \A k \in Script \ {i} : sh'[k] = sh[k]
  BY <1>1, BeginIs DEF Command, IInv, TypeOK, Begins
<1>3. History'
  BY DEF Command, History, IInv, TypeOK
<1> QED
  BY <1>2, <1>3, KeepIs DEF Command, fileVars, IInv, TypeOK, Begins

LEMMA RestartWatchdogsIs ==
    ASSUME IInv, NEW i \in Script, RestartWatchdogs(i)
    PROVE  IInv' /\ Begins(i) /\ \A k \in Script \ {i} : ~Busy(k)'
<1>1. PICK s : s = [k \in Script |-> IF Running(k) THEN At(sh[k], "exit")
                                                   ELSE sh[k]]
  OBVIOUS
<1>2. ASSUME NEW k \in Script
      PROVE  /\ s[k] \in Memory /\ (s[k] = sh[k] \/ s[k].pc = "exit")
             /\ s[k].pc \in {"none", "exit"}
  <2>1. At(sh[k], "exit") \in Memory /\ At(sh[k], "exit").pc = "exit"
    BY ScriptIs, AtIs DEF IInv, Place
  <2> QED
    BY <1>1, <2>1, ScriptIs DEF IInv, Running
<1>3. s \in [Script -> Memory]
  BY <1>1, <1>2
<1>4. sh' = Begin(s, i, "start")
  BY <1>1 DEF RestartWatchdogs
<1>5. Begins(i)
  BY <1>2, <1>3, <1>4, BeginIs DEF IInv, Begins
<1>6. \A k \in Script \ {i} : sh'[k] = s[k]
  BY <1>3, <1>4, BeginIs DEF IInv
<1>7. History'
  BY DEF RestartWatchdogs, History, IInv, TypeOK
<1>8. IInv'
  BY <1>5, <1>7, KeepIs DEF RestartWatchdogs, fileVars, IInv, TypeOK, Begins
<1> QED
  BY <1>2, <1>5, <1>6, <1>8 DEF Busy

\* A transfer's file has the time of the build, which the clock has passed.
LEMMA UploadOK == ASSUME IInv, Upload PROVE IInv'
<1>1. /\ update.ver \in 0 .. MaxUploads /\ update.ver < MaxUploads
      /\ clock \in Nat
  BY DEF IInv, TypeOK, Binary, Upload
<1>2. update.ver + 1 \in 0 .. MaxUploads /\ clock + 2 \in Nat
  BY <1>1, RunsAssumption
<1>3. update' \in Binary /\ clock' \in Nat /\ clock' >= 1
  BY <1>1, <1>2 DEF Upload, Binary
<1>4. UNCHANGED <<config, procs, crashes, sh, pidfile, bin, unwatched, raced, torn>>
  BY DEF Upload, serverVars
<1>5. TypeOK'
  BY <1>3, <1>4 DEF IInv, TypeOK
<1>6. InForce'
  BY <1>4 DEF IInv, InForce, Caught
<1> QED
  BY <1>3, <1>5, <1>6 DEF IInv

LEMMA EndUploadOK == ASSUME IInv, EndUpload PROVE IInv'
<1>1. clock - 1 \in Nat /\ update \in Binary
  BY DEF IInv, TypeOK
<1>2. update' \in Binary
  BY <1>1 DEF EndUpload, Binary
<1>3. /\ UNCHANGED <<config, procs, crashes, sh, pidfile, bin, clock, unwatched, raced>>
      /\ torn' \in BOOLEAN
  BY DEF EndUpload, serverVars, IInv, TypeOK
<1>4. TypeOK'
  BY <1>2, <1>3 DEF IInv, TypeOK
<1>5. InForce'
  BY <1>3 DEF IInv, InForce, Caught
<1> QED
  BY <1>3, <1>4, <1>5 DEF IInv
-----------------------------------------------------------------------------
(* However the scripts fall together *)

LEMMA Initial == Init => IInv
<1> SUFFICES ASSUME Init PROVE IInv
  OBVIOUS
<1>1. /\ config \in [content : Content, mtime : 0 .. MaxEdits]
      /\ config.mtime = 0
      /\ crashes \in 0 .. MaxCrashes
  BY LimitsAssumption DEF Init, ServerInit, Content
<1>2. procs \in [Pid -> Process] /\ \A p \in Pid : procs[p] = Gone
  BY GoneIs DEF Init, ServerInit
<1>3. sh \in [Script -> Memory]
  BY DEF Init, NotRun, Memory, Place
<1>4. pidfile \in Pid \cup {NoFile, Empty}
  BY StalePidAssumption DEF Init
<1>5. /\ bin \in Binary /\ update \in Binary /\ clock = 1
      /\ unwatched \in BOOLEAN /\ raced \in BOOLEAN /\ torn \in BOOLEAN
  <2>1. 0 \in 0 .. MaxUploads
    BY RunsAssumption
  <2>2. PICK m \in {0, 1} : bin = [ver |-> 0, whole |-> TRUE, mtime |-> m]
    BY DEF Init
  <2>3. bin \in Binary
    BY <2>1, <2>2 DEF Binary
  <2>4. update = [ver |-> 0, whole |-> TRUE, mtime |-> 1]
    BY DEF Init
  <2>5. update \in Binary
    BY <2>1, <2>4 DEF Binary
  <2> QED
    BY <2>3, <2>5 DEF Init
<1>6. TypeOK
  BY <1>1, <1>2, <1>3, <1>4, <1>5 DEF TypeOK
<1>7. InForce
  BY <1>2, <1>6, GoneIs, NotLooked DEF InForce
<1> QED
  BY <1>5, <1>6, <1>7 DEF IInv

LEMMA Inductive == IInv /\ [Next]_vars => IInv'
<1> SUFFICES ASSUME IInv, [Next]_vars PROVE IInv'
  OBVIOUS
<1>1. ASSUME NEW i \in Script, ScriptStep(i) PROVE IInv'
  <2>1. History'
    BY <1>1 DEF ScriptStep, Cp, History, IInv, TypeOK
  <2> QED
    BY <1>1, <2>1, AlreadyRunningIs, SpawnIs, TruncateIs, EchoIs, KillIs,
       StoppedIs, RmIs, WakeIs, CheckUpdateIs, CpIs, CheckRunningIs, CheckFileIs
    DEF ScriptStep
<1>2. CASE Environment
  BY <1>2, CommandIs, RestartWatchdogsIs, UploadOK, EndUploadOK DEF Environment
<1>3. CASE ServerStep
  BY <1>3, ServerStepOK
<1>4. CASE UNCHANGED vars
  BY <1>4 DEF vars, serverVars, fileVars, IInv, TypeOK, InForce, Caught
<1> QED
  BY <1>1, <1>2, <1>3, <1>4 DEF Next

THEOREM Invariance == Spec => []IInv
BY Initial, Inductive, PTL DEF Spec

\* The type invariant of the run: for any scripts, processes and bounds.
THEOREM TypeCorrect == Spec => []TypeOK
<1>1. IInv => TypeOK
  BY DEF IInv
<1> QED
  BY <1>1, Invariance, PTL

\* No edit of the configuration file is lost between poll, load and
\* bookkeeping, however kills, crashes and restarts fall (config.go, main.go).
THEOREM EditsNotMissed == Spec => []NothingMissed
<1>1. IInv => NothingMissed
  <2> SUFFICES ASSUME IInv, NEW p \in Pid, Serving(p),
                      procs[p].mod >= config.mtime, ~procs[p].missed
               PROVE  procs[p].cfg = config.content
    BY DEF NothingMissed
  <2>1. procs[p].mod \in Int /\ config.mtime \in Int
    BY DEF IInv, TypeOK, Process
  <2>2. Caught(procs[p]) /\ procs[p].st \in {"bind", "serve", "reload"}
    BY DEF IInv, InForce, Serving
  <2> QED
    BY <2>1, <2>2 DEF Caught
<1> QED
  BY <1>1, Invariance, PTL
-----------------------------------------------------------------------------
(* Supervision *)

\* What a script at work knows: which process there is, or that there is none.
LEMMA Known ==
    ASSUME Supervised, ~raced, NEW i \in Script, Busy(i)
    PROVE  /\ Changing(i) => \A k \in Script \ {i} : ~Busy(k)
           /\ \A p \in Pid : Alive(p) =>
                 /\ is_running(i) /\ sh[i].pid = p
                 /\ sh[i].pc \notin {"rm", "cp"}
                 /\ sh[i].pc \in {"trunc", "echo"} \/ pidfile = p
<1>1. ~Race /\ InHand /\ InFile
  BY DEF Supervised
<1>2. \A k \in Script \ {i} : ~Changing(k) /\ (Changing(i) => ~Busy(k))
  BY <1>1 DEF Race
<1>3. ASSUME NEW p \in Pid, Alive(p)
      PROVE  /\ is_running(i) /\ sh[i].pid = p
             /\ sh[i].pc \notin {"rm", "cp"}
             /\ sh[i].pc \in {"trunc", "echo"} \/ pidfile = p
  <2>1. sh[i].pid = p /\ sh[i].pc \notin {"rm", "cp"}
    BY <1>1, <1>3 DEF InHand
  <2>2. is_running(i)
    BY <1>3, <2>1, PidIs DEF is_running
  <2>3. \A k \in Script : sh[k].pc \in {"trunc", "echo"} => k = i
    BY <1>2 DEF Changing
  <2>4. sh[i].pc \in {"trunc", "echo"} \/ pidfile = p
    BY <1>1, <1>3, <2>3 DEF InFile
  <2> QED
    BY <2>1, <2>2, <2>4
<1> QED
  BY <1>2, <1>3

\* Unless a pid is being written, the pid file names every process.
LEMMA InFileNow ==
    ASSUME Supervised, ~raced, \A k \in Script : sh[k].pc \notin {"trunc", "echo"},
           NEW p \in Pid, Alive(p)
    PROVE  pidfile = p /\ Cat = p
<1>1. pidfile = p
  BY DEF Supervised, InFile
<1> QED
  BY <1>1, PidIs DEF Cat

\* The step of a script, once it is known what it leaves alive: the others
\* know what they knew, for they are at rest when it starts a process.
LEMMA MoveKeeps ==
    ASSUME Supervised, ~raced, ~Race',
           NEW i \in Script, NEW pc \in Place, NEW pid, Moves(i, pc, pid),
           \/ \A p \in Pid : Alive(p)' => Alive(p)
           \/ \A k \in Script \ {i} : ~Busy(k),
           \A p \in Pid : Alive(p)' =>
              /\ pc \notin {"none", "sleep", "exit"} => pid = p
              /\ pc \notin {"rm", "cp"}
              /\ pc \in {"trunc", "echo"} \/ pidfile' = p
    PROVE  Supervised'
<1>1. InHand'
  <2> SUFFICES ASSUME NEW k \in Script, NEW p \in Pid, Busy(k)', Alive(p)'
               PROVE  sh'[k].pid = p /\ sh'[k].pc \notin {"rm", "cp"}
    BY DEF InHand
  <2>1. CASE k = i
    <3>1. sh'[i].pc = pc /\ pc \notin {"none", "sleep", "exit"}
      BY <2>1 DEF Busy, Moves
    <3>2. sh'[i].pid = pid
      BY <3>1 DEF Moves
    <3> QED
      BY <2>1, <3>1, <3>2
  <2>2. CASE k # i
    <3>1. sh'[k] = sh[k] /\ Busy(k)
      BY <2>2 DEF Moves, Busy
    <3>2. Alive(p)
      BY <2>2, <3>1
    <3> QED
      BY <3>1, <3>2, Known
  <2> QED
    BY <2>1, <2>2
<1>2. InFile'
  BY DEF InFile, Moves
<1> QED
  BY <1>1, <1>2 DEF Supervised

\* A step that kills nothing, starts nothing and leaves the pid file alone.
LEMMA PlainMove ==
    ASSUME Supervised, ~raced, ~Race',
           NEW i \in Script, Busy(i), NEW pc \in Place,
           sh[i].pc \notin {"trunc", "echo"}, Moves(i, pc, sh[i].pid),
           \A p \in Pid : Alive(p)' => Alive(p) /\ pc \notin {"rm", "cp"},
           UNCHANGED pidfile
    PROVE  Supervised'
<1>1. \A p \in Pid : Alive(p) => sh[i].pid = p /\ pidfile = p
  BY Known
<1> QED
  BY <1>1, MoveKeeps

\* The program is started by a script that knows that nothing runs.
LEMMA SpawnKeeps ==
    ASSUME IInv, History', Supervised, ~raced, ~Race',
           NEW i \in Script, Spawn(i)
    PROVE  Supervised'
<1>1. Busy(i) /\ ~is_running(i)
  BY DEF Spawn, Busy, MustStart
<1>2. \A p \in Pid : ~Alive(p)
  BY <1>1, Known
<1>3. PICK p \in Pid : /\ Moves(i, "trunc", p)
                       /\ \A q \in Pid \ {p} : Alive(q)' <=> Alive(q)
  BY SpawnIs
<1>4. \A k \in Script \ {i} : ~Busy(k)
  <2>1. Changing(i)'
    BY <1>3 DEF Moves, Changing
  <2>2. \A k \in Script \ {i} : ~Busy(k)'
    BY <2>1 DEF Race
  <2> QED
    BY <1>3, <2>2 DEF Moves, Busy
<1>5. \A q \in Pid : Alive(q)' => p = q
  BY <1>2, <1>3
<1> QED
  BY <1>3, <1>4, <1>5, MoveKeeps DEF Place

LEMMA TruncateKeeps ==
    ASSUME IInv, History', Supervised, ~raced, ~Race',
           NEW i \in Script, Truncate(i)
    PROVE  Supervised'
<1>1. Busy(i) /\ sh[i].pc = "trunc"
  BY DEF Truncate, Busy
<1>2. \A p \in Pid : Alive(p) => sh[i].pid = p
  BY <1>1, Known
<1>3. Moves(i, "echo", sh[i].pid)
  BY TruncateIs
<1>4. \A p \in Pid : Alive(p)' <=> Alive(p)
  BY DEF Truncate, serverVars, Alive
<1> QED
  BY <1>2, <1>3, <1>4, MoveKeeps DEF Place

LEMMA EchoKeeps ==
    ASSUME IInv, History', Supervised, ~raced, ~Race',
           NEW i \in Script, Echo(i)
    PROVE  Supervised'
<1>1. Busy(i) /\ sh[i].pc = "echo"
  BY DEF Echo, Busy
<1>2. \A p \in Pid : Alive(p) => sh[i].pid = p
  BY <1>1, Known
<1>3. PICK pc \in {"exit", "check", "sleep"} : Moves(i, pc, sh[i].pid)
  BY EchoIs
<1>4. /\ \A p \in Pid : Alive(p)' <=> Alive(p)
      /\ pidfile' = sh[i].pid
  BY DEF Echo, serverVars, Alive
<1> QED
  BY <1>2, <1>3, <1>4, MoveKeeps DEF Place

\* stop waits until nothing runs before it removes the pid file.
LEMMA KillKeeps ==
    ASSUME IInv, History', Supervised, ~raced, ~Race',
           NEW i \in Script, Kill(i)
    PROVE  Supervised'
<1>1. Busy(i) /\ sh[i].pc = "stop"
  BY DEF Kill, Busy
<1>2. UNCHANGED pidfile
  BY DEF Kill, fileVars
<1>3. \A p \in Pid : Alive(p)' <=> Alive(p)
  BY KillIs
<1>4. CASE /\ sh[i].pid = Empty
           /\ \E pc \in {"exit", "cp", "start"} : Moves(i, pc, Empty)
  <2>1. PICK pc \in {"exit", "cp", "start"} : Moves(i, pc, sh[i].pid)
    BY <1>4
  <2>2. \A p \in Pid : ~Alive(p)
    BY <1>1, <1>4, Known, PidIs
  <2> QED
    BY <1>1, <1>2, <1>3, <2>1, <2>2, PlainMove DEF Place
<1>5. CASE is_running(i) /\ Moves(i, "wait", sh[i].pid)
  BY <1>1, <1>2, <1>3, <1>5, PlainMove DEF Place
<1>6. CASE ~is_running(i) /\ Moves(i, "rm", sh[i].pid)
  <2>1. \A p \in Pid : ~Alive(p)
    BY <1>1, <1>6, Known
  <2> QED
    BY <1>1, <1>2, <1>3, <1>6, <2>1, PlainMove DEF Place
<1> QED
  BY <1>4, <1>5, <1>6, KillIs

LEMMA RmKeeps ==
    ASSUME IInv, History', Supervised, ~raced, ~Race',
           NEW i \in Script, Rm(i)
    PROVE  Supervised'
<1>1. Busy(i) /\ sh[i].pc = "rm"
  BY DEF Rm, Busy
<1>2. \A p \in Pid : ~Alive(p)
  BY <1>1, Known
<1>3. PICK pc \in {"exit", "cp", "start"} : Moves(i, pc, Empty)
  BY RmIs
<1>4. \A p \in Pid : ~Alive(p)'
  BY <1>2 DEF Rm, serverVars, Alive
<1> QED
  BY <1>2, <1>3, <1>4, MoveKeeps DEF Place

\* A watchdog wakes up while the others only look, and reads its PID.
LEMMA WakeKeeps ==
    ASSUME IInv, History', Supervised, ~raced, ~Race',
           NEW i \in Script, update_pid(i)
    PROVE  Supervised'
<1>1. Moves(i, "newer", Cat) /\ sh[i].pc = "sleep"
  BY WakeIs DEF update_pid
<1>2. \A k \in Script : sh[k].pc \notin {"trunc", "echo"}
  <2>1. Busy(i)'
    BY <1>1 DEF Moves, Busy
  <2>2. \A k \in Script \ {i} : ~Changing(k)'
    BY <2>1 DEF Race
  <2> QED
    BY <1>1, <2>2 DEF Moves, Changing
<1>3. \A p \in Pid : Alive(p) => pidfile = p /\ Cat = p
  BY <1>2, InFileNow
<1>4. /\ \A p \in Pid : Alive(p)' <=> Alive(p)
      /\ pidfile' = pidfile
  BY DEF update_pid, serverVars, fileVars, Alive
<1> QED
  BY <1>1, <1>3, <1>4, MoveKeeps DEF Place

\* A watchdog leaves, or goes on to stop what has ended.
LEMMA CheckFileKeeps ==
    ASSUME IInv, History', Supervised, ~raced, ~Race',
           NEW i \in Script, CheckFile(i)
    PROVE  Supervised'
<1>1. Busy(i) /\ sh[i].pc = "file" /\ pidfile' = pidfile
  BY DEF CheckFile, Busy, fileVars
<1>2. PICK pc \in {"stop", "exit"} : Moves(i, pc, sh[i].pid)
  BY CheckFileIs
<1>3. \A p \in Pid : Alive(p)' <=> Alive(p)
  BY DEF CheckFile, serverVars, Alive
<1> QED
  BY <1>1, <1>2, <1>3, PlainMove DEF Place

\* A script begins while none changes anything; others may have been killed.
LEMMA BeginKeeps ==
    ASSUME IInv, Supervised, ~raced, ~Race', NEW i \in Script, Begins(i),
           NextRun(i), \A k \in Script \ {i} : sh[k].pc \notin {"trunc", "echo"},
           UNCHANGED <<serverVars, fileVars>>
    PROVE  Supervised'
<1>1. \A k \in Script : sh[k].pc \notin {"trunc", "echo"}
  BY DEF NextRun, NotRun
<1>2. \A p \in Pid : Alive(p) => pidfile = p /\ Cat = p
  BY <1>1, InFileNow
<1>3. /\ \A p \in Pid : Alive(p)' <=> Alive(p)
      /\ pidfile' = pidfile
  BY DEF serverVars, fileVars, Alive
<1>4. InHand'
  <2> SUFFICES ASSUME NEW k \in Script, NEW p \in Pid, Busy(k)', Alive(p)'
               PROVE  sh'[k].pid = p /\ sh'[k].pc \notin {"rm", "cp"}
    BY DEF InHand
  <2>1. CASE k = i
    BY <1>2, <1>3, <2>1 DEF Begins
  <2>2. CASE k # i
    <3>1. sh'[k] = sh[k] /\ Busy(k)
      BY <2>2 DEF Begins, Busy
    <3> QED
      BY <1>3, <3>1, Known
  <2> QED
    BY <2>1, <2>2
<1>5. InFile'
  BY <1>2, <1>3 DEF InFile
<1> QED
  BY <1>4, <1>5 DEF Supervised

\* A script that is run finds none that changes anything, or there is a race.
LEMMA CommandKeeps ==
    ASSUME IInv, Supervised, ~raced, ~raced',
           NEW i \in Script, NEW c \in Commands[i], Command(i, c)
    PROVE  Supervised'
<1>1. Begins(i) /\ \A k \in Script \ {i} : sh'[k] = sh[k]
  BY CommandIs
<1>2. ~Race'
  BY DEF Command
<1>3. Busy(i)'
  BY <1>1 DEF Begins, Busy
<1>4. \A k \in Script \ {i} : ~Changing(k)'
  BY <1>2, <1>3 DEF Race
<1>5. \A k \in Script \ {i} : sh[k].pc \notin {"trunc", "echo"}
  BY <1>1, <1>4 DEF Changing
<1> QED
  BY <1>1, <1>2, <1>5, BeginKeeps DEF Command

\* None is killed between spawn and echo, or there is a race.
LEMMA RestartKeeps ==
    ASSUME IInv, Supervised, ~raced, ~raced', NEW i \in Script, RestartWatchdogs(i)
    PROVE  Supervised'
<1>1. Begins(i) /\ \A k \in Script \ {i} : ~Busy(k)'
  BY RestartWatchdogsIs
<1>2. ~Race'
  BY <1>1 DEF Race, Busy, Changing
<1>3. \A k \in Script \ {i} : sh[k].pc \notin {"trunc", "echo"}
  BY DEF RestartWatchdogs
<1> QED
  BY <1>1, <1>2, <1>3, BeginKeeps DEF RestartWatchdogs

LEMMA ScriptKeeps ==
    ASSUME IInv, History', Supervised, ~raced, ~raced',
           NEW i \in Script, ScriptStep(i)
    PROVE  Supervised'
<1>0. ~Race'
  BY DEF ScriptStep
<1>1. CASE AlreadyRunning(i)
  <2>1. PICK pc \in {"sleep", "exit"} : Moves(i, pc, sh[i].pid)
    BY <1>1, AlreadyRunningIs
  <2> QED
    BY <1>0, <1>1, <2>1, PlainMove
    DEF AlreadyRunning, Busy, serverVars, fileVars, Alive, Place
<1>2. CASE Spawn(i)
  BY <1>0, <1>2, SpawnKeeps
<1>3. CASE Truncate(i)
  BY <1>0, <1>3, TruncateKeeps
<1>4. CASE Echo(i)
  BY <1>0, <1>4, EchoKeeps
<1>5. CASE Kill(i)
  BY <1>0, <1>5, KillKeeps
<1>6. CASE Stopped(i)
  <2>1. Busy(i) /\ sh[i].pc = "wait" /\ ~is_running(i)
    BY <1>6 DEF Stopped, Busy
  <2>2. \A p \in Pid : ~Alive(p)
    BY <2>1, Known
  <2>3. \A p \in Pid : ~Alive(p)'
    BY <1>6, <2>2 DEF Stopped, serverVars, Alive
  <2> QED
    BY <1>0, <1>6, <2>1, <2>3, StoppedIs, PlainMove DEF Stopped, fileVars, Place
<1>7. CASE Rm(i)
  BY <1>0, <1>7, RmKeeps
<1>8. CASE update_pid(i)
  BY <1>0, <1>8, WakeKeeps
<1>9. CASE CheckUpdate(i)
  <2>1. PICK pc \in {"stop", "check"} : Moves(i, pc, sh[i].pid)
    BY <1>9, CheckUpdateIs
  <2> QED
    BY <1>0, <1>9, <2>1, PlainMove
    DEF CheckUpdate, Busy, serverVars, fileVars, Alive, Place
<1>10. CASE Cp(i)
  BY <1>0, <1>10, CpIs, PlainMove DEF Cp, Busy, serverVars, Alive, Place
<1>11. CASE CheckRunning(i)
  <2>1. PICK pc \in {"sleep", "file"} : Moves(i, pc, sh[i].pid)
    BY <1>11, CheckRunningIs
  <2> QED
    BY <1>0, <1>11, <2>1, PlainMove
    DEF CheckRunning, Busy, serverVars, fileVars, Alive, Place
<1>12. CASE CheckFile(i)
  BY <1>0, <1>12, CheckFileKeeps
<1> QED
  BY <1>1, <1>2, <1>3, <1>4, <1>5, <1>6, <1>7, <1>8, <1>9, <1>10, <1>11, <1>12
  DEF ScriptStep

\* Processes only end by themselves.
LEMMA ServerKeeps ==
    ASSUME IInv, Supervised, ServerStep
    PROVE  Supervised'
<1>1. UNCHANGED <<sh, pidfile, raced>>
  BY DEF ServerStep, fileVars
<1>2. \A p \in Pid : Alive(p)' => Alive(p)
  <2>1. \A p, q \in Pid : ~Alive(p) /\ (ProcStep(q) \/ Crash(q)) => p # q
    BY DEF ProcStep, LoadConfig, FirstModTime, Bind, Poll, Reload, Exit, Crash,
           Alive
  <2>2. \A p, q \in Pid : p # q /\ (ProcStep(q) \/ Crash(q))
                             => procs'[p] = procs[p]
    BY DEF ProcStep, LoadConfig, FirstModTime, Bind, Poll, Reload, Exit, Crash,
           Become, IInv, TypeOK
  <2>3. \A c \in Content : Edit(c) => procs' = procs
    BY DEF Edit
  <2> QED
    BY <2>1, <2>2, <2>3 DEF ServerStep, Alive
<1>3. Race' <=> Race
  BY <1>1 DEF Race, Busy, Changing
<1>4. InHand => InHand'
  BY <1>1, <1>2 DEF InHand, Busy
<1>5. InFile => InFile'
  BY <1>1, <1>2 DEF InFile
<1> QED
  BY <1>1, <1>3, <1>4, <1>5 DEF Supervised

LEMMA SupervisedStart == Init => Supervised
<1> SUFFICES ASSUME Init PROVE Supervised
  OBVIOUS
<1>1. \A i \in Script : ~Busy(i)
  BY DEF Init, Busy, NotRun
<1>2. \A p \in Pid : ~Alive(p)
  BY DEF Init, ServerInit, Alive, Gone
<1> QED
  BY <1>1, <1>2 DEF Supervised, Race, InHand, InFile

LEMMA SupervisedKept == IInv /\ Supervised /\ [Next]_vars => Supervised'
<1> SUFFICES ASSUME IInv, Supervised, [Next]_vars, ~raced' PROVE Supervised'
  BY DEF Supervised
<1>1. ASSUME NEW i \in Script, ScriptStep(i) PROVE Supervised'
  <2>1. ~raced /\ History'
    BY <1>1, Inductive DEF ScriptStep, IInv, TypeOK, History
  <2> QED
    BY <1>1, <2>1, ScriptKeeps
<1>2. ASSUME NEW i \in Script, NEW c \in Commands[i], Command(i, c)
      PROVE  Supervised'
  BY <1>2, CommandKeeps DEF Command
<1>3. ASSUME NEW i \in Script, RestartWatchdogs(i) PROVE Supervised'
  BY <1>3, RestartKeeps DEF RestartWatchdogs
<1>4. ASSUME \/ UNCHANGED vars \/ Upload \/ EndUpload PROVE Supervised'
  <2>1. UNCHANGED <<procs, sh, pidfile, raced>>
    BY <1>4 DEF vars, serverVars, fileVars, Upload, EndUpload
  <2> QED
    BY <2>1 DEF Supervised, Race, InHand, InFile, Busy, Changing, Alive
<1>5. CASE ServerStep
  BY <1>5, ServerKeeps
<1> QED
  BY <1>1, <1>2, <1>3, <1>4, <1>5 DEF Next, Environment

\* Until scripts race, those at work know the process.
THEOREM Supervision == Spec => []Supervised
BY SupervisedStart, SupervisedKept, Invariance, PTL DEF Spec

\* stop waits for the old instance, and start looks before it starts one: of
\* crashes, updates, failing starts and restarts, none makes two instances,
\* with any number of watchdogs, until one script changes something while
\* another is at work.
THEOREM NeverTwo == Spec => []OneInstance
<1>1. Supervised => OneInstance
  <2> SUFFICES ASSUME Supervised, ~raced, NEW p \in Pid, NEW q \in Pid,
                      Alive(p), Alive(q)
               PROVE  p = q
    BY DEF OneInstance
  <2>1. CASE \E i \in Script : Busy(i)
    BY <2>1, Known
  <2>2. CASE \A i \in Script : ~Busy(i)
    <3>1. \A i \in Script : sh[i].pc \notin {"trunc", "echo"}
      BY <2>2 DEF Busy
    <3> QED
      BY <3>1, InFileNow
  <2> QED
    BY <2>1, <2>2
<1> QED
  BY <1>1, Supervision, PTL

\* Until scripts race, or one is killed between spawn and echo, the live
\* instance can be found: by the pid file, or as the script that has just
\* started it and is about to write its pid.
THEOREM AlwaysFound == Spec => []NoOrphan
<1>1. Supervised => NoOrphan
  <2> SUFFICES ASSUME Supervised, ~raced, NEW p \in Pid, Alive(p), pidfile # p
               PROVE  \E i \in Script : /\ sh[i].pid = p
                                        /\ sh[i].pc \in {"trunc", "echo"}
    BY DEF NoOrphan
  <2>1. PICK i \in Script : sh[i].pc \in {"trunc", "echo"}
    BY DEF Supervised, InFile
  <2>2. Busy(i)
    BY <2>1 DEF Busy
  <2> QED
    BY <2>1, <2>2, Known
<1> QED
  BY <1>1, Supervision, PTL
=============================================================================
