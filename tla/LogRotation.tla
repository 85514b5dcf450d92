----------------------------- MODULE LogRotation -----------------------------
(***************************************************************************)
(* The detail log and its hourly rotation by several processes             *)
(* (src/lib/mpfhandler.py, handler `tr' of src/bin/log.ini).               *)
(*                                                                         *)
(* The server opens the log in its first process and forks the workers     *)
(* (fork_processes of tornado), or serves by itself with --procnum=1.      *)
(* Every process has a copy of the handler: the time at which it is to     *)
(* rotate next, its stream and, maybe, an open lock file.  The lock file   *)
(* holds the next time of rotation for the others to read, and is the file *)
(* to flock.  flock belongs to the open file description, which a forked   *)
(* process shares with its parent: it does not keep those two apart.       *)
(*                                                                         *)
(* Time is the hour.  A file is known by its name and by the hour of its   *)
(* latest record.  <<"bak", h>> is the last copy made of a dated file,     *)
(* <<"lost", h>> the last file whose name was taken by another one.        *)
(***************************************************************************)
EXTENDS Integers, FiniteSets

CONSTANTS
  Workers,     \* the processes that may be forked
  master,      \* the process that main() starts in
  None,
  MaxHour,     \* bound: the clock stops there
  MaxRestarts  \* max_restarts of fork_processes

ASSUME LogAssumption ==
  /\ master \notin Workers /\ None \notin Workers \cup {master} \cup Nat
  /\ MaxHour \in Nat \ {0} /\ MaxRestarts \in Nat

Procs == Workers \cup {master}
Hours == 0..MaxHour

VARIABLES
  workers,   \* the processes to fork: {} with --procnum=1
  forked,    \* whether the first process has forked them
  restarts,  \* num_restarts
  reaped,    \* the worker whose death the master is writing about
  hour,      \* the clock
  nextRolloverTime, stream, stream_lock, \* the handler, by process
  lock_file, \* None when there is none, 0 when it is empty
  holder,    \* the owner of the description that has the flock, or None
  files,     \* the hour of the latest record in every file there is
  pc,        \* by process, what handle() does next
  record     \* history: the hour of the record at hand, without workers

server  == <<workers, forked, restarts, reaped>>
disk    == <<lock_file, files>>
handler == <<nextRolloverTime, stream, stream_lock>>
vars    == <<server, hour, handler, holder, disk, pc, record>>

baseFilename == <<"log", 0>>
Dated(h)     == <<"dated", h>>
Files        == {baseFilename} \cup ({"dated", "bak", "lost"} \X Hours)

TypeOK ==
  /\ workers \subseteq Workers /\ restarts \in 0..(MaxRestarts + 1)
  /\ forked \in BOOLEAN /\ reaped \in workers \cup {None}
  /\ hour \in 1..MaxHour
  /\ nextRolloverTime \in [Procs -> 0..(MaxHour + 1)]
  /\ stream \in [Procs -> Files \cup {None}]
  /\ stream_lock \in [Procs -> Procs \cup {None}]
  /\ lock_file \in 0..(MaxHour + 1) \cup {None}
  /\ holder \in Procs \cup {None}
  /\ DOMAIN files \subseteq Files /\ files \in [DOMAIN files -> Hours]
  /\ pc \in [Procs -> {"dead", "idle", "acquire", "check", "read", "aside",
                       "rename", "next", "save", "reopen", "open", "write"}]
  /\ record \in Hours

\* fileConfig in the first process.  A lock file left by an earlier server is
\* taken at its word, otherwise one is opened and written; with workers to
\* fork, fork_processes logs a line before it does.
FirstTime(left)  == IF left \in {None, 0} THEN hour + 1 ELSE left
Everywhere(x)    == [p \in Procs |-> x]
FirstLock(left)  == Everywhere(IF left \in {None, 0} THEN master ELSE None)
FirstPc          == [p \in Procs |-> IF p # master THEN "dead"
                                      ELSE IF workers = {} THEN "idle" ELSE "acquire"]

\* The first server, with the lock file removed or up to date.
Init ==
  /\ workers \in {{}, Workers}
  /\ forked = (workers = {}) /\ restarts = 0 /\ reaped = None
  /\ hour = 1
  /\ \E left \in {None, 2} :
       /\ lock_file = FirstTime(left)
       /\ nextRolloverTime = Everywhere(lock_file)
       /\ stream_lock = FirstLock(left)
  /\ stream = Everywhere(baseFilename)
  /\ files = [f \in {baseFilename} |-> 0]
  /\ holder = None
  /\ pc = FirstPc /\ record = 0

At(p, from, to) == pc[p] = from /\ pc' = [pc EXCEPT ![p] = to]

-----------------------------------------------------------------------------
(* The file lock.                                                          *)

\* Mutant: LOCK_NB, its exception swallowed.
LockIfFree(p) ==
  IF stream_lock[p] = None \/ holder # None THEN UNCHANGED holder
  ELSE holder' = stream_lock[p]

\* Waits, unless there is nothing to wait for, or the description has it.
Lock(p) ==
  IF stream_lock[p] = None THEN UNCHANGED holder
  ELSE /\ holder \in {None, stream_lock[p]}
       /\ holder' = stream_lock[p]

Unlock(p) == holder' = IF holder = stream_lock[p] THEN None ELSE holder

\* open(baseFilename, 'a')
Create(fs) ==
  IF baseFilename \in DOMAIN fs THEN fs
  ELSE [f \in DOMAIN fs \cup {baseFilename} |-> IF f = baseFilename THEN 0 ELSE fs[f]]

-----------------------------------------------------------------------------
(* handle() and emit(), up to the question whether to rotate.              *)

\* A process with requests to serve has something to log; the master has when
\* a worker has died.
Log(p) ==
  /\ At(p, "idle", "acquire")
  /\ record' = IF workers = {} THEN hour ELSE record
  /\ IF workers = {} \/ p # master
     THEN UNCHANGED server
     ELSE /\ forked /\ reaped = None /\ \E w \in workers : pc[w] = "dead" /\ reaped' = w
          /\ UNCHANGED <<workers, forked, restarts>>
  /\ UNCHANGED <<hour, handler, holder, disk>>

Acquire(p) ==
  /\ At(p, "acquire", "check")
  /\ Lock(p)
  /\ UNCHANGED <<server, hour, handler, disk, record>>

\* Mutant: > for >=.
CheckLate(p) ==
  /\ IF hour > nextRolloverTime[p]
     THEN At(p, "check", "read") /\ stream' = [stream EXCEPT ![p] = None] /\ Lock(p)
     ELSE At(p, "check", "write") /\ UNCHANGED <<stream, holder>>
  /\ UNCHANGED <<server, hour, nextRolloverTime, stream_lock, disk, record>>

\* shouldRollover; doRollover closes the stream and takes the lock once more,
\* which the process has, unless one that shares it has given it back
Check(p) ==
  /\ IF hour >= nextRolloverTime[p]
     THEN At(p, "check", "read") /\ stream' = [stream EXCEPT ![p] = None] /\ Lock(p)
     ELSE At(p, "check", "write") /\ UNCHANGED <<stream, holder>>
  /\ UNCHANGED <<server, hour, nextRolloverTime, stream_lock, disk, record>>

-----------------------------------------------------------------------------
(* The rest of doRollover.                                                 *)

\* Mutant: somebody else has rotated, and nothing is learnt from it.
ReadInVain(p) ==
  /\ IF lock_file \in {None, 0} \/ nextRolloverTime[p] < lock_file
     THEN At(p, "read", "open") /\ Unlock(p)
     ELSE At(p, "read", "aside") /\ UNCHANGED holder
  /\ UNCHANGED <<server, hour, handler, disk, record>>

\* getNextRolloverTime: no time in the lock file and nothing is done; a later
\* one, and another process has rotated.
Read(p) ==
  /\ IF lock_file \in {None, 0} \/ nextRolloverTime[p] < lock_file
     THEN At(p, "read", "open") /\ Unlock(p)
     ELSE At(p, "read", "aside") /\ UNCHANGED holder
  /\ nextRolloverTime' =
       IF lock_file # None /\ nextRolloverTime[p] < lock_file
       THEN [nextRolloverTime EXCEPT ![p] = lock_file] ELSE nextRolloverTime
  /\ UNCHANGED <<server, hour, stream, stream_lock, disk, record>>

\* os.rename: the streams stay with the file they have.  What had the new name
\* is lost; but a copy has a name that nothing had.
Renamed(from, to) ==
  LET lost     == <<"lost", to[2]>>
      clash    == to[1] # "bak" /\ to \in DOMAIN files
      place(f) == CASE f = from -> to [] f = to /\ clash -> lost [] OTHER -> f
  IN /\ files' = [f \in (DOMAIN files \ {from}) \cup {to} \cup (IF clash THEN {lost} ELSE {}) |->
                    CASE f = to -> files[from]
                      [] f = lost /\ clash -> files[to]
                      [] OTHER -> files[f]]
     /\ stream' = [p \in Procs |-> IF stream[p] = None THEN None ELSE place(stream[p])]

\* Mutant: the dated file is not put aside.
AsideNever(p) ==
  /\ At(p, "aside", "rename")
  /\ UNCHANGED <<server, hour, handler, holder, disk, record>>

\* A dated file that is there already is kept, under a name of its own.
Aside(p) ==
  LET h == nextRolloverTime[p] - 1
  IN /\ At(p, "aside", "rename")
     /\ IF Dated(h) \in DOMAIN files THEN Renamed(Dated(h), <<"bak", h>>)
        ELSE UNCHANGED <<files, stream>>
     /\ UNCHANGED <<server, hour, nextRolloverTime, stream_lock, holder, lock_file, record>>

\* Without a file to rename nothing happens, and no exception gets out.
Rename(p) ==
  /\ At(p, "rename", "next")
  /\ IF baseFilename \in DOMAIN files
     THEN Renamed(baseFilename, Dated(nextRolloverTime[p] - 1))
     ELSE UNCHANGED <<files, stream>>
  /\ UNCHANGED <<server, hour, nextRolloverTime, stream_lock, holder, lock_file, record>>

\* computerNextRolloverTime; _openLockFile empties the file before it is locked
OpenLock(p) ==
  /\ At(p, "next", "save")
  /\ nextRolloverTime' = [nextRolloverTime EXCEPT ![p] = hour + 1]
  /\ IF stream_lock[p] = None
     THEN /\ lock_file' = 0
          /\ stream_lock' = [stream_lock EXCEPT ![p] = p]
     ELSE UNCHANGED <<lock_file, stream_lock>>
  /\ UNCHANGED <<server, hour, stream, holder, files, record>>

\* saveNextRolloverTime: lock, write, unlock
Save(p) ==
  /\ At(p, "save", "reopen")
  /\ holder \in {None, stream_lock[p]}
  /\ lock_file' = nextRolloverTime[p]
  /\ holder' = None
  /\ UNCHANGED <<server, hour, handler, files, record>>

\* the new log, before release()
Reopen(p) ==
  /\ At(p, "reopen", "write")
  /\ files' = Create(files)
  /\ stream' = [stream EXCEPT ![p] = baseFilename]
  /\ Unlock(p)
  /\ UNCHANGED <<server, hour, nextRolloverTime, stream_lock, lock_file, record>>

-----------------------------------------------------------------------------
(* FileHandler.emit, after emit() has rotated, skipped or had no need to.  *)

Open(p) ==
  /\ At(p, "open", "write")
  /\ files' = Create(files)
  /\ stream' = [stream EXCEPT ![p] = baseFilename]
  /\ UNCHANGED <<server, hour, nextRolloverTime, stream_lock, holder, lock_file, record>>

\* Mutant: release() is left out when nothing has been rotated.
WriteOnly(p) ==
  /\ At(p, "write", "idle")
  /\ files' = [files EXCEPT ![stream[p]] = IF @ > record THEN @ ELSE record]
  /\ UNCHANGED <<server, hour, handler, holder, lock_file, record>>

\* the record, and the release() of handle()
Write(p) ==
  /\ At(p, "write", "idle")
  /\ files' = [files EXCEPT ![stream[p]] = IF @ > record THEN @ ELSE record]
  /\ Unlock(p)
  /\ UNCHANGED <<server, hour, handler, lock_file, record>>

-----------------------------------------------------------------------------
(* The processes.                                                          *)

\* The flock goes with the last process that has the description.
FlockAfter(p) ==
  IF \E q \in Procs \ {p} : pc[q] # "dead" /\ stream_lock[q] = holder THEN holder ELSE None

\* A worker is killed.
Crash(w) ==
  /\ pc[w] # "dead"
  /\ pc' = [pc EXCEPT ![w] = "dead"]
  /\ stream_lock' = [stream_lock EXCEPT ![w] = None]
  /\ stream' = [stream EXCEPT ![w] = None]
  /\ holder' = FlockAfter(w)
  /\ nextRolloverTime' = [nextRolloverTime EXCEPT ![w] = 0]
  /\ UNCHANGED <<server, hour, disk, record>>

\* what a forked process has: a copy of the handler of the master
Copied(ws) ==
  /\ pc' = [p \in Procs |-> IF p \in ws THEN "idle" ELSE pc[p]]
  /\ nextRolloverTime' = [p \in Procs |-> nextRolloverTime[IF p \in ws THEN master ELSE p]]
  /\ stream' = [p \in Procs |-> stream[IF p \in ws THEN master ELSE p]]
  /\ stream_lock' = [p \in Procs |-> stream_lock[IF p \in ws THEN master ELSE p]]

Fork ==
  /\ ~forked /\ pc[master] = "idle"
  /\ forked' = TRUE
  /\ Copied(workers)
  /\ UNCHANGED <<workers, restarts, reaped, hour, holder, disk, record>>

\* Mutant: the deaths are not counted.
ReplaceAlways ==
  /\ reaped # None /\ pc[master] = "idle"
  /\ reaped' = None /\ restarts' = restarts + 1
  /\ Copied({reaped})
  /\ UNCHANGED <<workers, forked, hour, holder, disk, record>>

\* the warning about a dead worker is written: another one is started
Replace ==
  /\ reaped # None /\ pc[master] = "idle" /\ restarts < MaxRestarts
  /\ reaped' = None /\ restarts' = restarts + 1
  /\ Copied({reaped})
  /\ UNCHANGED <<workers, forked, hour, holder, disk, record>>

\* there have been too many, and the master ends
GiveUp ==
  /\ reaped # None /\ pc[master] = "idle" /\ restarts = MaxRestarts
  /\ reaped' = None /\ restarts' = restarts + 1
  /\ pc' = [pc EXCEPT ![master] = "dead"]
  /\ holder' = FlockAfter(master)
  /\ UNCHANGED <<workers, forked, hour, handler, disk, record>>

\* The server is killed and started anew, by a script that removes the lock
\* file (wechat_start.sh) or by one that does not (integrated_start.sh).  This
\* is left to the server of one process: what another one can leave behind for
\* the next start, but for the files, is among the initial states.
Restart ==
  /\ workers = {}
  /\ \E left \in {None, lock_file} :
       /\ lock_file' = FirstTime(left)
       /\ nextRolloverTime' = Everywhere(lock_file')
       /\ stream_lock' = FirstLock(left)
  /\ stream' = Everywhere(baseFilename)
  /\ files' = Create(files)
  /\ holder' = None
  /\ pc' = FirstPc /\ record' = 0
  /\ UNCHANGED <<server, hour>>

Tick == hour < MaxHour /\ hour' = hour + 1
        /\ UNCHANGED <<server, handler, holder, disk, pc, record>>

Rollover(p) == Read(p) \/ Aside(p) \/ Rename(p) \/ OpenLock(p) \/ Save(p)
               \/ Reopen(p)
Handle(p)   == Acquire(p) \/ Check(p) \/ Rollover(p) \/ Open(p) \/ Write(p)

Next ==
  \/ \E p \in Procs : Log(p) \/ Handle(p)
  \/ \E w \in workers : Crash(w)
  \/ Fork \/ Replace \/ GiveUp \/ Restart \/ Tick

(***************************************************************************)
(* A process goes on with what it does, the kernel serves those that wait  *)
(* for a flock in turn, the master reaps and forks, and time passes.       *)
(***************************************************************************)
Fairness ==
  /\ \A p \in Procs : SF_vars(Handle(p))
  /\ WF_vars(Log(master)) /\ WF_vars(Fork \/ Replace \/ GiveUp)

Spec == Init /\ [][Next]_vars /\ Fairness

-----------------------------------------------------------------------------
(* Properties.                                                             *)

\* What a process does between its look at the lock file and the rename is
\* for one process at a time, as far as they have opened the lock file each
\* for themselves: that the lock is given back within the rollover, before
\* the new log is open, and that a worker may die with it, does no harm.
Renaming == {"read", "aside", "rename", "next"}
Exclusive ==
  \A p, q \in Workers :
    /\ p # q /\ stream_lock[p] = p /\ stream_lock[q] = q
    => ~(pc[p] \in Renaming /\ pc[q] \in Renaming)

\* A server of one process never renames a file over another one, wherever
\* in a rotation it is killed and however it is started again.
NothingLost == workers = {} => \A f \in DOMAIN files : f[1] # "lost"

\* Nor does it file a record under an hour before its own.
FiledByHour ==
  workers = {} =>
    \A f \in DOMAIN files : f[1] = "dated" => files[f] <= f[2]

\* Nobody waits for the dead: somebody alive has the lock and is about to give
\* it back.  A worker may die with it and leave it to the master, with whom it
\* shares it: then the master is going to write about this, and unlock.  Only
\* behind a master that has given up it may be left to a worker, until that
\* one has its next record.
LockOwed ==
  holder # None =>
    \E p \in Procs :
      /\ stream_lock[p] = holder /\ pc[p] # "dead"
      /\ \/ pc[p] \notin {"idle", "acquire"}
         \/ p = master /\ \E w \in workers : pc[w] = "dead"
         \/ pc[master] = "dead"

\* A worker died between the emptying of the lock file and its writing: the
\* lock file is empty, and nobody is about to write it.  Without workers to die
\* it is the next server that finds the file empty, and writes it.
Stuck ==
  /\ forked /\ (restarts > 0 \/ \E w \in workers : pc[w] = "dead")
  /\ lock_file = 0
  /\ \A p \in Procs : pc[p] \notin {"aside", "rename", "next", "save"}

\* A process that goes on logging does not stay behind: it rotates, or learns
\* that another one has, if it was not there to write the time down; a server
\* started again and again need not.
CatchUp ==
  \A p \in Procs :
    <>[][~Restart]_vars /\ []<>(pc[p] = "check") =>
      []<>(nextRolloverTime[p] > hour \/ Stuck \/ pc[p] = "dead")

\* The log is not rotated again at the same time of rotation, so that what
\* was dated by the first process keeps its name.
NotRotatedAgain ==
  [][\A p \in Procs :
       pc[p] = "rename" /\ pc'[p] = "next" /\ baseFilename \in DOMAIN files
         => Dated(nextRolloverTime[p] - 1) \notin DOMAIN files]_vars
=============================================================================
