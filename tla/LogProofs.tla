------------------------------ MODULE LogProofs ------------------------------
(***************************************************************************)
(* Theorems about LogRotation, for any number of workers, of hours and of  *)
(* restarts:                                                               *)
(*                                                                         *)
(*   - TypeOK: no process that is alive is without a time of rotation;     *)
(*   - Exclusive: of the workers that have opened the lock file each for   *)
(*     themselves, one at a time is between the lock file and the rename;  *)
(*   - NothingLost: a server of one process renames no file over another.  *)
(***************************************************************************)
EXTENDS LogRotation, TLAPS

-----------------------------------------------------------------------------
(* Type correctness.                                                       *)

\* Who lives has a time of rotation, which is not 0.
HasTime == \A p \in Procs : pc[p] # "dead" => nextRolloverTime[p] # 0

TypeInv == TypeOK /\ HasTime

LEMMA TypeInit == Init => TypeInv
<1>. SUFFICES ASSUME Init PROVE TypeInv
  OBVIOUS
<1>1. 1 \in 1..MaxHour /\ 0 \in Hours /\ {2} \subseteq 1..(MaxHour + 1)
  BY LogAssumption DEF Hours
<1>2. lock_file \in 1..(MaxHour + 1)
  BY <1>1 DEF Init, FirstTime
<1>3. stream_lock \in [Procs -> Procs \cup {None}] /\ stream \in [Procs -> Files \cup {None}]
  BY DEF Init, FirstLock, Everywhere, Procs, Files
<1>4. nextRolloverTime \in [Procs -> 1..(MaxHour + 1)]
  BY <1>2 DEF Init, Everywhere
<1>5. restarts \in 0..(MaxRestarts + 1)
  BY LogAssumption DEF Init
<1>6. DOMAIN files \subseteq Files /\ files \in [DOMAIN files -> Hours]
  BY <1>1 DEF Init, Files
<1>. QED
  BY <1>1, <1>2, <1>3, <1>4, <1>5, <1>6 DEF Init, TypeInv, TypeOK, HasTime, FirstPc

\* A rename has a file of the log for its result.
LEMMA RenamedType ==
  ASSUME TypeInv, NEW from \in DOMAIN files, NEW k \in {"dated", "bak"}, NEW h \in Hours,
         Renamed(from, <<k, h>>)
  PROVE  /\ DOMAIN files' \subseteq Files /\ files' \in [DOMAIN files' -> Hours]
         /\ stream' \in [Procs -> Files \cup {None}]
<1>1. <<k, h>> \in Files /\ <<"lost", h>> \in Files
  BY DEF Files
<1>2. DOMAIN files \subseteq Files /\ files \in [DOMAIN files -> Hours]
  BY DEF TypeInv, TypeOK
<1>. QED
  BY <1>1, <1>2 DEF Renamed, TypeInv, TypeOK

LEMMA CreateType ==
  ASSUME TypeInv
  PROVE  DOMAIN Create(files) \subseteq Files /\ Create(files) \in [DOMAIN Create(files) -> Hours]
BY LogAssumption DEF TypeInv, TypeOK, Create, Files, Hours

LEMMA TypeHandle ==
  ASSUME TypeInv, NEW p \in Procs, Log(p) \/ Handle(p)
  PROVE  TypeInv'
<1>. USE DEF TypeInv, TypeOK, HasTime, At
<1>1. CASE Log(p)
  BY <1>1 DEF Log, handler, disk, server, Hours
<1>2. CASE Acquire(p)
  BY <1>2 DEF Acquire, Lock, handler, disk, server
<1>3. CASE Check(p)
  BY <1>3 DEF Check, Lock, disk, server
<1>4. CASE Read(p)
  BY <1>4 DEF Read, Unlock, disk, server
<1>5. CASE Aside(p)
  <2>1. nextRolloverTime[p] - 1 \in Hours
    BY <1>5, LogAssumption DEF Aside, Hours
  <2>2. /\ DOMAIN files' \subseteq Files /\ files' \in [DOMAIN files' -> Hours]
        /\ stream' \in [Procs -> Files \cup {None}]
    BY <1>5, <2>1, RenamedType DEF Aside, Dated
  <2>. QED
    BY <1>5, <2>2 DEF Aside, server
<1>6. CASE Rename(p)
  <2>1. nextRolloverTime[p] - 1 \in Hours
    BY <1>6, LogAssumption DEF Rename, Hours
  <2>2. /\ DOMAIN files' \subseteq Files /\ files' \in [DOMAIN files' -> Hours]
        /\ stream' \in [Procs -> Files \cup {None}]
    BY <1>6, <2>1, RenamedType DEF Rename, Dated
  <2>. QED
    BY <1>6, <2>2 DEF Rename, server
<1>7. CASE OpenLock(p)
  <2>1. hour + 1 \in 1..(MaxHour + 1) /\ 0 \in 0..(MaxHour + 1)
    BY LogAssumption
  <2>. QED
    BY <1>7, <2>1 DEF OpenLock, server
<1>8. CASE Save(p)
  BY <1>8 DEF Save, handler, server
<1>9. CASE Reopen(p)
  <2>1. DOMAIN files' \subseteq Files /\ files' \in [DOMAIN files' -> Hours]
    BY <1>9, CreateType DEF Reopen
  <2>2. stream' \in [Procs -> Files \cup {None}]
    BY <1>9 DEF Reopen, Files
  <2>. QED
    BY <1>9, <2>1, <2>2 DEF Reopen, Unlock, server
<1>10. CASE Open(p)
  <2>1. DOMAIN files' \subseteq Files /\ files' \in [DOMAIN files' -> Hours]
    BY <1>10, CreateType DEF Open
  <2>2. stream' \in [Procs -> Files \cup {None}]
    BY <1>10 DEF Open, Files
  <2>. QED
    BY <1>10, <2>1, <2>2 DEF Open, server
<1>11. CASE Write(p)
  <2>1. DOMAIN files' \subseteq Files /\ files' \in [DOMAIN files' -> Hours]
    BY <1>11 DEF Write
  <2>. QED
    BY <1>11, <2>1 DEF Write, Unlock, handler, server
<1>. QED
  BY <1>1, <1>2, <1>3, <1>4, <1>5, <1>6, <1>7, <1>8, <1>9, <1>10, <1>11 DEF Handle, Rollover

LEMMA TypeProcs ==
  ASSUME TypeInv,
         (\E w \in workers : Crash(w)) \/ Fork \/ Replace \/ GiveUp \/ Restart \/ Tick
  PROVE  TypeInv'
<1>. USE DEF TypeInv, TypeOK, HasTime
<1>m. master \in Procs /\ workers \subseteq Procs
  BY DEF Procs
<1>1. ASSUME NEW w \in workers, Crash(w) PROVE TypeInv'
  BY <1>1, <1>m, LogAssumption DEF Crash, FlockAfter, disk, server
<1>2. CASE Fork
  BY <1>2, <1>m DEF Fork, Copied, disk
<1>3. CASE Replace
  <2>1. restarts' \in 0..(MaxRestarts + 1)
    BY <1>3, LogAssumption DEF Replace
  <2>. QED
    BY <1>3, <1>m, <2>1 DEF Replace, Copied, disk
<1>4. CASE GiveUp
  <2>1. restarts' \in 0..(MaxRestarts + 1)
    BY <1>4, LogAssumption DEF GiveUp
  <2>. QED
    BY <1>4, <1>m, <2>1 DEF GiveUp, FlockAfter, disk, handler
<1>5. CASE Restart
  <2>1. lock_file' \in 1..(MaxHour + 1)
    BY <1>5, LogAssumption DEF Restart, FirstTime
  <2>2. DOMAIN files' \subseteq Files /\ files' \in [DOMAIN files' -> Hours]
    BY <1>5, CreateType DEF Restart
  <2>3. /\ stream_lock' \in [Procs -> Procs \cup {None}]
        /\ stream' \in [Procs -> Files \cup {None}]
        /\ nextRolloverTime' \in [Procs -> 1..(MaxHour + 1)]
    BY <1>5, <1>m, <2>1 DEF Restart, FirstLock, Everywhere, Files
  <2>4. 0 \in Hours
    BY LogAssumption DEF Hours
  <2>. QED
    BY <1>5, <2>1, <2>2, <2>3, <2>4 DEF Restart, FirstPc, server
<1>6. CASE Tick
  BY <1>6, LogAssumption DEF Tick, server, handler, disk
<1>. QED
  BY <1>1, <1>2, <1>3, <1>4, <1>5, <1>6

LEMMA TypeNext == TypeInv /\ [Next]_vars => TypeInv'
<1>1. TypeInv /\ UNCHANGED vars => TypeInv'
  BY DEF TypeInv, TypeOK, HasTime, vars, server, handler, disk
<1>. QED
  BY <1>1, TypeHandle, TypeProcs DEF Next

LEMMA TypeAlways == Spec => []TypeInv
<1>. QED
  BY TypeInit, TypeNext, PTL DEF Spec

\* Every process keeps a time of rotation within the clock, a stream on a file
\* there is a name for, and the lock of an existing process (TypeOK).
THEOREM TypeCorrect == Spec => []TypeOK
<1>1. TypeInv => TypeOK
  BY DEF TypeInv
<1>. QED
  BY <1>1, TypeAlways, PTL

-----------------------------------------------------------------------------
(* The file lock.                                                          *)

\* A lock file is opened by the process itself or by the master, which keeps
\* its own.
Openers ==
  /\ \A q \in Procs : stream_lock[q] \in {None, q, master}
  /\ \A q \in Procs : stream_lock[q] = master => stream_lock[master] = master

\* A worker with a description of its own has the flock from acquire() until
\* it is about to write the lock file.
Locked == {"check"} \cup Renaming
OwnersHold ==
  \A w \in Workers : stream_lock[w] = w /\ pc[w] \in Locked => holder = w

\* Workers there are after the fork only, and who is written about is dead.
Births ==
  /\ ~forked => \A w \in Workers : pc[w] = "dead"
  /\ reaped # None => forked /\ pc[reaped] = "dead"

\* LockOwed, with the dead worker the master has not written about yet.
Owed ==
  holder # None =>
    \E p \in Procs :
      /\ stream_lock[p] = holder /\ pc[p] # "dead"
      /\ \/ pc[p] \notin {"idle", "acquire"}
         \/ /\ p = master /\ forked
            /\ \E w \in workers : pc[w] = "dead" /\ (pc[master] = "acquire" \/ w # reaped)
         \/ pc[master] = "dead"

LockInv == Openers /\ OwnersHold /\ Births /\ Owed

LEMMA LockInit == Init => LockInv
BY LogAssumption DEF Init, LockInv, Openers, OwnersHold, Births, Owed, FirstLock,
  Everywhere, FirstPc, Procs

LEMMA LockHandle ==
  ASSUME TypeInv, LockInv, NEW p \in Procs, Log(p) \/ Handle(p)
  PROVE  LockInv'
<1>. USE LogAssumption DEF TypeInv, TypeOK, Procs, LockInv, Openers, OwnersHold, Births, Owed,
       At, Locked, Renaming
<1>1. CASE Log(p)
  BY <1>1 DEF Log, handler, disk, server
<1>2. CASE Acquire(p)
  BY <1>2 DEF Acquire, Lock, handler, disk, server
<1>3. CASE Check(p)
  BY <1>3 DEF Check, Lock, disk, server
<1>4. CASE Read(p)
  BY <1>4 DEF Read, Unlock, disk, server
<1>5. CASE Aside(p)
  BY <1>5 DEF Aside, server
<1>6. CASE Rename(p)
  BY <1>6 DEF Rename, server
<1>7. CASE OpenLock(p)
  BY <1>7 DEF OpenLock, server
<1>8. CASE Save(p)
  BY <1>8 DEF Save, handler, server
<1>9. CASE Reopen(p)
  BY <1>9 DEF Reopen, Unlock, server
<1>10. CASE Open(p)
  BY <1>10 DEF Open, server
<1>11. CASE Write(p)
  BY <1>11 DEF Write, Unlock, handler, server
<1>. QED
  BY <1>1, <1>2, <1>3, <1>4, <1>5, <1>6, <1>7, <1>8, <1>9, <1>10, <1>11 DEF Handle, Rollover

LEMMA LockProcs ==
  ASSUME TypeInv, LockInv,
         (\E w \in workers : Crash(w)) \/ Fork \/ Replace \/ GiveUp \/ Restart \/ Tick
  PROVE  LockInv'
<1>. USE LogAssumption DEF TypeInv, TypeOK, Procs, LockInv, Openers, OwnersHold, Births, Owed,
       Locked, Renaming
<1>1. ASSUME NEW w \in workers, Crash(w) PROVE LockInv'
  BY <1>1 DEF Crash, FlockAfter, disk, server
<1>2. CASE Fork
  BY <1>2 DEF Fork, Copied, disk
<1>3. CASE Replace
  BY <1>3 DEF Replace, Copied, disk
<1>4. CASE GiveUp
  BY <1>4 DEF GiveUp, FlockAfter, disk, handler
<1>5. CASE Restart
  BY <1>5 DEF Restart, FirstLock, Everywhere, FirstPc, server
<1>6. CASE Tick
  BY <1>6 DEF Tick, server, handler, disk
<1>. QED
  BY <1>1, <1>2, <1>3, <1>4, <1>5, <1>6

LEMMA LockNext == TypeInv /\ LockInv /\ [Next]_vars => LockInv'
<1>1. LockInv /\ UNCHANGED vars => LockInv'
  BY DEF LockInv, Openers, OwnersHold, Births, Owed, vars, server, handler, disk
<1>. QED
  BY <1>1, LockHandle, LockProcs DEF Next

LEMMA LockAlways == Spec => []LockInv
<1>. QED
  BY TypeAlways, LockInit, LockNext, PTL DEF Spec

\* The rollovers of workers that have opened the lock file each for themselves
\* follow one another, up to the time at which the new one is written.
THEOREM RolloversExclude == Spec => []Exclusive
<1>1. LockInv => Exclusive
  <2>. SUFFICES ASSUME LockInv, NEW p \in Workers, NEW q \in Workers, p # q,
                       stream_lock[p] = p, stream_lock[q] = q,
                       pc[p] \in Renaming, pc[q] \in Renaming
                PROVE  FALSE
    BY DEF Exclusive
  <2>. QED
    BY DEF LockInv, OwnersHold, Locked
<1>. QED
  BY <1>1, LockAlways, PTL

\* The lock is never left to a process that has no reason to give it back.
THEOREM LockAlwaysOwed == Spec => []LockOwed
<1>1. LockInv => LockOwed
  BY DEF LockInv, Owed, LockOwed
<1>. QED
  BY <1>1, LockAlways, PTL

-----------------------------------------------------------------------------
(* The server of one process.                                              *)

\* Its log has no record of the hour of its next rotation, it is not there in
\* the middle of one, and the lock file says what the process knows, unless it
\* has just been emptied.
SoloInv ==
  workers = {} =>
    /\ \A w \in Workers : pc[w] = "dead"
    /\ pc[master] \notin {"dead", "open"} /\ reaped = None /\ forked
    /\ lock_file # None
    /\ pc[master] # "save" => lock_file = nextRolloverTime[master] \/ pc[master] = "next"
    /\ lock_file = 0 => pc[master] = "save"
    /\ record <= hour
    /\ pc[master] \in {"save", "reopen", "write"} => record < nextRolloverTime[master]
    /\ pc[master] \in {"idle", "acquire", "check", "write"} =>
         stream[master] = baseFilename /\ baseFilename \in DOMAIN files
    /\ pc[master] \in {"next", "save", "reopen"} => baseFilename \notin DOMAIN files
    /\ baseFilename \in DOMAIN files =>
         files[baseFilename] < nextRolloverTime[master] /\ files[baseFilename] <= hour
    /\ pc[master] = "rename" => Dated(nextRolloverTime[master] - 1) \notin DOMAIN files
    /\ \A f \in DOMAIN files : f[1] # "lost"
    /\ \A h \in Hours : Dated(h) \in DOMAIN files => files[Dated(h)] <= h

LEMMA Names ==
  /\ baseFilename[1] = "log"
  /\ \A h : Dated(h) # baseFilename /\ Dated(h)[1] = "dated" /\ Dated(h)[2] = h
  /\ \A g, h : Dated(g) = Dated(h) => g = h
BY DEF baseFilename, Dated

LEMMA SoloInit == Init => SoloInv
<1>. SUFFICES ASSUME Init, workers = {} PROVE SoloInv
  BY DEF SoloInv
<1>1. lock_file = 2 /\ nextRolloverTime[master] = 2
  BY DEF Init, FirstTime, Everywhere, Procs
<1>2. pc[master] = "idle" /\ \A w \in Workers : pc[w] = "dead"
  BY LogAssumption DEF Init, FirstPc, Procs
<1>3. DOMAIN files = {baseFilename} /\ files[baseFilename] = 0
  BY DEF Init
<1>4. stream[master] = baseFilename /\ forked /\ reaped = None /\ record = 0 /\ hour = 1
  BY DEF Init, Everywhere, Procs
<1>5. lock_file # None
  BY <1>1, LogAssumption
<1>6. \A f \in DOMAIN files : f[1] # "lost" /\ \A h : f # Dated(h)
  BY <1>3, Names
<1>. QED
  BY <1>1, <1>2, <1>3, <1>4, <1>5, <1>6 DEF SoloInv

LEMMA SoloHandle ==
  ASSUME TypeInv, SoloInv, NEW p \in Procs, Log(p) \/ Handle(p)
  PROVE  SoloInv'
<1>. SUFFICES ASSUME workers = {} PROVE SoloInv'
  BY DEF Log, Handle, Rollover, Acquire, Check, Read, Aside, Rename, OpenLock, Save, Reopen,
    Open, Write, server, SoloInv
<1>p. p = master
  BY DEF SoloInv, Procs, Log, Handle, Rollover, Acquire, Check, Read, Aside, Rename, OpenLock,
    Save, Reopen, Open, Write, At
<1>. USE LogAssumption, <1>p DEF TypeInv, TypeOK, HasTime, Procs, SoloInv, At, Hours
<1>1. CASE Log(p)
  BY <1>1 DEF Log, handler, disk, server
<1>2. CASE Acquire(p)
  BY <1>2 DEF Acquire, handler, disk, server
<1>3. CASE Check(p)
  BY <1>3 DEF Check, disk, server
<1>4. CASE Read(p)
  BY <1>4 DEF Read, disk, server
<1>5. CASE Aside(p)
  <2>. DEFINE h == nextRolloverTime[master] - 1
              bak == <<"bak", h>>
  <2>1. bak[1] = "bak" /\ bak # baseFilename /\ \A g : bak # Dated(g)
    BY DEF baseFilename, Dated
  <2>2. CASE Dated(h) \in DOMAIN files
    <3>1. /\ DOMAIN files' = (DOMAIN files \ {Dated(h)}) \cup {bak}
          /\ \A f \in DOMAIN files \ {Dated(h), bak} : files'[f] = files[f]
      BY <1>5, <2>1, <2>2 DEF Aside, Renamed
    <3>. QED
      BY <1>5, <2>1, <3>1, Names DEF Aside, server
  <2>3. CASE Dated(h) \notin DOMAIN files
    BY <1>5, <2>3 DEF Aside, server
  <2>. QED
    BY <2>2, <2>3
<1>6. CASE Rename(p)
  <2>. DEFINE h == nextRolloverTime[master] - 1
  <2>1. CASE baseFilename \in DOMAIN files
    <3>1. Dated(h)[1] # "bak" /\ Dated(h) \notin DOMAIN files
      BY <1>6, Names DEF Rename
    <3>2. /\ DOMAIN files' = (DOMAIN files \ {baseFilename}) \cup {Dated(h)}
          /\ \A f \in DOMAIN files \ {baseFilename} : files'[f] = files[f]
          /\ files'[Dated(h)] = files[baseFilename]
      BY <1>6, <2>1, <3>1 DEF Rename, Renamed
    <3>3. files[baseFilename] \in Nat /\ files[baseFilename] <= h
      BY <1>6, <2>1 DEF Rename
    <3>. QED
      BY <1>6, <3>2, <3>3, Names DEF Rename, server
  <2>2. CASE baseFilename \notin DOMAIN files
    BY <1>6, <2>2 DEF Rename, server
  <2>. QED
    BY <2>1, <2>2
<1>7. CASE OpenLock(p)
  BY <1>7 DEF OpenLock, server
<1>8. CASE Save(p)
  BY <1>8 DEF Save, handler, server
<1>9. CASE Reopen(p)
  BY <1>9 DEF Reopen, Create, Dated, baseFilename, server
<1>10. CASE Open(p)
  BY <1>10 DEF Open
<1>11. CASE Write(p)
  BY <1>11 DEF Write, Dated, baseFilename, handler, server
<1>. QED
  BY <1>1, <1>2, <1>3, <1>4, <1>5, <1>6, <1>7, <1>8, <1>9, <1>10, <1>11 DEF Handle, Rollover

LEMMA SoloProcs ==
  ASSUME TypeInv, SoloInv,
         (\E w \in workers : Crash(w)) \/ Fork \/ Replace \/ GiveUp \/ Restart \/ Tick
  PROVE  SoloInv'
<1>. SUFFICES ASSUME workers = {}, Restart \/ Tick PROVE SoloInv'
  BY DEF Crash, Fork, Replace, GiveUp, Restart, Tick, server, SoloInv
<1>. USE LogAssumption DEF TypeInv, TypeOK, HasTime, Procs, SoloInv, Hours
<1>1. CASE Restart
  <2>1. /\ nextRolloverTime'[master] = lock_file' /\ stream'[master] = baseFilename
        /\ pc'[master] = "idle" /\ \A w \in Workers : pc'[w] = "dead"
    BY <1>1 DEF Restart, FirstPc, Everywhere
  <2>2. /\ baseFilename \in DOMAIN files'
        /\ DOMAIN files' = DOMAIN files \cup {baseFilename}
        /\ \A f \in DOMAIN files : files'[f] = files[f]
        /\ baseFilename \notin DOMAIN files => files'[baseFilename] = 0
    BY <1>1 DEF Restart, Create
  <2>3. lock_file' # None /\ (lock_file' = hour + 1 \/ (lock_file' = lock_file /\ lock_file # 0))
    BY <1>1 DEF Restart, FirstTime
  <2>4. lock_file' \in Nat \ {0}
    BY <2>3
  <2>5. ASSUME baseFilename \in DOMAIN files
        PROVE  files[baseFilename] \in Nat /\ files[baseFilename] < lock_file'
    <3>1. lock_file # 0 => lock_file = nextRolloverTime[master]
      BY <2>5
    <3>. QED
      BY <2>3, <2>5, <3>1
  <2>6. files'[baseFilename] < lock_file'
    BY <2>2, <2>4, <2>5
  <2>7. files'[baseFilename] <= hour
    BY <2>2
  <2>. QED
    BY <1>1, <2>1, <2>2, <2>3, <2>4, <2>6, <2>7, Names DEF Restart, server
<1>2. CASE Tick
  BY <1>2 DEF Tick, server, handler, disk
<1>. QED
  BY <1>1, <1>2

LEMMA SoloNext == TypeInv /\ SoloInv /\ [Next]_vars => SoloInv'
<1>1. SoloInv /\ UNCHANGED vars => SoloInv'
  BY DEF SoloInv, vars, server, handler, disk
<1>. QED
  BY <1>1, SoloHandle, SoloProcs DEF Next

LEMMA SoloAlways == Spec => []SoloInv
<1>. QED
  BY TypeAlways, SoloInit, SoloNext, PTL DEF Spec

\* A server of one process renames no file over another one, wherever it is
\* killed and however it is started again.
THEOREM OneProcessLosesNothing == Spec => []NothingLost
<1>1. SoloInv => NothingLost
  BY DEF SoloInv, NothingLost
<1>. QED
  BY <1>1, SoloAlways, PTL

\* Nor does it file a record under an hour before its own.
THEOREM OneProcessFilesByHour == Spec => []FiledByHour
<1>1. TypeInv /\ SoloInv => FiledByHour
  <2>. SUFFICES ASSUME TypeInv, SoloInv, workers = {}, NEW f \in DOMAIN files, f[1] = "dated"
                PROVE  files[f] <= f[2]
    BY DEF FiledByHour
  <2>1. f \in Files
    BY DEF TypeInv, TypeOK
  <2>2. f[2] \in Hours /\ f = Dated(f[2])
    BY <2>1 DEF Files, baseFilename, Dated
  <2>. QED
    BY <2>2 DEF SoloInv
<1>. QED
  BY <1>1, TypeAlways, SoloAlways, PTL
=============================================================================
