------------------------- MODULE Supervisor_proofs -------------------------
(***************************************************************************)
(* Theorems about Supervisor, for any number of starts, lines and deaths   *)
(* of the service.                                                         *)
(***************************************************************************)
EXTENDS Supervisor, FiniteSetTheorems, TLAPS

Starting == {"spawn", "register", "save", "thread"}
Stopping == {"terminate", "wait"}
Watching == {"begin", "poll", "save", "pop"}

-----------------------------------------------------------------------------
(* Reading the log *)

\* Where the file ends.
LEMMA EndOfFileTyped ==
    ASSUME TypeOK, half => log # <<>>
    PROVE  /\ EndOfFile \in 0..(2 * MaxLines)
           /\ EndOfFile = IF half THEN 2 * Len(log) - 1 ELSE 2 * Len(log)
           /\ half => Len(log) >= 1
           /\ Len(log) \in Nat
<1>1. Len(log) \in Nat /\ Len(log) <= MaxLines /\ MaxLines \in Nat
  BY SupervisorAssumption DEF TypeOK
<1>2. half => Len(log) >= 1
  BY DEF TypeOK
<1>3. half \in BOOLEAN
  BY DEF TypeOK
<1> QED
  BY <1>1, <1>2, <1>3 DEF EndOfFile

\* The lines between two positions: a sequence, upwards, of exactly the lines
\* that begin and end between them.
LEMMA LinesBetweenWhole ==
    ASSUME NEW from \in Nat, NEW to \in Nat, from <= to
    PROVE  /\ LinesBetween(from, to) \in Seq(Nat)
           /\ \A j \in DOMAIN LinesBetween(from, to) :
                /\ from + 1 < 2 * LinesBetween(from, to)[j]
                /\ 2 * LinesBetween(from, to)[j] <= to
           /\ \A j, k \in DOMAIN LinesBetween(from, to) :
                j < k => LinesBetween(from, to)[j] < LinesBetween(from, to)[k]
           /\ \A x \in Nat : from + 1 < 2 * x /\ 2 * x <= to =>
                \E j \in DOMAIN LinesBetween(from, to) : LinesBetween(from, to)[j] = x
<1> DEFINE first == (from + 1) \div 2 + 1
           last == to \div 2
           n == last - first + 1
           m == IF n < 0 THEN 0 ELSE n
           s == [k \in 1..n |-> first + k - 1]
<1>1. /\ first \in Nat /\ last \in Nat
      /\ 2 * first > from + 1 /\ 2 * first <= from + 3
      /\ 2 * last <= to /\ to <= 2 * last + 1
  OBVIOUS
<1>2. LinesBetween(from, to) = s
  BY DEF LinesBetween
<1> HIDE DEF first, last
<1>3. m \in Nat /\ 1..n = 1..m
  BY <1>1
<1>4. s \in [1..m -> Nat]
  BY <1>1, <1>3
<1>5. s \in Seq(Nat) /\ DOMAIN s = 1..n
  BY <1>3, <1>4
<1>6. ASSUME NEW x \in Nat, from + 1 < 2 * x, 2 * x <= to
      PROVE  \E j \in DOMAIN s : s[j] = x
  <2>1. x - first + 1 \in 1..n
    BY <1>1, <1>6
  <2>2. s[x - first + 1] = x
    BY <1>1, <2>1
  <2> QED
    BY <1>5, <2>1, <2>2
<1>7. \A j \in 1..n : s[j] = first + j - 1 /\ from + 1 < 2 * s[j] /\ 2 * s[j] <= to
  BY <1>1
<1> HIDE DEF s
<1> QED
  BY <1>1, <1>2, <1>5, <1>6, <1>7

-----------------------------------------------------------------------------
(* Type correctness, with or without patience *)

\* The types, and what keeps them: a request that starts or stops has its run,
\* a monitor that watches has its process and its object, and no monitor has
\* read past the end of the file.
TypeInv ==
    /\ TypeOK
    /\ half => log # <<>>
    /\ call.next \in Starting \cup Stopping => call.run \in Runs /\ file.run # 0
    /\ \A i \in Runs :
         /\ mon[i] \in Watching => file.run # 0
         /\ mon[i] \in Watching \ {"begin"}
              => monProc[i] \in Runs /\ monState[i] \in Runs
         /\ pos[i] <= EndOfFile

\* The bounds are natural numbers, and runs are numbered from 1.
LEMMA BoundsTyped ==
    /\ MaxRuns \in Nat /\ MaxLines \in Nat /\ MaxCrashes \in Nat
    /\ \A i : i \in Runs <=> i \in 0..MaxRuns /\ i # 0
BY SupervisorAssumption DEF Runs

\* The object a request or a monitor finds by name.
LEMMA KnownTyped ==
    TypeOK => Known \in 0..MaxRuns /\ (file.run # 0 => Known \in Runs)
BY BoundsTyped DEF TypeOK, Known

\* The lines a monitor has not read yet.
LEMMA NewLinesTyped ==
    ASSUME TypeInv, NEW i \in Runs
    PROVE  /\ LinesBetween(pos[i], EndOfFile) \in Seq(1..MaxLines)
           /\ <<>> \in Seq(1..MaxLines)
<1>0. TypeOK /\ (half => log # <<>>)
  BY DEF TypeInv
<1>1. /\ EndOfFile \in 0..(2 * MaxLines) /\ pos[i] \in Nat /\ pos[i] <= EndOfFile
      /\ MaxLines \in Nat /\ Len(log) \in Nat /\ Len(log) <= MaxLines
      /\ half => Len(log) >= 1
  <2>1. /\ EndOfFile \in 0..(2 * MaxLines) /\ Len(log) \in Nat
        /\ half => Len(log) >= 1
    BY <1>0, EndOfFileTyped
  <2>2. pos[i] \in 0..(2 * MaxLines) /\ Len(log) <= MaxLines
    BY <1>0 DEF TypeOK
  <2>3. pos[i] <= EndOfFile
    BY DEF TypeInv
  <2> QED
    BY <2>1, <2>2, <2>3, BoundsTyped
<1>2. LinesBetween(pos[i], EndOfFile) \in Seq(1..MaxLines)
  <2> DEFINE s == LinesBetween(pos[i], EndOfFile)
  <2>1. /\ s \in Seq(Nat)
        /\ \A j \in DOMAIN s : pos[i] + 1 < 2 * s[j] /\ 2 * s[j] <= EndOfFile
    <3>1. EndOfFile \in Nat
      BY <1>1
    <3> QED
      BY <1>1, <3>1, LinesBetweenWhole
  <2> HIDE DEF s
  <2>2. ASSUME NEW j \in 1..Len(s) PROVE s[j] \in 1..MaxLines
    <3>1. s[j] \in Nat /\ pos[i] + 1 < 2 * s[j] /\ 2 * s[j] <= EndOfFile
      BY <2>1
    <3>2. EndOfFile <= 2 * MaxLines /\ EndOfFile \in Nat
      BY <1>1
    <3> QED
      BY <1>1, <3>1, <3>2
  <2>3. s \in [1..Len(s) -> Nat] /\ Len(s) \in Nat
    BY <2>1
  <2>4. s \in [1..Len(s) -> 1..MaxLines]
    BY <2>2, <2>3
  <2> DEFINE T == 1..MaxLines
             n == Len(s)
  <2>5. n \in Nat /\ s \in [1..n -> T]
    BY <2>3, <2>4
  <2> HIDE DEF T, n
  <2>6. s \in Seq(T)
    BY <2>5
  <2> QED
    BY <2>6 DEF s, T
<1> QED
  BY <1>2

\* The first of them.
LEMMA PrefixTyped ==
    ASSUME NEW S, NEW s \in Seq(S), NEW n \in 0..Len(s)
    PROVE  /\ SubSeq(s, 1, n) \in Seq(S) /\ Len(SubSeq(s, 1, n)) = n
           /\ \A j \in 1..n : SubSeq(s, 1, n)[j] = s[j]
OBVIOUS

\* Reading the log.
LEMMA ReadTyped ==
    ASSUME TypeInv, NEW i \in Runs, monState[i] \in Runs, ReadActionLog(i)
    PROVE  /\ pos' = [pos EXCEPT ![i] = EndOfFile]
           /\ pos' \in [Runs -> 0..(2 * MaxLines)]
           /\ recorded' \in [Runs -> Seq(1..MaxLines)]
           /\ torn' \subseteq 1..MaxLines
           /\ \A k \in Runs : pos'[k] <= EndOfFile
<1>0. TypeOK /\ (half => log # <<>>)
  BY DEF TypeInv
<1>1. /\ EndOfFile \in 0..(2 * MaxLines) /\ pos[i] \in Nat /\ pos[i] <= EndOfFile
      /\ MaxLines \in Nat /\ Len(log) \in Nat /\ Len(log) <= MaxLines
      /\ half => Len(log) >= 1
  <2>1. /\ EndOfFile \in 0..(2 * MaxLines) /\ Len(log) \in Nat
        /\ half => Len(log) >= 1
    BY <1>0, EndOfFileTyped
  <2>2. pos[i] \in 0..(2 * MaxLines) /\ Len(log) <= MaxLines
    BY <1>0 DEF TypeOK
  <2>3. pos[i] <= EndOfFile
    BY DEF TypeInv
  <2> QED
    BY <2>1, <2>2, <2>3, BoundsTyped
<1>2. LinesBetween(pos[i], EndOfFile) \in Seq(1..MaxLines)
  BY NewLinesTyped
<1>3. recorded' \in [Runs -> Seq(1..MaxLines)]
  BY <1>0, <1>2 DEF ReadActionLog, TypeOK
<1>4. torn' \subseteq 1..MaxLines
  <2>1. half => Len(log) \in 1..MaxLines
    BY <1>1
  <2>2. torn \subseteq 1..MaxLines
    BY <1>0 DEF TypeOK
  <2> QED
    BY <2>1, <2>2 DEF ReadActionLog
<1>5. pos' = [pos EXCEPT ![i] = EndOfFile]
  BY DEF ReadActionLog
<1>6. pos' \in [Runs -> 0..(2 * MaxLines)] /\ \A k \in Runs : pos'[k] <= EndOfFile
  <2>1. pos \in [Runs -> 0..(2 * MaxLines)] /\ \A k \in Runs : pos[k] <= EndOfFile
    BY <1>0 DEF TypeInv, TypeOK
  <2>2. EndOfFile <= EndOfFile
    BY <1>1
  <2> QED
    BY <1>1, <1>5, <2>1, <2>2
<1> QED
  BY <1>3, <1>4, <1>5, <1>6

\* Saving a state object.
LEMMA SaveTyped ==
    ASSUME TypeOK, NEW i \in Runs, NEW st \in Statuses, SaveRunState(i, st)
    PROVE  /\ status' \in [Runs -> Statuses] /\ status' = [status EXCEPT ![i] = st]
           /\ cached' \in 0..MaxRuns /\ cached' = i
           /\ file' \in [run : 0..MaxRuns, status : Statuses] /\ file'.run # 0
           /\ file'.run = i /\ file'.status = st
BY BoundsTyped DEF TypeOK, SaveRunState

\* The steps of a request.
LEMMA CallTyped ==
    ASSUME TypeInv,
           \/ PrepareBegins \/ PrepareOpensConfig \/ PrepareDumpsConfig
           \/ PrepareEnds \/ Spawn \/ Register \/ StartMonitor \/ Terminate \/ Kill
    PROVE  TypeInv'
<1>0. TypeOK /\ MaxRuns \in Nat
  BY BoundsTyped DEF TypeInv
<1> USE DEF Idle, Steps, Starting, Stopping, Watching, EndOfFile, state_vars,
       tail_vars, world_vars, mon_vars, manager_vars, proc_vars
<1>1. ASSUME NEW c \in {"config", "dump", "ready", "idle"},
             call' = [Idle EXCEPT !.next = c],
             sim' \in {"created", "preparing", "ready"},
             config' \in {"none", "partial", "whole"},
             UNCHANGED <<nRuns, state_vars, proc_vars, mon_vars, tail_vars, world_vars>>
      PROVE  TypeInv'
  <2>1. call' \in [next : Steps, run : 0..MaxRuns, proc : 0..MaxRuns]
        /\ call'.next = c
    BY <1>0, <1>1
  <2> QED
    BY <1>0, <1>1, <2>1 DEF TypeInv, TypeOK
<1>2. CASE PrepareBegins
  BY <1>0, <1>1, <1>2 DEF PrepareBegins, TypeOK
<1>3. CASE PrepareOpensConfig
  BY <1>0, <1>1, <1>3 DEF PrepareOpensConfig, TypeOK
<1>4. CASE PrepareDumpsConfig
  BY <1>0, <1>1, <1>4 DEF PrepareDumpsConfig, TypeOK
<1>5. CASE PrepareEnds
  BY <1>0, <1>1, <1>5 DEF PrepareEnds, TypeOK
<1>6. CASE Spawn
  BY <1>0, <1>6 DEF Spawn, TypeInv, TypeOK
<1>7. CASE Register
  BY <1>0, <1>7 DEF Register, TypeInv, TypeOK
<1>8. CASE StartMonitor
  <2>1. /\ mon' \in [Runs -> {"none", "begin", "poll", "save", "pop", "done"}]
        /\ mon' = [mon EXCEPT ![call.run] = "begin"] /\ file.run # 0
        /\ call' = Idle
        /\ UNCHANGED <<manager_vars, nRuns, state_vars, proc_vars, monProc,
                       monState, tail_vars, world_vars>>
    BY <1>0, <1>8 DEF StartMonitor, TypeInv, TypeOK
  <2>2. call' \in [next : Steps, run : 0..MaxRuns, proc : 0..MaxRuns]
        /\ call'.next = "idle"
    BY <1>0, <2>1
  <2>3. TypeOK'
    BY <1>0, <2>1, <2>2 DEF TypeOK
  <2>4. \A i \in Runs : /\ pos'[i] <= EndOfFile'
                       /\ mon'[i] \in Watching \ {"begin"} => mon[i] = mon'[i]
    BY <1>0, <2>1 DEF TypeInv, TypeOK
  <2> QED
    BY <2>1, <2>2, <2>3, <2>4 DEF TypeInv
<1>9. CASE Terminate
  BY <1>0, <1>9 DEF Terminate, TypeInv, TypeOK
<1>10. CASE Kill
  BY <1>0, <1>10 DEF Kill, TypeInv, TypeOK
<1> QED
  BY <1>2, <1>3, <1>4, <1>5, <1>6, <1>7, <1>8, <1>9, <1>10

\* The steps that save a state object.
LEMMA SavesTyped ==
    ASSUME TypeInv,
           \/ StartBegins \/ SpawnFails \/ SaveRunning \/ StopBegins \/ StopEnds
    PROVE  TypeInv'
<1>0. TypeOK /\ MaxRuns \in Nat /\ nRuns \in 0..MaxRuns
  BY BoundsTyped DEF TypeInv, TypeOK
<1> USE DEF Idle, Steps, Starting, Stopping, Watching, EndOfFile, state_vars,
       tail_vars, world_vars, mon_vars, manager_vars, proc_vars
\* Each saves object i, and goes on with call c.
<1>1. ASSUME NEW i \in Runs, NEW st \in Statuses, SaveRunState(i, st),
             call' \in [next : Steps, run : 0..MaxRuns, proc : 0..MaxRuns],
             call'.next \in Starting \cup Stopping => call'.run \in Runs,
             nRuns' \in 0..MaxRuns,
             UNCHANGED <<manager_vars, proc_vars, mon_vars, tail_vars, world_vars>>
      PROVE  TypeInv'
  <2>1. /\ status' \in [Runs -> Statuses] /\ cached' \in 0..MaxRuns
        /\ file' \in [run : 0..MaxRuns, status : Statuses] /\ file'.run # 0
    BY <1>0, <1>1, SaveTyped
  <2> QED
    BY <1>1, <2>1 DEF TypeInv, TypeOK
<1>2. CASE StartBegins
  <2>1. nRuns' \in Runs /\ nRuns' \in 0..MaxRuns
    BY <1>0, <1>2, BoundsTyped DEF StartBegins
  <2> QED
    BY <1>0, <1>1, <1>2, <2>1 DEF StartBegins, Statuses, Active
<1>3. CASE SpawnFails
  BY <1>0, <1>1, <1>3 DEF SpawnFails, Statuses, Terminal, TypeInv
<1>4. CASE SaveRunning
  <2>1. call.run \in Runs /\ call \in [next : Steps, run : 0..MaxRuns, proc : 0..MaxRuns]
    BY <1>0, <1>4 DEF SaveRunning, TypeInv, TypeOK
  <2> QED
    BY <1>0, <1>1, <1>4, <2>1 DEF SaveRunning, Statuses, Active
<1>5. CASE StopBegins
  <2>1. Known \in Runs
    BY <1>0, <1>5, KnownTyped, BoundsTyped DEF StopBegins
  <2> QED
    BY <1>0, <1>1, <1>5, <2>1, BoundsTyped DEF StopBegins, Statuses, Active
<1>6. CASE StopEnds
  BY <1>0, <1>1, <1>6 DEF StopEnds, Statuses, Terminal, TypeInv
<1> QED
  BY <1>2, <1>3, <1>4, <1>5, <1>6

\* The steps of a monitor.
LEMMA MonitorTyped ==
    ASSUME TypeInv, NEW i \in Runs, Monitor(i)
    PROVE  TypeInv'
<1>0. TypeOK /\ MaxRuns \in Nat
  BY BoundsTyped DEF TypeInv
<1> USE DEF Starting, Stopping, Watching, EndOfFile, state_vars,
       tail_vars, world_vars, mon_vars, manager_vars, proc_vars
<1>1. CASE MonitorBegins(i)
  <2>1. Known \in Runs /\ file.run # 0
    BY <1>0, <1>1, KnownTyped DEF MonitorBegins, TypeInv
  <2>2. mon' \in [Runs -> {"none", "begin", "poll", "save", "pop", "done"}]
        /\ monProc' \in [Runs -> 0..MaxRuns] /\ monState' \in [Runs -> 0..MaxRuns]
        /\ cached' \in 0..MaxRuns
    BY <1>0, <1>1, <2>1, BoundsTyped DEF MonitorBegins, TypeOK
  <2>3. ASSUME NEW j \in Runs, mon'[j] \in Watching \ {"begin"}
        PROVE  monProc'[j] \in Runs /\ monState'[j] \in Runs
    <3>1. CASE j = i
      BY <1>0, <1>1, <2>1, <2>3, <3>1, BoundsTyped DEF MonitorBegins, TypeOK
    <3>2. CASE j # i
      BY <1>0, <1>1, <2>3, <3>2 DEF MonitorBegins, TypeInv, TypeOK
    <3> QED
      BY <3>1, <3>2
  <2> QED
    BY <1>0, <1>1, <2>1, <2>2, <2>3 DEF MonitorBegins, TypeInv, TypeOK
<1>2. CASE MonitorPops(i)
  <2>1. /\ mon' \in [Runs -> {"none", "begin", "poll", "save", "pop", "done"}]
        /\ mon' = [mon EXCEPT ![i] = "done"]
        /\ procs' = 0
        /\ UNCHANGED <<manager_vars, nRuns, state_vars, alive, code, call, monProc,
                       monState, tail_vars, world_vars>>
    BY <1>0, <1>2 DEF MonitorPops, TypeOK
  <2>2. TypeOK'
    <3>1. mon' \in [Runs -> {"none", "begin", "poll", "save", "pop", "done"}]
          /\ procs' \in 0..MaxRuns
      BY <2>1, BoundsTyped
    <3>2. UNCHANGED <<sim, config, nRuns, status, cached, file, alive, code, call,
                      monProc, monState, log, half, pos, recorded, torn, crashes,
                      left, faulted>>
      BY <2>1 DEF manager_vars, state_vars, tail_vars, world_vars
    <3> QED
      BY <1>0, <3>1, <3>2 DEF TypeOK
  <2>3. \A j \in Runs : /\ pos'[j] <= EndOfFile'
                       /\ mon'[j] \in Watching => mon[j] = mon'[j]
    BY <1>0, <2>1 DEF TypeInv, TypeOK
  <2> QED
    BY <2>1, <2>2, <2>3 DEF TypeInv
<1>3. ASSUME mon[i] \in {"poll", "save"}
      PROVE  monProc[i] \in Runs /\ monState[i] \in Runs
  BY <1>3 DEF TypeInv
<1>4. CASE MonitorPolls(i)
  <2>1. mon' = [mon EXCEPT ![i] = "save"] /\ mon[i] = "poll" /\ ReadActionLog(i)
        /\ UNCHANGED <<manager_vars, nRuns, state_vars, proc_vars, call, monProc,
                       monState, world_vars>>
    BY <1>4 DEF MonitorPolls
  <2> QED
    BY <1>0, <1>3, <2>1, ReadTyped DEF TypeInv, TypeOK
<1>5. CASE MonitorSaves(i)
  <2>1. /\ mon' = [mon EXCEPT ![i] = "poll"] /\ mon[i] = "save"
        /\ SaveRunState(monState[i], status[monState[i]])
        /\ UNCHANGED <<manager_vars, nRuns, proc_vars, call, monProc, monState,
                       tail_vars, world_vars>>
    BY <1>5 DEF MonitorSaves
  <2>2. status[monState[i]] \in Statuses
    BY <1>0, <1>3, <2>1 DEF TypeOK
  <2>3. /\ status' \in [Runs -> Statuses] /\ cached' \in 0..MaxRuns
        /\ file' \in [run : 0..MaxRuns, status : Statuses] /\ file'.run # 0
    BY <1>0, <1>3, <2>1, <2>2, SaveTyped
  <2> QED
    BY <1>0, <2>1, <2>3 DEF TypeInv, TypeOK
<1>7. CASE MonitorFails(i)
  <2> DEFINE new == IF mon[i] = "poll" THEN LinesBetween(pos[i], EndOfFile) ELSE <<>>
  <2>1. /\ mon' = [mon EXCEPT ![i] = "pop"] /\ mon[i] \in {"poll", "save"}
        /\ SaveRunState(monState[i], "failed") /\ faulted' = faulted \cup {i}
        /\ UNCHANGED <<manager_vars, nRuns, proc_vars, call, monProc, monState, pos,
                       torn, log, half, crashes, left>>
    BY <1>7 DEF MonitorFails
  <2>2. PICK n \in 0..Len(new) :
          recorded' = [recorded EXCEPT ![monState[i]] = @ \o SubSeq(new, 1, n)]
    BY <1>7 DEF MonitorFails
  <2>3. new \in Seq(1..MaxLines)
    BY <1>3, <2>1, NewLinesTyped
  <2> HIDE DEF new
  <2>4. SubSeq(new, 1, n) \in Seq(1..MaxLines)
    BY <2>3, PrefixTyped
  <2>5. recorded' \in [Runs -> Seq(1..MaxLines)]
    <3> DEFINE T == Seq(1..MaxLines)
               new2 == recorded[monState[i]] \o SubSeq(new, 1, n)
    <3>1. recorded \in [Runs -> T] /\ monState[i] \in Runs
      BY <1>0, <1>3, <2>1 DEF TypeOK
    <3>2. new2 \in T
      BY <2>4, <3>1
    <3>3. recorded' = [recorded EXCEPT ![monState[i]] = new2]
      BY <2>2
    <3> HIDE DEF T, new2
    <3>4. recorded' \in [Runs -> T]
      BY <3>1, <3>2, <3>3
    <3> QED
      BY <3>4 DEF T
  <2>6. "failed" \in Statuses
    BY DEF Statuses, Terminal
  <2>7. /\ status' \in [Runs -> Statuses] /\ cached' \in 0..MaxRuns
        /\ file' \in [run : 0..MaxRuns, status : Statuses] /\ file'.run # 0
    BY <1>0, <1>3, <2>1, <2>6, SaveTyped
  <2> QED
    BY <1>0, <2>1, <2>5, <2>7 DEF TypeInv, TypeOK
<1>6. CASE MonitorFinishes(i)
  <2> DEFINE st == IF code[monProc[i]] = "zero" THEN "completed" ELSE "failed"
  <2>1. /\ mon' = [mon EXCEPT ![i] = "pop"] /\ mon[i] = "poll"
        /\ ReadActionLog(i) /\ SaveRunState(monState[i], st)
        /\ UNCHANGED <<manager_vars, nRuns, proc_vars, call, monProc, monState,
                       world_vars>>
    BY <1>6 DEF MonitorFinishes
  <2>2. st \in Statuses
    BY DEF Statuses, Terminal
  <2> HIDE DEF st
  <2>3. /\ status' \in [Runs -> Statuses] /\ cached' \in 0..MaxRuns
        /\ file' \in [run : 0..MaxRuns, status : Statuses] /\ file'.run # 0
    BY <1>0, <1>3, <2>1, <2>2, SaveTyped
  <2>4. /\ pos' \in [Runs -> 0..(2 * MaxLines)] /\ torn' \subseteq 1..MaxLines
        /\ recorded' \in [Runs -> Seq(1..MaxLines)]
        /\ \A k \in Runs : pos'[k] <= EndOfFile
    BY <1>0, <1>3, <2>1, ReadTyped
  <2> QED
    BY <1>0, <2>1, <2>3, <2>4 DEF TypeInv, TypeOK
<1> QED
  BY <1>1, <1>2, <1>4, <1>5, <1>6, <1>7 DEF Monitor

\* The steps of a process, and the death of the service.
LEMMA ProcessTyped ==
    ASSUME TypeInv,
           Crash \/ \E i \in Runs : WriteLine(i) \/ WriteRest(i) \/ ProcessExits(i)
    PROVE  TypeInv'
<1>0. TypeOK /\ MaxRuns \in Nat
  BY BoundsTyped DEF TypeInv
<1> USE DEF Starting, Stopping, Watching, state_vars, tail_vars, world_vars,
       mon_vars, manager_vars, proc_vars
<1>1. CASE Crash
  <2>1. /\ crashes' \in 0..MaxCrashes /\ left' \subseteq Runs
        /\ cached' \in 0..MaxRuns /\ procs' \in 0..MaxRuns
        /\ call' \in [next : Steps, run : 0..MaxRuns, proc : 0..MaxRuns]
        /\ call'.next = "idle"
        /\ mon' \in [Runs -> {"none", "begin", "poll", "save", "pop", "done"}]
        /\ \A i \in Runs : mon'[i] = "none"
    BY <1>0, <1>1, BoundsTyped DEF Crash, TypeOK, Idle, Steps
  <2>2. UNCHANGED <<manager_vars, nRuns, status, file, alive, code, monProc,
                    monState, log, half, tail_vars, faulted>>
    BY <1>1 DEF Crash
  <2>3. TypeOK'
    BY <1>0, <2>1, <2>2 DEF TypeOK
  <2>4. \A i \in Runs : pos'[i] <= EndOfFile'
    BY <2>2 DEF TypeInv, EndOfFile
  <2> QED
    BY <2>1, <2>2, <2>3, <2>4 DEF TypeInv
<1>2. ASSUME NEW i \in Runs, ProcessExits(i) PROVE TypeInv'
  <2>1. /\ alive' \subseteq Runs
        /\ code' \in [Runs -> {"none", "zero", "nonzero"}]
        /\ UNCHANGED <<manager_vars, nRuns, state_vars, procs, call, mon_vars,
                       tail_vars, world_vars>>
    BY <1>0, <1>2 DEF ProcessExits, TypeOK
  <2>2. TypeOK'
    BY <1>0, <2>1 DEF TypeOK
  <2> QED
    BY <2>1, <2>2 DEF TypeInv, EndOfFile
<1>3. ASSUME NEW i \in Runs, WriteLine(i) \/ WriteRest(i) PROVE TypeInv'
  <2>1. UNCHANGED <<manager_vars, nRuns, state_vars, proc_vars, call, mon_vars,
                    tail_vars, crashes, left, faulted>>
    BY <1>3 DEF WriteLine, WriteRest
  <2>2. log' \in Seq(Runs) /\ Len(log') <= MaxLines /\ half' \in BOOLEAN
        /\ log' # <<>>
    <3>1. CASE WriteLine(i)
      <4>1. log \in Seq(Runs) /\ Len(log) < MaxLines /\ log' = Append(log, i)
            /\ half' \in BOOLEAN
        BY <1>0, <3>1 DEF WriteLine, TypeOK
      <4>2. log' \in Seq(Runs) /\ Len(log') = Len(log) + 1 /\ Len(log) \in Nat
        BY <4>1
      <4>3. log' # <<>>
        BY <4>2
      <4> QED
        BY <4>1, <4>2, <4>3, BoundsTyped
    <3>2. CASE WriteRest(i)
      BY <1>0, <3>2 DEF WriteRest, TypeInv, TypeOK
    <3> QED
      BY <1>3, <3>1, <3>2
  <2>3. EndOfFile <= EndOfFile' /\ EndOfFile \in Int /\ EndOfFile' \in Int
    <3>1. Len(log) \in Nat /\ Len(log') \in Nat /\ half \in BOOLEAN
      <4>1. log \in Seq(Runs) /\ half \in BOOLEAN
        BY <1>0 DEF TypeOK
      <4>2. log' \in Seq(Runs)
        BY <2>2
      <4> QED
        BY <4>1, <4>2
    <3>2. \/ ~half /\ Len(log') = Len(log) + 1
          \/ Len(log') = Len(log) /\ half /\ ~half'
      BY <1>0, <1>3 DEF WriteLine, WriteRest, TypeOK
    <3> QED
      BY <2>2, <3>1, <3>2 DEF EndOfFile
  <2>4. \A k \in Runs : pos[k] \in Int /\ pos[k] <= EndOfFile
    BY <1>0, BoundsTyped DEF TypeInv, TypeOK
  <2>5. TypeOK'
    BY <1>0, <2>1, <2>2 DEF TypeOK
  <2>6. \A k \in Runs : pos'[k] <= EndOfFile'
    <3>1. pos' = pos
      BY <2>1
    <3> HIDE DEF EndOfFile
    <3> QED
      BY <2>3, <2>4, <3>1
  <2> QED
    BY <2>1, <2>2, <2>5, <2>6 DEF TypeInv
<1> QED
  BY <1>1, <1>2, <1>3

\* Before the first request nothing is known of any run.
LEMMA TypeInit == Init => TypeInv
<1> SUFFICES ASSUME Init PROVE TypeInv
  OBVIOUS
<1>1. MaxRuns \in Nat /\ MaxLines \in Nat /\ MaxCrashes \in Nat
  BY BoundsTyped
<1>2. EndOfFile = 0
  BY DEF Init, EndOfFile
<1>3. /\ status \in [Runs -> Statuses] /\ file \in [run : 0..MaxRuns, status : Statuses]
      /\ call \in [next : Steps, run : 0..MaxRuns, proc : 0..MaxRuns]
      /\ call.next = "idle"
  BY <1>1 DEF Init, Statuses, Steps, Idle
<1>4. log \in Seq(Runs) /\ Len(log) = 0 /\ \A i \in Runs : recorded[i] \in Seq(1..MaxLines)
  BY DEF Init
<1>5. recorded \in [Runs -> Seq(1..MaxLines)]
  BY <1>4 DEF Init
<1>6. TypeOK
  <2>1. /\ mon \in [Runs -> {"none", "begin", "poll", "save", "pop", "done"}]
        /\ monProc \in [Runs -> 0..MaxRuns] /\ monState \in [Runs -> 0..MaxRuns]
        /\ pos \in [Runs -> 0..(2 * MaxLines)]
        /\ code \in [Runs -> {"none", "zero", "nonzero"}]
    BY <1>1 DEF Init
  <2>2. /\ sim \in {"created", "preparing", "ready"}
        /\ config \in {"none", "partial", "whole"}
        /\ nRuns \in 0..MaxRuns /\ cached \in 0..MaxRuns /\ procs \in 0..MaxRuns
        /\ crashes \in 0..MaxCrashes
    BY <1>1 DEF Init
  <2>3. /\ alive \subseteq Runs /\ torn \subseteq 1..MaxLines /\ left \subseteq Runs
        /\ faulted \subseteq Runs
    BY DEF Init
  <2>4. half \in BOOLEAN
    BY DEF Init
  <2> QED
    BY <1>1, <1>3, <1>4, <1>5, <2>1, <2>2, <2>3, <2>4 DEF TypeOK
<1> QED
  BY <1>1, <1>2, <1>3, <1>6 DEF Init, TypeInv, Starting, Stopping, Watching

\* No step leaves the types.
LEMMA TypeStep == TypeInv /\ [Next]_vars => TypeInv'
<1> SUFFICES ASSUME TypeInv, [Next]_vars PROVE TypeInv'
  OBVIOUS
<1>1. CASE UNCHANGED vars
  BY <1>1 DEF vars, manager_vars, state_vars, proc_vars, mon_vars, tail_vars,
     world_vars, TypeInv, TypeOK, EndOfFile
<1> QED
  BY <1>1, CallTyped, SavesTyped, MonitorTyped, ProcessTyped DEF Next, Continue

\* So they always hold.
LEMMA TypesAlways == Spec => []TypeInv
BY TypeInit, TypeStep, PTL DEF Spec

\* In every reachable state the variables of the service have their types,
\* whether or not its callers are patient.
THEOREM SupervisorTyped == Spec => []TypeOK
<1>1. TypeInv => TypeOK
  BY DEF TypeInv
<1> QED
  BY <1>1, TypesAlways, PTL
-----------------------------------------------------------------------------
(* The supervisor when its callers are patient: they start again only when  *)
(* the monitor of a run that has ended has left                             *)

\* The state in memory and on disk are one object, the last that was started,
\* and nothing is known of a run that was not.
FilesInv ==
    /\ cached \in {0, file.run}
    /\ file.run <= nRuns
    /\ file.run # 0 => file.status = status[file.run]
    /\ nRuns # 0 => file.run # 0
    /\ \A i \in Runs : i > nRuns => mon[i] = "none" /\ i \notin alive \cup faulted

\* A request that starts or stops a run works on that object, and how far it
\* is shows in the object's status and in the known process.
CallInv ==
    /\ call.next \in Starting =>
         /\ call.run = file.run /\ call.run = nRuns
         /\ status[call.run] = IF call.next = "thread" THEN "running" ELSE "starting"
         /\ call.next \in {"save", "thread"} => procs = call.run
         /\ mon[call.run] = "none" /\ call.run \notin faulted
    /\ call.next \in Stopping => call.run = file.run
    /\ call.next \notin Starting \cup Stopping => call.run = 0

\* A monitor watches the last run, whose process is known, through the handle
\* and the object of that run; none is left while a start is under way.
WatchInv ==
    \A i \in Runs : mon[i] \in Watching =>
        /\ i = file.run /\ procs = i
        /\ call.next \notin Starting
        /\ mon[i] # "begin" => monProc[i] = i /\ monState[i] = i
        /\ mon[i] # "pop" => i \notin faulted
        /\ \/ status[i] \in Terminal \cup {"running"}
           \/ call.next \in Stopping /\ status[i] = "stopping"

\* A process that is watched is that of the last run; its handle is known once
\* it is registered, and the request under way says what its status is.
LiveInv ==
    \A i \in Watched :
        /\ i = file.run
        /\ call.next # "spawn"
        /\ call.next # "register" => procs = i
        /\ call.next = "wait" => call.proc = i
        /\ call.next \in Stopping => status[i] = "stopping"
        /\ call.next \notin Starting \cup Stopping => status[i] = "running"

\* A monitor leaves its loop when its process has exited, or when it fails.
ExitInv == \A i \in Runs : mon[i] \in {"pop", "done"} => i \notin alive \/ i \in faulted

ServiceInv == TypeInv /\ FilesInv /\ CallInv /\ WatchInv /\ LiveInv /\ ExitInv

\* By the name of the simulation everybody finds the last object.
LEMMA KnownIsLast ==
    ASSUME TypeInv, FilesInv
    PROVE  Known = file.run
BY DEF Known, FilesInv, ExitInv

\* A start is let in only when nobody watches and nothing of this service runs.
LEMMA StartsAlone ==
    ASSUME Patient, ServiceInv, StartBegins
    PROVE  (\A i \in Runs : mon[i] \notin Watching) /\ Watched = {}
<1>1. Known = file.run /\ call.next = "idle"
  BY KnownIsLast DEF ServiceInv, StartBegins, Idle
<1>2. file.run # 0 => status[file.run] = file.status
                      /\ status[file.run] \notin {"running", "starting"}
  BY <1>1 DEF ServiceInv, FilesInv, ExitInv, StartBegins
<1>3. ASSUME NEW i \in Runs PROVE mon[i] \notin Watching
  <2> SUFFICES ASSUME mon[i] \in Watching PROVE FALSE
    OBVIOUS
  <2>1. i = file.run /\ status[i] \in Terminal /\ file.run # 0
    BY <1>1, <1>2, BoundsTyped
       DEF ServiceInv, WatchInv, Starting, Stopping, Terminal
  <2>2. MonitorsAreGone
    BY <1>2, <2>1 DEF StartBegins
  <2> QED
    BY <2>2 DEF MonitorsAreGone, Watching
<1>4. ASSUME NEW i \in Watched PROVE FALSE
  <2>1. i = file.run /\ status[i] = "running"
    BY <1>1 DEF ServiceInv, LiveInv, Starting, Stopping
  <2>2. i \in Runs
    BY DEF ServiceInv, TypeInv, TypeOK, Watched
  <2> QED
    BY <1>2, <2>1, <2>2, BoundsTyped
<1> QED
  BY <1>3, <1>4

\* The preparation of the directory disturbs nothing.
LEMMA PrepareKeeps ==
    ASSUME ServiceInv, TypeInv',
           \/ PrepareBegins \/ PrepareOpensConfig \/ PrepareDumpsConfig \/ PrepareEnds
    PROVE  ServiceInv'
<1>1. /\ UNCHANGED <<nRuns, state_vars, proc_vars, mon_vars>> /\ left' = left /\ faulted' = faulted
      /\ call.next \notin Starting \cup Stopping
      /\ call'.next \notin Starting \cup Stopping /\ call'.run = 0
  BY DEF PrepareBegins, PrepareOpensConfig, PrepareDumpsConfig, PrepareEnds, Idle,
     Starting, Stopping, world_vars, ServiceInv, CallInv
<1> QED
  BY <1>1 DEF ServiceInv, FilesInv, ExitInv, CallInv, WatchInv, LiveInv, state_vars,
     proc_vars, mon_vars, Starting, Stopping, Watched

\* The steps of a start.
LEMMA StartKeeps ==
    ASSUME Patient, ServiceInv, TypeInv',
           \/ StartBegins \/ Spawn \/ SpawnFails \/ Register \/ SaveRunning
           \/ StartMonitor
    PROVE  ServiceInv'
<1>0. TypeInv /\ TypeOK /\ MaxRuns \in Nat /\ nRuns \in Nat
  <2>1. TypeInv /\ TypeOK
    BY DEF ServiceInv, TypeInv
  <2>2. nRuns \in 0..MaxRuns
    BY <2>1 DEF TypeOK
  <2> QED
    BY <2>1, <2>2, BoundsTyped
<1> USE DEF state_vars, proc_vars, mon_vars, world_vars, Watched
<1>1. CASE StartBegins
  <2>1. (\A i \in Runs : mon[i] \notin Watching) /\ Watched = {}
    BY <1>1, StartsAlone
  <2>2. /\ nRuns' = nRuns + 1 /\ nRuns' \in Runs
        /\ status' = [status EXCEPT ![nRuns'] = "starting"]
        /\ file' = [run |-> nRuns', status |-> "starting"] /\ cached' = nRuns'
        /\ call' = [next |-> "spawn", run |-> nRuns', proc |-> 0]
        /\ UNCHANGED <<proc_vars, mon_vars, left, faulted>>
    BY <1>0, <1>1, BoundsTyped DEF StartBegins, SaveRunState
  <2>3. status'[nRuns'] = "starting" /\ mon'[nRuns'] = "none" /\ nRuns' \notin faulted
    BY <1>0, <2>2 DEF ServiceInv, FilesInv, ExitInv, TypeOK
  <2>4. FilesInv' /\ ExitInv'
    BY <1>0, <2>2, <2>3 DEF ServiceInv, FilesInv, ExitInv, Runs
  <2>5. CallInv'
    BY <2>2, <2>3 DEF CallInv, Starting, Stopping
  <2>6. WatchInv' /\ LiveInv'
    BY <2>1, <2>2 DEF WatchInv, LiveInv
  <2> QED
    BY <2>4, <2>5, <2>6 DEF ServiceInv
\* While a start is under way its run is the last and nobody watches.
<1>2. ASSUME call.next \in Starting
      PROVE  /\ call.run = file.run /\ call.run = nRuns /\ call.run \in Runs
             /\ mon[call.run] = "none" /\ call.run \notin faulted
             /\ \A i \in Runs : mon[i] \notin Watching
             /\ \A i \in Watched : i = call.run /\ call.next # "spawn"
  BY <1>2 DEF ServiceInv, CallInv, WatchInv, LiveInv, TypeInv
<1>3. CASE Spawn
  <2>1. /\ call.next = "spawn" /\ alive' = alive \cup {call.run}
        /\ call'.next = "register" /\ call'.run = call.run
        /\ UNCHANGED <<nRuns, state_vars, procs, mon_vars, left, faulted>>
    BY <1>0, <1>3 DEF Spawn, TypeOK
  <2>2. FilesInv' /\ ExitInv' /\ CallInv' /\ WatchInv'
    BY <1>0, <1>2, <2>1 DEF ServiceInv, FilesInv, ExitInv, CallInv, WatchInv, Starting, Stopping
  <2>3. LiveInv'
    BY <1>2, <2>1 DEF LiveInv, Starting, Stopping
  <2> QED
    BY <2>2, <2>3 DEF ServiceInv
<1>4. CASE SpawnFails
  <2>1. /\ call.next = "spawn" /\ call'.next = "idle" /\ call'.run = 0
        /\ status' = [status EXCEPT ![call.run] = "failed"]
        /\ file' = [run |-> call.run, status |-> "failed"] /\ cached' = call.run
        /\ UNCHANGED <<nRuns, proc_vars, mon_vars, left, faulted>>
    BY <1>4 DEF SpawnFails, SaveRunState, Idle
  <2>2. status'[call.run] = "failed"
    BY <1>0, <1>2, <2>1 DEF TypeOK, Starting
  <2>3. FilesInv' /\ ExitInv'
    BY <1>0, <1>2, <2>1, <2>2 DEF ServiceInv, FilesInv, ExitInv, Starting
  <2>4. CallInv' /\ WatchInv' /\ LiveInv'
    BY <1>2, <2>1 DEF CallInv, WatchInv, LiveInv, Starting, Stopping
  <2> QED
    BY <2>3, <2>4 DEF ServiceInv
<1>5. CASE Register
  <2>1. /\ call.next = "register" /\ procs' = call.run
        /\ call'.next = "save" /\ call'.run = call.run
        /\ UNCHANGED <<nRuns, state_vars, alive, mon_vars, left, faulted>>
    BY <1>0, <1>5 DEF Register, TypeOK
  <2>2. FilesInv' /\ ExitInv' /\ CallInv' /\ WatchInv'
    BY <1>0, <1>2, <2>1 DEF ServiceInv, FilesInv, ExitInv, CallInv, WatchInv, Starting, Stopping
  <2>3. LiveInv'
    BY <1>2, <2>1 DEF LiveInv, Starting, Stopping
  <2> QED
    BY <2>2, <2>3 DEF ServiceInv
<1>6. CASE SaveRunning
  <2>1. /\ call.next = "save" /\ call'.next = "thread" /\ call'.run = call.run
        /\ status' = [status EXCEPT ![call.run] = "running"]
        /\ file' = [run |-> call.run, status |-> "running"] /\ cached' = call.run
        /\ UNCHANGED <<nRuns, proc_vars, mon_vars, left, faulted>>
    BY <1>0, <1>6 DEF SaveRunning, SaveRunState, TypeOK
  <2>2. status'[call.run] = "running" /\ procs = call.run
    BY <1>0, <1>2, <2>1 DEF TypeOK, Starting, ServiceInv, CallInv
  <2>3. FilesInv' /\ ExitInv'
    BY <1>0, <1>2, <2>1, <2>2 DEF ServiceInv, FilesInv, ExitInv, Starting
  <2>4. CallInv' /\ WatchInv' /\ LiveInv'
    BY <1>2, <2>1, <2>2 DEF CallInv, WatchInv, LiveInv, Starting, Stopping
  <2> QED
    BY <2>3, <2>4 DEF ServiceInv
<1>7. CASE StartMonitor
  <2>1. /\ call.next = "thread" /\ call'.next = "idle" /\ call'.run = 0
        /\ mon' = [mon EXCEPT ![call.run] = "begin"]
        /\ UNCHANGED <<nRuns, state_vars, proc_vars, monProc, monState, left, faulted>>
    BY <1>7 DEF StartMonitor, Idle
  <2>2. status[call.run] = "running" /\ procs = call.run
    BY <2>1 DEF Starting, ServiceInv, CallInv
  <2>3. mon'[call.run] = "begin" /\ \A i \in Runs \ {call.run} : mon'[i] = mon[i]
    BY <1>0, <1>2, <2>1 DEF TypeOK, Starting
  <2>4. FilesInv' /\ ExitInv'
    BY <1>0, <1>2, <2>1, <2>3 DEF ServiceInv, FilesInv, ExitInv, Starting
  <2>5. CallInv'
    BY <2>1 DEF CallInv, Starting, Stopping
  <2>6. WatchInv'
    BY <1>2, <2>1, <2>2, <2>3 DEF WatchInv, Starting, Stopping
  <2>7. LiveInv'
    BY <1>2, <2>1, <2>2 DEF LiveInv, Starting, Stopping
  <2> QED
    BY <2>4, <2>5, <2>6, <2>7 DEF ServiceInv
<1> QED
  BY <1>1, <1>3, <1>4, <1>5, <1>6, <1>7

\* The steps of a stop.
LEMMA StopKeeps ==
    ASSUME ServiceInv, TypeInv', StopBegins \/ Terminate \/ Kill \/ StopEnds
    PROVE  ServiceInv'
<1>0. TypeInv /\ TypeOK
  BY DEF ServiceInv, TypeInv
<1> USE DEF state_vars, proc_vars, mon_vars, world_vars, Watched
<1>1. CASE StopBegins
  <2>1. Known = file.run /\ file.run \in Runs /\ call.next = "idle"
        /\ status[file.run] = "running"
    BY <1>0, <1>1, KnownIsLast, KnownTyped, BoundsTyped DEF StopBegins, ServiceInv, Idle
  <2>2. /\ status' = [status EXCEPT ![file.run] = "stopping"]
        /\ file' = [run |-> file.run, status |-> "stopping"] /\ cached' = file.run
        /\ call' = [next |-> "terminate", run |-> file.run, proc |-> 0]
        /\ UNCHANGED <<nRuns, proc_vars, mon_vars, left, faulted>>
    BY <1>1, <2>1 DEF StopBegins, SaveRunState
  <2>3. status'[file.run] = "stopping" /\ file'.run = file.run
        /\ call'.next = "terminate" /\ call'.run = file.run
    BY <1>0, <2>1, <2>2 DEF TypeOK
  <2>4. FilesInv' /\ ExitInv' /\ CallInv'
    BY <2>2, <2>3 DEF ServiceInv, FilesInv, ExitInv, CallInv, Starting, Stopping
  <2>5. WatchInv' /\ LiveInv'
    BY <2>1, <2>2, <2>3 DEF ServiceInv, WatchInv, LiveInv, Starting, Stopping
  <2> QED
    BY <2>4, <2>5 DEF ServiceInv
<1>2. CASE Terminate
  <2>1. /\ call.next = "terminate" /\ call'.next = "wait" /\ call'.run = call.run
        /\ call'.proc = procs
        /\ UNCHANGED <<nRuns, state_vars, proc_vars, mon_vars, left, faulted>>
    BY <1>0, <1>2 DEF Terminate, TypeOK
  <2>2. FilesInv' /\ ExitInv' /\ CallInv'
    BY <2>1 DEF ServiceInv, FilesInv, ExitInv, CallInv, Starting, Stopping
  <2>3. WatchInv' /\ LiveInv'
    BY <2>1 DEF ServiceInv, WatchInv, LiveInv, Starting, Stopping
  <2> QED
    BY <2>2, <2>3 DEF ServiceInv
<1>3. CASE Kill
  <2>1. /\ alive' \subseteq alive
        /\ UNCHANGED <<nRuns, state_vars, procs, call, mon_vars, left, faulted>>
    BY <1>3 DEF Kill
  <2> QED
    BY <2>1 DEF ServiceInv, FilesInv, ExitInv, CallInv, WatchInv, LiveInv
<1>4. CASE StopEnds
  <2>1. /\ call.next = "wait" /\ call.run = file.run /\ file.run \in Runs
        /\ call'.next = "idle" /\ call'.run = 0
        /\ status' = [status EXCEPT ![file.run] = "stopped"]
        /\ file' = [run |-> file.run, status |-> "stopped"] /\ cached' = file.run
        /\ UNCHANGED <<nRuns, proc_vars, mon_vars, left, faulted>>
    BY <1>0, <1>4 DEF StopEnds, SaveRunState, Idle, ServiceInv, CallInv, TypeInv, Stopping
  <2>2. status'[file.run] = "stopped" /\ file'.run = file.run
    BY <1>0, <2>1 DEF TypeOK
  \* What it waited for was the process of this service, if there was one.
  <2>3. Watched = {}
    BY <1>4, <2>1 DEF StopEnds, ServiceInv, LiveInv
  <2>4. FilesInv' /\ ExitInv' /\ CallInv' /\ LiveInv'
    BY <2>1, <2>2, <2>3 DEF ServiceInv, FilesInv, ExitInv, CallInv, LiveInv, Starting, Stopping
  <2>5. WatchInv'
    BY <2>1, <2>2 DEF ServiceInv, WatchInv, Starting, Stopping, Terminal
  <2> QED
    BY <2>4, <2>5 DEF ServiceInv
<1> QED
  BY <1>1, <1>2, <1>3, <1>4

\* The steps of a process, and the death of the service, which leaves it what
\* is alive.
LEMMA ProcessKeeps ==
    ASSUME ServiceInv, TypeInv',
           Crash \/ \E i \in Runs : WriteLine(i) \/ WriteRest(i) \/ ProcessExits(i)
    PROVE  ServiceInv'
<1> USE DEF state_vars, proc_vars, mon_vars, world_vars, Watched
<1>1. CASE Crash
  <2>1. /\ left' = left \cup alive /\ cached' = 0 /\ alive' = alive
        /\ call'.next = "idle" /\ call'.run = 0
        /\ mon' = [i \in Runs |-> "none"]
        /\ UNCHANGED <<nRuns, status, file, faulted>>
    BY <1>1 DEF Crash, Idle
  <2>2. FilesInv' /\ ExitInv' /\ CallInv' /\ WatchInv' /\ LiveInv'
    BY <2>1 DEF ServiceInv, FilesInv, ExitInv, CallInv, WatchInv, LiveInv, Starting, Stopping,
       Watching
  <2> QED
    BY <2>2 DEF ServiceInv
<1>2. ASSUME NEW i \in Runs, WriteLine(i) \/ WriteRest(i) \/ ProcessExits(i)
      PROVE  ServiceInv'
  <2>1. /\ alive' \subseteq alive
        /\ UNCHANGED <<nRuns, state_vars, procs, call, mon_vars, left, faulted>>
    BY <1>2 DEF WriteLine, WriteRest, ProcessExits
  <2> QED
    BY <2>1 DEF ServiceInv, FilesInv, ExitInv, CallInv, WatchInv, LiveInv
<1> QED
  BY <1>1, <1>2

\* The steps of a monitor.
LEMMA MonitorKeeps ==
    ASSUME ServiceInv, TypeInv', NEW i \in Runs, Monitor(i)
    PROVE  ServiceInv'
<1>0. TypeInv /\ TypeOK
  BY DEF ServiceInv, TypeInv
<1> USE DEF state_vars, proc_vars, mon_vars, world_vars, Watched
\* It watches the last run; that is no run that is being started.
<1>1. /\ i = file.run /\ procs = i /\ call.next \notin Starting
      /\ mon[i] # "begin" => monProc[i] = i /\ monState[i] = i
      /\ mon[i] # "pop" => i \notin faulted
      /\ mon[i] \in Watching
      /\ \/ status[i] \in Terminal \cup {"running"}
         \/ call.next \in Stopping /\ status[i] = "stopping"
      /\ mon' = [mon EXCEPT ![i] = mon'[i]]
  <2>1. mon[i] \in Watching /\ mon' = [mon EXCEPT ![i] = mon'[i]]
    BY <1>0 DEF Monitor, MonitorBegins, MonitorPolls, MonitorSaves, MonitorFinishes,
       MonitorFails, MonitorPops, Watching, TypeOK
  <2> QED
    BY <2>1 DEF ServiceInv, WatchInv
<1>2. \A j \in Runs \ {i} : mon'[j] = mon[j] /\ mon[j] \notin Watching
  BY <1>0, <1>1 DEF ServiceInv, WatchInv, TypeOK
<1>3. CASE MonitorBegins(i)
  <2>1. /\ mon[i] = "begin" /\ Known = i /\ mon'[i] = "poll" /\ monProc' = [monProc EXCEPT ![i] = i]
        /\ monState' = [monState EXCEPT ![i] = i] /\ cached' = file.run
        /\ UNCHANGED <<nRuns, status, file, proc_vars, call, left, faulted>>
    BY <1>0, <1>1, <1>3, KnownIsLast, BoundsTyped DEF MonitorBegins, ServiceInv, TypeOK
  <2>2. monProc'[i] = i /\ monState'[i] = i
    BY <1>0, <2>1 DEF TypeOK
  <2>3. FilesInv' /\ ExitInv' /\ CallInv' /\ LiveInv'
    BY <1>1, <1>2, <2>1 DEF ServiceInv, FilesInv, ExitInv, CallInv, LiveInv
  <2>4. WatchInv'
    BY <1>1, <1>2, <2>1, <2>2 DEF WatchInv
  <2> QED
    BY <2>3, <2>4 DEF ServiceInv
<1>4. CASE MonitorPolls(i)
  <2>1. mon[i] = "poll" /\ mon'[i] = "save"
        /\ UNCHANGED <<nRuns, state_vars, proc_vars, call, monProc, monState, left, faulted>>
    BY <1>0, <1>4 DEF MonitorPolls, TypeOK
  <2>2. FilesInv' /\ ExitInv' /\ CallInv' /\ LiveInv'
    BY <1>1, <1>2, <2>1 DEF ServiceInv, FilesInv, ExitInv, CallInv, LiveInv
  <2>3. WatchInv'
    BY <1>1, <1>2, <2>1 DEF WatchInv
  <2> QED
    BY <2>2, <2>3 DEF ServiceInv
<1>5. CASE MonitorSaves(i)
  <2>1. /\ mon[i] = "save" /\ mon'[i] = "poll" /\ status' = [status EXCEPT ![i] = status[i]]
        /\ file' = [run |-> i, status |-> status[i]] /\ cached' = i
        /\ UNCHANGED <<nRuns, proc_vars, call, monProc, monState, left, faulted>>
    BY <1>0, <1>1, <1>5 DEF MonitorSaves, SaveRunState, TypeOK
  <2>2. status' = status /\ file'.run = file.run
    BY <1>0, <1>1, <2>1 DEF TypeOK
  <2>3. FilesInv' /\ ExitInv' /\ CallInv' /\ LiveInv'
    BY <1>1, <1>2, <2>1, <2>2 DEF ServiceInv, FilesInv, ExitInv, CallInv, LiveInv
  <2>4. WatchInv'
    BY <1>1, <1>2, <2>1, <2>2 DEF WatchInv
  <2> QED
    BY <2>3, <2>4 DEF ServiceInv
<1>6. CASE MonitorFinishes(i)
  <2> DEFINE st == IF code[i] = "zero" THEN "completed" ELSE "failed"
  <2>1. /\ mon[i] = "poll" /\ i \notin alive /\ mon'[i] = "pop"
        /\ status' = [status EXCEPT ![i] = st]
        /\ file' = [run |-> i, status |-> st] /\ cached' = i
        /\ UNCHANGED <<nRuns, proc_vars, call, monProc, monState, left, faulted>>
    BY <1>0, <1>1, <1>6 DEF MonitorFinishes, SaveRunState, TypeOK
  <2>2. st \in Terminal
    BY DEF Terminal
  <2> HIDE DEF st
  <2>3. status'[i] = st /\ file'.run = file.run
    BY <1>0, <1>1, <2>1 DEF TypeOK
  \* The process of the last run has exited, so nothing of this service runs.
  <2>4. Watched = {}
    BY <1>1, <2>1 DEF ServiceInv, LiveInv
  <2>5. FilesInv' /\ ExitInv' /\ CallInv' /\ LiveInv'
    BY <1>1, <1>2, <2>1, <2>3, <2>4 DEF ServiceInv, FilesInv, ExitInv, CallInv, LiveInv
  <2>6. WatchInv'
    BY <1>1, <1>2, <2>1, <2>2, <2>3 DEF WatchInv
  <2> QED
    BY <2>5, <2>6 DEF ServiceInv
<1>7. CASE MonitorPops(i)
  <2>1. /\ mon[i] = "pop" /\ mon'[i] = "done" /\ procs' = 0
        /\ UNCHANGED <<nRuns, state_vars, alive, call, monProc, monState, left, faulted>>
    BY <1>0, <1>7 DEF MonitorPops, TypeOK
  <2>2. Watched = {}
    BY <1>1, <2>1 DEF ServiceInv, LiveInv, ExitInv
  <2>3. FilesInv' /\ ExitInv' /\ CallInv' /\ LiveInv'
    BY <1>1, <1>2, <2>1, <2>2 DEF ServiceInv, FilesInv, ExitInv, CallInv, LiveInv
  <2>4. WatchInv'
    BY <1>1, <1>2, <2>1 DEF WatchInv, Watching
  <2> QED
    BY <2>3, <2>4 DEF ServiceInv
\* The process goes on, but it is watched no longer.
<1>8. CASE MonitorFails(i)
  <2>1. /\ mon[i] \in {"poll", "save"} /\ mon'[i] = "pop"
        /\ faulted' = faulted \cup {i}
        /\ status' = [status EXCEPT ![i] = "failed"]
        /\ file' = [run |-> i, status |-> "failed"] /\ cached' = i
        /\ UNCHANGED <<nRuns, proc_vars, call, monProc, monState, left>>
    BY <1>0, <1>1, <1>8 DEF MonitorFails, SaveRunState, TypeOK
  <2>2. status'[i] = "failed" /\ file'.run = file.run
    BY <1>0, <1>1, <2>1 DEF TypeOK
  <2>3. Watched' = {}
    BY <1>1, <2>1 DEF ServiceInv, LiveInv, Watched
  <2>4. FilesInv' /\ ExitInv' /\ CallInv' /\ LiveInv'
    BY <1>1, <1>2, <2>1, <2>2, <2>3 DEF ServiceInv, FilesInv, ExitInv, CallInv, LiveInv
  <2>5. WatchInv'
    BY <1>1, <1>2, <2>1, <2>2 DEF ServiceInv, WatchInv, Terminal
  <2> QED
    BY <2>4, <2>5 DEF ServiceInv
<1> QED
  BY <1>3, <1>4, <1>5, <1>6, <1>7, <1>8 DEF Monitor

\* Before the first request nothing is known of any run.
LEMMA ServiceInit == Init => ServiceInv
<1> SUFFICES ASSUME Init PROVE ServiceInv
  OBVIOUS
<1>1. TypeInv
  BY TypeInit
<1>2. FilesInv /\ CallInv /\ WatchInv /\ LiveInv /\ ExitInv
  BY DEF Init, Idle, FilesInv, CallInv, WatchInv, LiveInv, ExitInv, Starting,
     Stopping, Watching, Watched
<1> QED
  BY <1>1, <1>2 DEF ServiceInv

\* The invariant is inductive, as long as a request waits for the one before
\* it.
LEMMA ServiceStep == Patient /\ ServiceInv /\ [Next]_vars => ServiceInv'
<1> SUFFICES ASSUME Patient, ServiceInv, [Next]_vars PROVE ServiceInv'
  OBVIOUS
<1>1. TypeInv'
  BY TypeStep DEF ServiceInv
<1>2. CASE UNCHANGED vars
  BY <1>1, <1>2 DEF vars, manager_vars, state_vars, proc_vars, mon_vars, world_vars,
     ServiceInv, FilesInv, CallInv, WatchInv, LiveInv, ExitInv, Watched
<1> QED
  BY <1>1, <1>2, PrepareKeeps, StartKeeps, StopKeeps, ProcessKeeps, MonitorKeeps
     DEF Next, Continue

\* So it always holds.
LEMMA ServiceAlways == Patient => (Spec => []ServiceInv)
<1> SUFFICES ASSUME Patient PROVE Spec => []ServiceInv
  OBVIOUS
<1>1. ServiceInv /\ [Next]_vars => ServiceInv'
  BY ServiceStep
<1> QED
  BY <1>1, ServiceInit, PTL DEF Spec

\* If callers are patient, then in every reachable state at most one process
\* is watched, however starts, stops, monitors and exits interleave and however
\* often the service dies or a monitor fails: what outlived its monitor is
\* counted apart.
THEOREM OneProcessAtATime == Patient => (Spec => []OneWatchedProcess)
<1>1. ServiceInv => OneWatchedProcess
  <2> SUFFICES ASSUME ServiceInv PROVE OneWatchedProcess
    OBVIOUS
  <2> DEFINE S == {file.run}
  <2>1. Watched \subseteq S
    BY DEF ServiceInv, LiveInv
  <2>2. IsFiniteSet(S) /\ Cardinality(S) = 1
    BY FS_Singleton
  <2> HIDE DEF S
  <2>3. Cardinality(Watched) <= Cardinality(S)
    BY <2>1, <2>2, FS_Subset
  <2> QED
    BY <2>2, <2>3 DEF OneWatchedProcess
<1> QED
  BY <1>1, ServiceAlways, PTL

\* If callers are patient, a process of this service whose monitor did not fail
\* is always shown as active and, once its start is over, can be stopped: the
\* supervisor holds its handle and says running, or stopping while a stop is
\* under way.
THEOREM WhatRunsIsShown == Patient => (Spec => []LiveIsShown)
<1>1. ServiceInv => LiveIsShown
  <2> SUFFICES ASSUME ServiceInv, NEW i \in Watched
               PROVE  /\ Known = i
                      /\ status[i] \in Active
                      /\ call.run # i => procs = i /\ status[i] = "running"
    BY DEF LiveIsShown
  <2>1. /\ i = file.run
        /\ call.next # "register" => procs = i
        /\ call.next \in Stopping => status[i] = "stopping"
        /\ call.next \notin Starting \cup Stopping => status[i] = "running"
    BY DEF ServiceInv, LiveInv
  <2>2. Known = i
    BY <2>1, KnownIsLast DEF ServiceInv
  <2>3. call.next \in Starting \cup Stopping => call.run = i
    BY <2>1 DEF ServiceInv, CallInv
  <2>4. call.next \in Starting => status[i] \in Active
    BY <2>3 DEF ServiceInv, CallInv, Active
  <2> QED
    BY <2>1, <2>2, <2>3, <2>4 DEF Active, Starting
<1> QED
  BY <1>1, ServiceAlways, PTL

-----------------------------------------------------------------------------
(* The log *)

\* What object i has counted: in order; and unless its monitor failed, nothing
\* beyond the monitor's position and everything before it but for the lines cut
\* in two; the line under the position, if it stands within one, is such a line.
OrderInv(i) ==
    \A j, k \in DOMAIN recorded[i] : j < k => recorded[i][j] < recorded[i][k]

PrefixInv(i) ==
    /\ \A j \in DOMAIN recorded[i] : 2 * recorded[i][j] <= pos[i]
    /\ \A k \in 1..Len(log) :
         /\ 2 * k <= pos[i] => k \in torn \/ \E j \in DOMAIN recorded[i] :
                                                recorded[i][j] = k
         /\ 2 * k - 1 = pos[i] => k \in torn

CountedInv(i) == OrderInv(i) /\ (i \notin faulted => PrefixInv(i))

\* A monitor that left its loop unharmed has read past every line of its run.
ReadInv(i) ==
    mon[i] \in {"pop", "done"} /\ i \notin faulted =>
        \A k \in 1..Len(log) : log[k] = i => 2 * k <= pos[i] \/ k \in torn

LinesInv == \A i \in Runs : CountedInv(i) /\ ReadInv(i)

\* What is in order and ends by a bound, followed by what is in order and begins
\* beyond it, is in order.
LEMMA ConcatOrdered ==
    ASSUME NEW old \in Seq(Nat), NEW new \in Seq(Nat), NEW b \in Nat,
           \A j \in DOMAIN old : 2 * old[j] <= b,
           \A j, k \in DOMAIN old : j < k => old[j] < old[k],
           \A j \in DOMAIN new : b + 1 < 2 * new[j],
           \A j, k \in DOMAIN new : j < k => new[j] < new[k]
    PROVE  \A j, k \in DOMAIN (old \o new) :
             j < k => (old \o new)[j] < (old \o new)[k]
<1> DEFINE s == old \o new
<1>1. /\ DOMAIN s = 1..(Len(old) + Len(new))
      /\ DOMAIN old = 1..Len(old) /\ DOMAIN new = 1..Len(new)
      /\ Len(old) \in Nat /\ Len(new) \in Nat
      /\ \A j \in 1..Len(old) : s[j] = old[j] /\ old[j] \in Nat
      /\ \A j \in 1..Len(new) : s[Len(old) + j] = new[j] /\ new[j] \in Nat
  OBVIOUS
<1>2. \A j \in DOMAIN s :
        \/ j \in DOMAIN old /\ s[j] = old[j]
        \/ j - Len(old) \in DOMAIN new /\ s[j] = new[j - Len(old)] /\ j > Len(old)
  <2> SUFFICES ASSUME NEW j \in 1..(Len(old) + Len(new)), j > Len(old)
               PROVE  /\ j - Len(old) \in 1..Len(new)
                      /\ s[j] = new[j - Len(old)]
    BY <1>1
  <2>1. j - Len(old) \in 1..Len(new) /\ Len(old) + (j - Len(old)) = j
    BY <1>1
  <2> QED
    BY <1>1, <2>1
<1> HIDE DEF s
<1>3. ASSUME NEW j \in DOMAIN s, NEW k \in DOMAIN s, j < k PROVE s[j] < s[k]
  <2>1. CASE k \in DOMAIN old /\ s[k] = old[k]
    <3>1. j \in DOMAIN old /\ ~(j > Len(old))
      <4>1. j \in 1..(Len(old) + Len(new)) /\ k \in 1..Len(old) /\ j < k
        BY <1>1, <1>3, <2>1
      <4>2. j \in 1..Len(old) /\ ~(j > Len(old))
        BY <1>1, <4>1
      <4> QED
        BY <1>1, <4>2
    <3>2. s[j] = old[j]
      BY <1>2, <3>1
    <3> QED
      BY <1>3, <2>1, <3>1, <3>2
  <2>2. CASE k - Len(old) \in DOMAIN new /\ s[k] = new[k - Len(old)]
    <3>1. CASE j \in DOMAIN old /\ s[j] = old[j]
      <4>1. /\ 2 * old[j] <= b /\ old[j] \in Nat
            /\ b + 1 < 2 * new[k - Len(old)] /\ new[k - Len(old)] \in Nat
        BY <1>1, <2>2, <3>1
      <4> QED
        BY <2>2, <3>1, <4>1
    <3>2. CASE j - Len(old) \in DOMAIN new /\ s[j] = new[j - Len(old)]
      <4>1. j - Len(old) < k - Len(old)
        BY <1>1, <1>3
      <4> QED
        BY <2>2, <3>2, <4>1
    <3> QED
      BY <1>2, <3>1, <3>2
  <2> QED
    BY <1>2, <2>1, <2>2
<1> QED
  BY <1>3 DEF s

\* The lines of a log have numbers.
LEMMA LinesAreNumbers ==
    ASSUME NEW old \in Seq(1..MaxLines)
    PROVE  old \in Seq(Nat)
<1> DEFINE n == Len(old)
           T == 1..MaxLines
<1>0. T \subseteq Nat /\ old \in Seq(T)
  OBVIOUS
<1> HIDE DEF T
<1>1. n \in Nat /\ old \in [1..n -> T]
  BY <1>0
<1>2. old \in [1..n -> Nat]
  BY <1>0, <1>1
<1> HIDE DEF n
<1> QED
  BY <1>1, <1>2

\* A monitor that fails has counted some of the new lines, in order.
LEMMA FailCounts ==
    ASSUME ServiceInv, LinesInv, NEW i \in Runs, monState[i] = i, i \notin faulted,
           MonitorFails(i)
    PROVE  OrderInv(i)' /\ \A m \in Runs \ {i} : recorded'[m] = recorded[m]
<1> DEFINE all == LinesBetween(pos[i], EndOfFile)
           new == IF mon[i] = "poll" THEN all ELSE <<>>
           old == recorded[i]
<1>0. TypeInv /\ TypeOK /\ (half => log # <<>>)
  BY DEF ServiceInv, TypeInv
<1>1. PICK n \in 0..Len(new) :
        recorded' = [recorded EXCEPT ![i] = old \o SubSeq(new, 1, n)]
  BY DEF MonitorFails
<1>2. EndOfFile \in Nat /\ pos[i] \in Nat /\ pos[i] <= EndOfFile
  <2>1. EndOfFile \in 0..(2 * MaxLines)
    BY <1>0, EndOfFileTyped
  <2>2. pos[i] \in 0..(2 * MaxLines) /\ pos[i] <= EndOfFile
    BY <1>0 DEF TypeInv, TypeOK
  <2> QED
    BY <2>1, <2>2, BoundsTyped
<1>3. /\ all \in Seq(Nat)
      /\ \A j \in DOMAIN all : pos[i] + 1 < 2 * all[j]
      /\ \A j, k \in DOMAIN all : j < k => all[j] < all[k]
  BY <1>2, LinesBetweenWhole
<1> HIDE DEF all
<1>4. /\ new \in Seq(Nat)
      /\ \A j \in DOMAIN new : pos[i] + 1 < 2 * new[j]
      /\ \A j, k \in DOMAIN new : j < k => new[j] < new[k]
  BY <1>3
<1>5. /\ old \in Seq(1..MaxLines) /\ recorded \in [Runs -> Seq(1..MaxLines)]
      /\ \A j \in DOMAIN old : 2 * old[j] <= pos[i]
      /\ \A j, k \in DOMAIN old : j < k => old[j] < old[k]
  BY <1>0 DEF TypeOK, LinesInv, CountedInv, OrderInv, PrefixInv
<1>6. old \in Seq(Nat)
  BY <1>5, LinesAreNumbers
<1> DEFINE part == SubSeq(new, 1, n)
<1>7. recorded'[i] = old \o part /\ \A m \in Runs \ {i} : recorded'[m] = recorded[m]
  BY <1>1, <1>5
<1> HIDE DEF new, old
<1>8. /\ part \in Seq(Nat) /\ DOMAIN part = 1..n /\ DOMAIN new = 1..Len(new)
      /\ \A j \in 1..n : part[j] = new[j] /\ j \in 1..Len(new)
  <2>1. /\ SubSeq(new, 1, n) \in Seq(Nat) /\ Len(SubSeq(new, 1, n)) = n
        /\ \A j \in 1..n : SubSeq(new, 1, n)[j] = new[j]
    BY <1>1, <1>4, PrefixTyped
  <2>2. n \in Nat /\ n <= Len(new) /\ Len(new) \in Nat
    BY <1>1, <1>4
  <2> QED
    BY <1>4, <2>1, <2>2
<1> HIDE DEF part
<1>9. /\ \A j \in DOMAIN part : pos[i] + 1 < 2 * part[j]
      /\ \A j, k \in DOMAIN part : j < k => part[j] < part[k]
  BY <1>4, <1>8
<1>10. \A j, k \in DOMAIN (old \o part) : j < k => (old \o part)[j] < (old \o part)[k]
  BY <1>2, <1>5, <1>6, <1>8, <1>9, ConcatOrdered DEF old
<1> QED
  BY <1>7, <1>10 DEF OrderInv

\* One reading: the object of monitor i has counted what lies before the end.
LEMMA ReadCounts ==
    ASSUME ServiceInv, LinesInv, NEW i \in Runs, monState[i] = i, i \notin faulted,
           ReadActionLog(i), UNCHANGED <<log, half, faulted>>
    PROVE  /\ \A m \in Runs : CountedInv(m)'
           /\ \A k \in 1..Len(log) : 2 * k <= pos'[i] \/ k \in torn'
           /\ \A m \in Runs \ {i} : pos'[m] = pos[m]
           /\ torn \subseteq torn'
<1>0. TypeInv /\ TypeOK /\ (half => log # <<>>)
  BY DEF ServiceInv, TypeInv
<1> DEFINE new == LinesBetween(pos[i], EndOfFile)
           old == recorded[i]
           eof == EndOfFile
<1>1. /\ eof \in Nat /\ pos[i] \in Nat /\ pos[i] <= eof /\ Len(log) \in Nat
      /\ eof = IF half THEN 2 * Len(log) - 1 ELSE 2 * Len(log)
  <2>1. /\ EndOfFile \in 0..(2 * MaxLines) /\ Len(log) \in Nat
        /\ EndOfFile = IF half THEN 2 * Len(log) - 1 ELSE 2 * Len(log)
    BY <1>0, EndOfFileTyped
  <2>2. pos[i] \in 0..(2 * MaxLines) /\ pos[i] <= EndOfFile
    BY <1>0 DEF TypeInv, TypeOK
  <2> QED
    BY <2>1, <2>2, BoundsTyped
<1>2. /\ new \in Seq(Nat)
      /\ \A j \in DOMAIN new : pos[i] + 1 < 2 * new[j] /\ 2 * new[j] <= eof
      /\ \A j, k \in DOMAIN new : j < k => new[j] < new[k]
      /\ \A x \in Nat : pos[i] + 1 < 2 * x /\ 2 * x <= eof =>
           \E j \in DOMAIN new : new[j] = x
  BY <1>1, LinesBetweenWhole
<1>3. /\ old \in Seq(Nat)
      /\ \A j \in DOMAIN old : 2 * old[j] <= pos[i]
      /\ \A j, k \in DOMAIN old : j < k => old[j] < old[k]
      /\ \A k \in 1..Len(log) :
           /\ 2 * k <= pos[i] => k \in torn \/ \E j \in DOMAIN old : old[j] = k
           /\ 2 * k - 1 = pos[i] => k \in torn
  <2>1. CountedInv(i)
    BY DEF LinesInv
  <2>2. old \in Seq(1..MaxLines)
    BY <1>0 DEF TypeOK
  <2>3. old \in Seq(Nat)
    BY <2>2, LinesAreNumbers
  <2> QED
    BY <2>1, <2>3 DEF CountedInv, OrderInv, PrefixInv
<1>4. /\ recorded' = [recorded EXCEPT ![i] = old \o new]
      /\ pos' = [pos EXCEPT ![i] = eof]
      /\ torn' = IF half THEN torn \cup {Len(log)} ELSE torn
      /\ recorded \in [Runs -> Seq(1..MaxLines)] /\ pos \in [Runs -> 0..(2 * MaxLines)]
  BY <1>0 DEF ReadActionLog, TypeOK
<1>5. /\ recorded'[i] = old \o new /\ pos'[i] = eof
      /\ \A m \in Runs \ {i} : recorded'[m] = recorded[m] /\ pos'[m] = pos[m]
  BY <1>4
<1>6. torn \subseteq torn' /\ (half => Len(log) \in torn')
  BY <1>4
<1>7. \A k \in 1..Len(log) :
        /\ 2 * k <= eof \/ k \in torn'
        /\ 2 * k - 1 = eof => k \in torn'
  <2> SUFFICES ASSUME NEW k \in 1..Len(log)
               PROVE  /\ 2 * k <= eof \/ (k = Len(log) /\ half)
                      /\ 2 * k - 1 = eof => k = Len(log) /\ half
    BY <1>6
  <2> HIDE DEF eof
  <2> QED
    BY <1>1
<1> HIDE DEF new, old, eof
\* The old lines come first, then the new ones, all of which are later.
<1> DEFINE s == old \o new
<1>8. /\ DOMAIN s = 1..(Len(old) + Len(new))
      /\ DOMAIN old = 1..Len(old) /\ DOMAIN new = 1..Len(new)
      /\ Len(old) \in Nat /\ Len(new) \in Nat
      /\ \A j \in 1..Len(old) : s[j] = old[j] /\ old[j] \in Nat
      /\ \A j \in 1..Len(new) : s[Len(old) + j] = new[j] /\ new[j] \in Nat
  BY <1>2, <1>3
<1>9. \A j \in DOMAIN s :
        \/ j \in DOMAIN old /\ s[j] = old[j]
        \/ j - Len(old) \in DOMAIN new /\ s[j] = new[j - Len(old)]
           /\ j > Len(old)
  <2> SUFFICES ASSUME NEW j \in 1..(Len(old) + Len(new)), j > Len(old)
               PROVE  /\ j - Len(old) \in 1..Len(new)
                      /\ s[j] = new[j - Len(old)]
    BY <1>8
  <2>1. j - Len(old) \in 1..Len(new) /\ Len(old) + (j - Len(old)) = j
    BY <1>8
  <2> QED
    BY <1>8, <2>1
<1> HIDE DEF s
<1>10. \A j \in DOMAIN s : 2 * s[j] <= eof
  <2> TAKE j \in DOMAIN s
  <2>1. CASE j \in DOMAIN old /\ s[j] = old[j]
    <3>1. j \in 1..Len(old) /\ s[j] \in Nat
      BY <1>8, <2>1
    <3>2. 2 * old[j] <= pos[i]
      BY <1>3, <3>1
    <3> QED
      BY <1>1, <2>1, <3>1, <3>2
  <2>2. CASE j - Len(old) \in DOMAIN new /\ s[j] = new[j - Len(old)]
    BY <1>2, <2>2
  <2> QED
    BY <1>9, <2>1, <2>2
<1>11. \A j, k \in DOMAIN s : j < k => s[j] < s[k]
  BY <1>1, <1>2, <1>3, ConcatOrdered DEF s
<1>12. ASSUME NEW k \in 1..Len(log), 2 * k <= eof
       PROVE  k \in torn' \/ \E j \in DOMAIN s : s[j] = k
  <2>1. CASE 2 * k <= pos[i]
    <3>1. k \in torn \/ \E j \in DOMAIN old : old[j] = k
      BY <1>3, <2>1
    <3>2. ASSUME NEW j \in DOMAIN old, old[j] = k PROVE j \in DOMAIN s /\ s[j] = k
      BY <1>8, <3>2
    <3> QED
      BY <1>6, <3>1, <3>2
  <2>2. CASE 2 * k - 1 = pos[i]
    BY <1>3, <1>6, <2>2
  <2>3. CASE pos[i] + 1 < 2 * k
    <3>1. PICK j \in DOMAIN new : new[j] = k
      BY <1>1, <1>2, <1>12, <2>3
    <3>2. Len(old) + j \in DOMAIN s /\ s[Len(old) + j] = k
      BY <1>8, <3>1 DEF s
    <3> QED
      BY <3>2
  <2> QED
    BY <1>1, <2>1, <2>2, <2>3
<1>13. CountedInv(i)'
  BY <1>5, <1>7, <1>10, <1>11, <1>12 DEF CountedInv, OrderInv, PrefixInv, s
<1>14. ASSUME NEW m \in Runs \ {i} PROVE CountedInv(m)'
  <2>1. CountedInv(m)
    BY DEF LinesInv
  <2> QED
    BY <1>5, <1>6, <2>1 DEF CountedInv, OrderInv, PrefixInv
<1> QED
  BY <1>5, <1>6, <1>7, <1>13, <1>14

\* A step that reads nothing and writes no line.
LEMMA LinesStand ==
    ASSUME LinesInv, UNCHANGED <<tail_vars, log, faulted>>,
           \A i \in Runs : mon'[i] \in {"pop", "done"} => mon[i] \in {"pop", "done"}
    PROVE  LinesInv'
BY DEF LinesInv, CountedInv, OrderInv, PrefixInv, ReadInv, tail_vars

\* No step counts a line twice or leaves one out.
LEMMA LinesStep == ServiceInv /\ LinesInv /\ [Next]_vars => LinesInv'
<1> SUFFICES ASSUME ServiceInv, LinesInv, [Next]_vars PROVE LinesInv'
  OBVIOUS
<1>0. TypeInv /\ TypeOK
  BY DEF ServiceInv, TypeInv
<1> USE DEF mon_vars, world_vars
<1>1. CASE \/ UNCHANGED vars
           \/ PrepareBegins \/ PrepareOpensConfig \/ PrepareDumpsConfig \/ PrepareEnds
           \/ StartBegins \/ Spawn \/ SpawnFails \/ Register \/ SaveRunning
           \/ StopBegins \/ Terminate \/ Kill \/ StopEnds
  <2>1. UNCHANGED <<tail_vars, log, faulted>> /\ mon' = mon
    BY <1>1 DEF vars, PrepareBegins, PrepareOpensConfig, PrepareDumpsConfig,
       PrepareEnds, StartBegins, Spawn, SpawnFails, Register, SaveRunning, StopBegins,
       Terminate, Kill, StopEnds
  <2> QED
    BY <2>1, LinesStand
<1>2. CASE StartMonitor
  <2>1. UNCHANGED <<tail_vars, log, faulted>> /\ mon' = [mon EXCEPT ![call.run] = "begin"]
    BY <1>2 DEF StartMonitor
  <2> QED
    BY <1>0, <2>1, LinesStand DEF TypeOK
<1>3. CASE Crash
  <2>1. UNCHANGED <<tail_vars, log, faulted>> /\ mon' = [i \in Runs |-> "none"]
    BY <1>3 DEF Crash
  <2> QED
    BY <2>1, LinesStand
<1>4. ASSUME NEW i \in Runs, Monitor(i) PROVE LinesInv'
  <2>1. mon[i] \in Watching
    BY <1>4 DEF Monitor, MonitorBegins, MonitorPolls, MonitorSaves, MonitorFinishes,
       MonitorFails, MonitorPops, Watching
  <2>2. procs = i /\ (mon[i] # "begin" => monState[i] = i)
        /\ (mon[i] # "pop" => i \notin faulted)
    BY <2>1 DEF ServiceInv, WatchInv
  <2>3. CASE MonitorBegins(i) \/ MonitorSaves(i)
    <3>1. UNCHANGED <<tail_vars, log, faulted>> /\ (mon' = [mon EXCEPT ![i] = "poll"])
      BY <1>0, <2>2, <2>3, BoundsTyped DEF MonitorBegins, MonitorSaves
    <3> QED
      BY <1>0, <3>1, LinesStand DEF TypeOK
  <2>4. CASE MonitorPops(i)
    <3>1. UNCHANGED <<tail_vars, log, faulted>> /\ mon' = [mon EXCEPT ![i] = "done"]
          /\ mon[i] = "pop"
      BY <2>4 DEF MonitorPops
    <3> QED
      BY <1>0, <3>1, LinesStand DEF TypeOK
  <2>5. CASE MonitorPolls(i) \/ MonitorFinishes(i)
    <3>1. /\ mon[i] = "poll" /\ ReadActionLog(i) /\ UNCHANGED <<log, half, faulted>>
          /\ mon' = [mon EXCEPT ![i] = mon'[i]]
      BY <1>0, <2>5 DEF MonitorPolls, MonitorFinishes, TypeOK
    <3>2. /\ \A m \in Runs : CountedInv(m)'
          /\ \A k \in 1..Len(log) : 2 * k <= pos'[i] \/ k \in torn'
          /\ \A m \in Runs \ {i} : pos'[m] = pos[m]
          /\ torn \subseteq torn'
      BY <2>2, <3>1, ReadCounts
    <3>3. \A m \in Runs \ {i} : mon'[m] = mon[m]
      BY <1>0, <3>1 DEF TypeOK
    <3>4. ReadInv(i)'
      BY <3>1, <3>2 DEF ReadInv
    <3>5. ASSUME NEW m \in Runs \ {i} PROVE ReadInv(m)'
      BY <3>1, <3>2, <3>3 DEF ReadInv, LinesInv
    <3> QED
      BY <3>2, <3>4, <3>5 DEF LinesInv
  <2>6. CASE MonitorFails(i)
    <3>1. /\ mon[i] \in {"poll", "save"} /\ faulted' = faulted \cup {i}
          /\ mon' = [mon EXCEPT ![i] = "pop"] /\ UNCHANGED <<log, pos, torn>>
      BY <2>6 DEF MonitorFails
    <3>2. OrderInv(i)' /\ \A m \in Runs \ {i} : recorded'[m] = recorded[m]
      BY <2>2, <2>6, <3>1, FailCounts
    <3>3. \A m \in Runs \ {i} : mon'[m] = mon[m]
      BY <1>0, <3>1 DEF TypeOK
    <3>4. CountedInv(i)' /\ ReadInv(i)'
      BY <3>1, <3>2 DEF CountedInv, ReadInv
    <3>5. ASSUME NEW m \in Runs \ {i} PROVE CountedInv(m)' /\ ReadInv(m)'
      <4>1. CountedInv(m) /\ ReadInv(m) /\ (m \in faulted' <=> m \in faulted)
        BY <3>1 DEF LinesInv
      <4> QED
        BY <3>1, <3>2, <3>3, <4>1 DEF CountedInv, OrderInv, PrefixInv, ReadInv
    <3> QED
      BY <3>4, <3>5 DEF LinesInv
  <2> QED
    BY <1>4, <2>3, <2>4, <2>5, <2>6 DEF Monitor
<1>5. ASSUME NEW i \in Runs, WriteRest(i) \/ ProcessExits(i) PROVE LinesInv'
  <2>1. UNCHANGED <<tail_vars, log, faulted>> /\ mon' = mon
    BY <1>5 DEF WriteRest, ProcessExits
  <2> QED
    BY <2>1, LinesStand
\* A new line is beyond every position, and its writer's monitor is not
\* through.
<1>6. ASSUME NEW i \in Runs, WriteLine(i) PROVE LinesInv'
  <2>1. /\ log \in Seq(Runs) /\ log' = Append(log, i) /\ ~half /\ i \in alive
        /\ UNCHANGED <<tail_vars, mon, faulted>>
    BY <1>0, <1>6 DEF WriteLine, TypeOK
  <2>2. /\ Len(log) \in Nat /\ Len(log') = Len(log) + 1
        /\ log'[Len(log) + 1] = i
        /\ \A k \in 1..Len(log) : log'[k] = log[k]
    BY <2>1
  <2>3. \A m \in Runs : pos[m] \in Nat /\ pos[m] <= 2 * Len(log)
    <3>1. EndOfFile = 2 * Len(log)
      BY <1>0, <2>1, EndOfFileTyped DEF TypeInv
    <3> QED
      BY <1>0, <3>1, BoundsTyped DEF TypeInv, TypeOK
  <2>4. \A k \in 1..Len(log') : k \in 1..Len(log) \/ k = Len(log) + 1
    BY <2>2
  <2>5. ASSUME NEW m \in Runs PROVE CountedInv(m)' /\ ReadInv(m)'
    <3>1. CountedInv(m) /\ ReadInv(m) /\ recorded'[m] = recorded[m]
          /\ pos'[m] = pos[m] /\ torn' = torn /\ mon' = mon /\ faulted' = faulted
      BY <2>1 DEF LinesInv, tail_vars
    <3>2. ~(2 * (Len(log) + 1) <= pos[m]) /\ 2 * (Len(log) + 1) - 1 # pos[m]
      BY <2>2, <2>3
    <3>3. CountedInv(m)'
      BY <2>4, <3>1, <3>2 DEF CountedInv, OrderInv, PrefixInv
    <3>4. mon[m] \in {"pop", "done"} /\ m \notin faulted => m # i
      BY <2>1 DEF ServiceInv, ExitInv
    <3>5. ReadInv(m)'
      BY <2>2, <2>4, <3>1, <3>4 DEF ReadInv
    <3> QED
      BY <3>3, <3>5
  <2> QED
    BY <2>5 DEF LinesInv
<1> QED
  BY <1>1, <1>2, <1>3, <1>4, <1>5, <1>6 DEF Next, Continue

\* Before the first request nothing was counted.
LEMMA LinesInit == Init => LinesInv
<1> SUFFICES ASSUME Init, NEW i \in Runs PROVE CountedInv(i) /\ ReadInv(i)
  BY DEF LinesInv
<1>1. log = <<>> /\ recorded[i] = <<>> /\ mon[i] = "none"
  BY DEF Init
<1>2. 1..Len(log) = {} /\ DOMAIN recorded[i] = {}
  BY <1>1
<1> QED
  BY <1>1, <1>2 DEF CountedInv, OrderInv, PrefixInv, ReadInv

\* If callers are patient, no object ever counts a line of actions.jsonl twice
\* or out of order, over all its polls and across runs that append to the same
\* file, whether or not its monitor fails; and when a monitor that did not fail
\* is through, its object has every line its process wrote, but for those that a
\* poll cut in two.
THEOREM EveryLineOnce == Patient => (Spec => []LinesAreCountedOnce)
<1> SUFFICES ASSUME Patient PROVE Spec => []LinesAreCountedOnce
  OBVIOUS
<1>1. ServiceInv /\ LinesInv => LinesAreCountedOnce
  <2> SUFFICES ASSUME ServiceInv, LinesInv, NEW i \in Runs
               PROVE  /\ \A j, k \in DOMAIN recorded[i] :
                           j < k => recorded[i][j] < recorded[i][k]
                      /\ mon[i] \in {"pop", "done"} /\ i \notin faulted =>
                           \A k \in DOMAIN log :
                             log[k] = i => k \in torn \cup Range(recorded[i])
    BY DEF LinesAreCountedOnce
  <2>1. CountedInv(i) /\ ReadInv(i) /\ DOMAIN log = 1..Len(log)
    BY DEF LinesInv, ServiceInv, TypeInv, TypeOK
  <2> QED
    BY <2>1 DEF CountedInv, OrderInv, PrefixInv, ReadInv, Range
<1>2. Spec => []ServiceInv
  BY ServiceAlways
<1> QED
  BY <1>1, <1>2, LinesInit, LinesStep, PTL DEF Spec
=============================================================================
