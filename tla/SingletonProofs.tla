--------------------------- MODULE SingletonProofs ---------------------------
(***************************************************************************)
(* Proofs about Singleton.tla, for any number of CLI processes, daemons    *)
(* and projects, and a crash of a daemon at any step: a project has one    *)
(* daemon, runtime state is wiped only when it has none, a run leaves no   *)
(* daemon behind, and a serving daemon has segments of its own.            *)
(***************************************************************************)
EXTENDS Singleton, FiniteSetTheorems, TLAPS

DaemonStep ==
  {"new", "spawned", "opened", "locked", "truncated", "unlink_c", "unlink_d", "starting",
   "serving", "refused", "dead"}
CliStep ==
  {"idle", "probe", "probe_lock", "probe_drop", "probe_pid", "kill", "poll", "wipe_lock",
   "wipe_c", "wipe_d", "spawn", "ready", "testbench", "stop", "done"}
Opened == {d \in Cli : dpc[d] \notin {"new", "spawned"}}

\* Every inode was made by a daemon that opened its lockfile, so that the
\* bound on the inodes is never met.
Types ==
  /\ inodes \in Nat /\ inodes <= Cardinality(Opened)
  /\ lockfile \in [Project -> 0 .. inodes]
  /\ excl \in [Inode -> Cli \cup {Nobody}] /\ pid \in [Inode -> Cli \cup {Nobody}]
  /\ names \in [Name -> Nat] /\ segments \in Seq(Cli)
  /\ dpc \in [Cli -> DaemonStep] /\ dfd \in [Cli -> 0 .. inodes]
  /\ mapped \in [Cli -> [Name -> Nat]]
  /\ pc \in [Cli -> CliStep] /\ cmd \in [Cli -> {"info", "run", "serve", "kill", "clean"}]
  /\ stage \in [Cli -> {"first", "poll", "ready"}]
  /\ fd \in [Cli -> 0 .. inodes] /\ target \in [Cli -> Cli \cup {Nobody}]
  /\ \A k \in Cli : pc[k] \in {"probe_lock", "probe_drop", "probe_pid"} => fd[k] # 0
  /\ \A d \in Live : dpc[d] # "spawned" => dfd[d] # 0

\* Which command is where, and a process spawns at most one daemon, which it
\* has stopped when it is a run and has ended.
Launches ==
  \A k \in Cli :
    /\ pc[k] = "idle" => cmd[k] = "info" /\ stage[k] = "first"
    /\ stage[k] = "ready" /\ pc[k] # "done" => cmd[k] = "run"
    /\ pc[k] \in {"kill", "poll", "wipe_lock", "wipe_c", "wipe_d"} => cmd[k] \in {"kill", "clean"}
    /\ pc[k] \in {"ready", "testbench", "stop"} => cmd[k] = "run"
    /\ pc[k] = "spawn" => cmd[k] \in {"run", "serve"} /\ stage[k] # "ready"
    /\ cmd[k] \in {"kill", "clean"} => stage[k] # "ready"
    /\ stage[k] # "ready" => dpc[k] = "new"
    /\ cmd[k] = "run" /\ pc[k] = "done" => k \notin Live

\* A daemon past flock holds the lock of its descriptor, and has its PID in
\* the file once it is written.
Holding ==
  /\ \A d \in Holders : excl[dfd[d]] = d
  /\ \A d \in Holders : dpc[d] \notin {"locked", "truncated"} => pid[dfd[d]] = d

\* The descriptor is that of the file which others find.
Linked == \A d \in Live : dpc[d] # "spawned" => dfd[d] = lockfile[ProjectOf[d]]

Removing(k) == cmd[k] \in {"kill", "clean"} /\ pc[k] # "done"
DownFor(k) == \A d \in Live : ProjectOf[d] # ProjectOf[k]

\* While kill or clean is at work no daemon is starting.  What it saw of its
\* project's daemon stays true until it has wiped the state.
Sees(k) ==
  /\ \A d \in Live : dpc[d] = "serving"
  /\ \A j \in Cli \ {k} : pc[j] \in {"idle", "testbench", "stop", "done"}
  /\ pc[k] \in {"probe_lock", "probe_pid"} => fd[k] = lockfile[ProjectOf[k]]
  /\ pc[k] = "kill" => \A d \in Live : ProjectOf[d] = ProjectOf[k] => d = target[k]
  /\ pc[k] \in {"probe_drop", "poll", "wipe_lock", "wipe_c", "wipe_d"} \/ stage[k] = "poll" => DownFor(k)

Removes == \A k \in Cli : Removing(k) => Sees(k)

\* With one project: what the daemon has opened is its own and is what the
\* names say; the other names are free.
Segments ==
  \A d \in Cli :
    /\ dpc[d] \in {"new", "spawned", "opened", "locked", "truncated", "unlink_c", "unlink_d"} =>
         \A n \in Name : mapped[d][n] = 0
    /\ dpc[d] = "unlink_d" => names["c"] = 0
    /\ dpc[d] \in {"starting", "serving"} => \A n \in Name : names[n] = mapped[d][n]
    /\ d \in Live => \A n \in Name : mapped[d][n] # 0 =>
         mapped[d][n] \in 1 .. Len(segments) /\ segments[mapped[d][n]] = d
    /\ dpc[d] = "serving" => \A n \in Name : mapped[d][n] # 0

Base == Types /\ Launches /\ Holding

USE DEF locks, files, shm, daemons, clis

-----------------------------------------------------------------------------
(* The bound on the inodes *)

LEMMA OpenedFinite == IsFiniteSet(Opened) /\ Cardinality(Opened) \in Nat
BY SingletonAssumption, FS_Subset, FS_CardinalityType, Zenon DEF SingletonAssumption, Opened

\* A descriptor is that of an inode.
LEMMA InodeOf ==
  ASSUME Types, NEW i \in 1 .. inodes
  PROVE  i \in Inode
<1>1. Opened \subseteq Cli /\ IsFiniteSet(Cli)
  BY SingletonAssumption, Zenon DEF SingletonAssumption, Opened
<1>2. Cardinality(Opened) <= Cardinality(Cli) /\ Cardinality(Cli) \in Nat
  BY <1>1, FS_Subset, FS_CardinalityType, Zenon
<1> QED  BY <1>2, OpenedFinite DEF Types, Inode

LEMMA OpenedGrows ==
  ASSUME Types, Opened \subseteq Opened'
  PROVE  inodes <= Cardinality(Opened') /\ Cardinality(Opened') \in Nat
<1>1. IsFiniteSet(Opened')
  BY SingletonAssumption, FS_Subset, Zenon DEF SingletonAssumption, Opened
<1>2. Cardinality(Opened) <= Cardinality(Opened') /\ Cardinality(Opened') \in Nat
  BY <1>1, FS_Subset, FS_CardinalityType, Zenon
<1> QED  BY <1>2, OpenedFinite DEF Types

LEMMA OpenedOneMore ==
  ASSUME Types, NEW d \in Cli, d \notin Opened, Opened' = Opened \cup {d}
  PROVE  inodes + 1 <= Cardinality(Opened')
<1>1. Cardinality(Opened \cup {d}) = Cardinality(Opened) + 1
  BY OpenedFinite, FS_AddElement, Zenon
<1> QED  BY <1>1, OpenedFinite DEF Types

-----------------------------------------------------------------------------
(* Types *)

LEMMA DaemonTypes ==
  ASSUME Types, NEW d \in Cli, DaemonNext(d)
  PROVE  Types'
<1>1. CASE Open(d)
  <2>1. /\ dpc[d] = "spawned" /\ dpc' = [dpc EXCEPT ![d] = "opened"]
        /\ UNCHANGED << locks, shm, mapped, clis >>
    BY <1>1, Zenon DEF Open, DaemonGoto
  <2>2. d \notin Opened /\ Opened' = Opened \cup {d}  BY <2>1, Zenon DEF Types, Opened
  <2>3. inodes' \in {inodes, inodes + 1} /\ inodes' <= Cardinality(Opened')
    BY <1>1, <2>2, OpenedGrows, OpenedOneMore, Zenon DEF Open, Types
  <2>4. lockfile' \in [Project -> 0 .. inodes'] /\ dfd' \in [Cli -> 0 .. inodes'] /\ dfd'[d] # 0
    <3>1. ProjectOf[d] \in Project  BY SingletonAssumption, Zenon DEF SingletonAssumption
    <3>2. lockfile[ProjectOf[d]] \in 0 .. inodes /\ inodes \in Nat  BY <3>1, Zenon DEF Types
    <3>3. CASE lockfile[ProjectOf[d]] # 0
      BY <1>1, <3>2, <3>3, Zenon DEF Open, Types
    <3>4. CASE lockfile[ProjectOf[d]] = 0
      <4>1. /\ inodes' = inodes + 1
            /\ lockfile' = [lockfile EXCEPT ![ProjectOf[d]] = inodes + 1]
            /\ dfd' = [dfd EXCEPT ![d] = inodes + 1]
        BY <1>1, <3>4, Zenon DEF Open
      <4>2. \A i \in 0 .. inodes : i \in 0 .. inodes'  BY <3>2, <4>1
      <4>3. inodes + 1 \in 0 .. inodes' /\ inodes + 1 # 0  BY <3>2, <4>1
      <4> QED  BY <3>1, <4>1, <4>2, <4>3, Zenon DEF Types
    <3> QED  BY <3>3, <3>4, Zenon
  <2>5. \A e \in Live' : dpc'[e] # "spawned" => dfd'[e] # 0
    BY <1>1, <2>1, <2>4, Zenon DEF Types, Live, Open
  <2>6. fd' \in [Cli -> 0 .. inodes']
    <3>1. \A i \in 0 .. inodes : i \in 0 .. inodes'  BY <2>3 DEF Types
    <3> QED  BY <2>1, <3>1, Zenon DEF Types
  <2>7. inodes' \in Nat /\ dpc' \in [Cli -> DaemonStep]  BY <2>1, <2>3 DEF Types, DaemonStep
  <2> QED  BY <2>1, <2>3, <2>4, <2>5, <2>6, <2>7, Zenon DEF Types
<1>2. CASE ~ Open(d)
  <2>1. /\ UNCHANGED << lockfile, inodes, dfd, clis >>
        /\ dpc[d] \notin {"new", "spawned", "refused", "dead"}
        /\ \E to \in DaemonStep \ {"new", "spawned"} : dpc' = [dpc EXCEPT ![d] = to]
    BY <1>2 DEF DaemonNext, Flock, Truncate, WritePid, ShmUnlink, ShmOpen, Serve, DaemonGoto, DaemonStep, Types
  <2>2. Opened' = Opened  BY <2>1, Zenon DEF Types, Opened
  <2>3. dfd[d] \in Inode  BY <2>1, InodeOf DEF Types, Live
  <2>4. excl' \in [Inode -> Cli \cup {Nobody}] /\ pid' \in [Inode -> Cli \cup {Nobody}]
    BY <1>2, <2>3, Zenon DEF DaemonNext, Flock, Truncate, WritePid, ShmUnlink, ShmOpen, Serve, Types
  <2>5. /\ names' \in [Name -> Nat] /\ segments' \in Seq(Cli)
        /\ mapped' \in [Cli -> [Name -> Nat]]
    <3>1. CASE \E n \in Name : ShmOpen(d, n)
      <4>1. PICK n \in Name : ShmOpen(d, n)  BY <3>1, Zenon
      <4>2. /\ names \in [Name -> Nat] /\ segments \in Seq(Cli) /\ Len(Append(segments, d)) \in Nat
            /\ mapped \in [Cli -> [Name -> Nat]]
        BY DEF Types
      <4>3. CASE names[n] # 0
        <5>1. UNCHANGED shm /\ mapped' = [mapped EXCEPT ![d][n] = names[n]]
          BY <4>1, <4>3, Zenon DEF ShmOpen
        <5> QED  BY <4>2, <5>1, Zenon
      <4>4. CASE names[n] = 0
        <5>1. /\ segments' = Append(segments, d)
              /\ names' = [names EXCEPT ![n] = Len(Append(segments, d))]
              /\ mapped' = [mapped EXCEPT ![d][n] = Len(Append(segments, d))]
          BY <4>1, <4>4, Zenon DEF ShmOpen
        <5> QED  BY <4>2, <5>1
      <4> QED  BY <4>3, <4>4, Zenon
    <3>2. CASE ShmUnlink(d)
      BY <3>2 DEF ShmUnlink, Types, Name
    <3> QED  BY <1>2, <3>1, <3>2, Zenon DEF DaemonNext, Flock, Truncate, WritePid, Serve, Types
  <2>6. \A e \in Live' : dpc'[e] # "spawned" => dfd'[e] # 0
    BY <2>1, Zenon DEF Types, Live
  <2> QED  BY <2>1, <2>2, <2>4, <2>5, <2>6 DEF Types
<1> QED  BY <1>1, <1>2, Zenon

\* A process ends.
LEMMA DieTypes ==
  ASSUME Types, NEW d \in Live, Die(d)
  PROVE  /\ dpc' \in [Cli -> DaemonStep] /\ excl' \in [Inode -> Cli \cup {Nobody}]
         /\ inodes <= Cardinality(Opened')
         /\ Live' = Live \ {d} /\ \A e \in Cli : e # d => dpc'[e] = dpc[e]
<1>1. dpc' = [dpc EXCEPT ![d] = "dead"] /\ d \in Cli  BY Zenon DEF Die, Live
<1>2. Opened \subseteq Opened'  BY <1>1, Zenon DEF Types, Opened
<1> QED  BY <1>1, <1>2, OpenedGrows DEF Types, Live, Die, DaemonStep

LEMMA CliTypes ==
  ASSUME Types, Launches, NEW k \in Cli, Command(k)
  PROVE  Types'
<1> USE DEF CliGoto
<1>1. CASE Kill(k) \/ Stop(k)
  <2>1. /\ UNCHANGED << lockfile, inodes, shared, pid, shm, dfd, mapped, cmd, fd, target >>
        /\ \E to \in {"poll", "wipe_lock", "done"} : pc' = [pc EXCEPT ![k] = to]
        /\ stage' \in {stage, [stage EXCEPT ![k] = "poll"]}
        /\ UNCHANGED << dpc, excl >> \/ \E d \in Live : Die(d)
    BY <1>1, Zenon DEF Kill, Stop
  <2>2. /\ pc' \in [Cli -> CliStep] /\ stage' \in [Cli -> {"first", "poll", "ready"}]
        /\ \A j \in Cli : pc'[j] \in {"probe_lock", "probe_drop", "probe_pid"} => fd[j] # 0
    <3>1. PICK to \in {"poll", "wipe_lock", "done"} : pc' = [pc EXCEPT ![k] = to]  BY <2>1, Zenon
    <3>2. stage' \in [Cli -> {"first", "poll", "ready"}]  BY <2>1, Zenon DEF Types
    <3> QED  BY <3>1, <3>2, Zenon DEF Types, CliStep
  <2>3. CASE UNCHANGED << dpc, excl >>
    <3>1. Opened' = Opened /\ Live' = Live  BY <2>3, Zenon DEF Opened, Live
    <3> QED  BY <2>1, <2>2, <2>3, <3>1, Zenon DEF Types
  <2>4. ASSUME NEW d \in Live, Die(d)  PROVE Types'
    <3>1. /\ dpc' \in [Cli -> DaemonStep] /\ excl' \in [Inode -> Cli \cup {Nobody}]
          /\ inodes <= Cardinality(Opened')
          /\ Live' = Live \ {d} /\ \A e \in Cli : e # d => dpc'[e] = dpc[e]
      BY <2>4, DieTypes, Zenon
    <3>2. \A e \in Live' : dpc'[e] # "spawned" => dfd[e] # 0  BY <3>1, Zenon DEF Types, Live
    <3> QED  BY <2>1, <2>2, <3>1, <3>2, Zenon DEF Types
  <2> QED  BY <2>1, <2>3, <2>4, Zenon
<1>2. CASE Spawn(k)
  <2>1. /\ UNCHANGED << files, shm, dfd, mapped, cmd, fd, target >>
        /\ dpc' = [dpc EXCEPT ![k] = "spawned"] /\ stage' = [stage EXCEPT ![k] = "ready"]
        /\ pc[k] = "spawn" /\ \E to \in {"ready", "done"} : pc' = [pc EXCEPT ![k] = to]
    BY <1>2, Zenon DEF Spawn
  <2>2. dpc[k] = "new"  BY <2>1, Zenon DEF Launches
  <2>3. Opened' = Opened  BY <2>1, <2>2, Zenon DEF Types, Opened
  <2>4. /\ pc' \in [Cli -> CliStep] /\ stage' \in [Cli -> {"first", "poll", "ready"}]
        /\ \A j \in Cli : pc'[j] \in {"probe_lock", "probe_drop", "probe_pid"} => fd[j] # 0
    BY <2>1 DEF Types, CliStep
  <2>5. dpc' \in [Cli -> DaemonStep] /\ \A e \in Live' : dpc'[e] # "spawned" => dfd[e] # 0
    BY <2>1, Zenon DEF Types, Live, DaemonStep
  <2> QED  BY <2>1, <2>3, <2>4, <2>5, Zenon DEF Types
<1>3. CASE ~(Kill(k) \/ Stop(k) \/ Spawn(k))
  <2>1. Opened' = Opened /\ Live' = Live /\ UNCHANGED << inodes, excl, pid, segments, daemons, cmd, stage >>
    BY <1>3, Zenon DEF Command, ProbeOpen, ProbeLock, ProbeDrop, ProbePid, Poll, WipeLock, WipeShm, Ready, Testbench, Opened, Live
  <2>2. /\ ProjectOf[k] \in Project /\ inodes \in Nat
    BY SingletonAssumption, Zenon DEF SingletonAssumption, Types
  <2>3. lockfile' \in [Project -> 0 .. inodes] /\ names' \in [Name -> Nat]
    <3>1. CASE WipeLock(k)  BY <2>2, <3>1 DEF WipeLock, Types
    <3>2. CASE WipeShm(k)  BY <3>2 DEF WipeShm, Types, Name
    <3>3. CASE ~(WipeLock(k) \/ WipeShm(k))
      <4>1. UNCHANGED << lockfile, names >>
        BY <1>3, <3>3, Zenon DEF Command, ProbeOpen, ProbeLock, ProbeDrop, ProbePid, Poll, Ready, Testbench
      <4> QED  BY <4>1, Zenon DEF Types
    <3> QED  BY <3>1, <3>2, <3>3, Zenon
  <2>4. /\ pc' \in [Cli -> CliStep] /\ fd' \in [Cli -> 0 .. inodes]
        /\ target' \in [Cli -> Cli \cup {Nobody}]
        /\ \A j \in Cli : pc'[j] \in {"probe_lock", "probe_drop", "probe_pid"} => fd'[j] # 0
    <3>1. CASE ProbeOpen(k)
      <4>1. lockfile[ProjectOf[k]] \in 0 .. inodes  BY <2>2, Zenon DEF Types
      <4>2. WhenDown(k) \in CliStep \ {"probe_lock", "probe_drop", "probe_pid"}
        BY Zenon DEF WhenDown, CliStep
      <4> QED  BY <3>1, <4>1, <4>2, Zenon DEF ProbeOpen, Types, CliStep
    <3>2. CASE ProbeLock(k)
      BY <3>2, Zenon DEF ProbeLock, Types, CliStep
    <3>3. CASE ProbeDrop(k)
      <4>1. WhenDown(k) \in CliStep \ {"probe_lock", "probe_drop", "probe_pid"}
        BY Zenon DEF WhenDown, CliStep
      <4> QED  BY <3>3, <4>1, Zenon DEF ProbeDrop, Types
    <3>4. CASE ProbePid(k)
      <4>1. \A q : WhenUp(k, q) \in CliStep \ {"probe_lock", "probe_drop", "probe_pid"}
        BY Zenon DEF WhenUp, CliStep
      <4>2. fd[k] \in Inode  BY <3>4, InodeOf, SMTT(20) DEF ProbePid, Types
      <4> QED  BY <3>4, <4>1, <4>2, Zenon DEF ProbePid, Types
    <3>5. CASE Poll(k) \/ WipeLock(k) \/ WipeShm(k) \/ Ready(k) \/ Testbench(k)
      <4>1. /\ UNCHANGED << fd, target >>
            /\ \E to \in CliStep \ {"probe_lock", "probe_drop", "probe_pid"} : pc' = [pc EXCEPT ![k] = to]
        BY <3>5, Zenon DEF Poll, WipeLock, WipeShm, Ready, Testbench, CliStep
      <4> QED  BY <4>1 DEF Types
    <3> QED  BY <1>3, <3>1, <3>2, <3>3, <3>4, <3>5, Zenon DEF Command
  <2> QED  BY <2>1, <2>3, <2>4, Zenon DEF Types
<1> QED  BY <1>1, <1>2, <1>3, Zenon

-----------------------------------------------------------------------------
(* Launches and the lock *)

\* What a daemon's own step does to its place.
LEMMA DaemonMoves ==
  ASSUME Types, NEW d \in Cli, DaemonNext(d)
  PROVE  /\ UNCHANGED clis /\ d \in Live /\ dpc[d] # "serving"
         /\ \E to \in DaemonStep \ {"new", "spawned", "dead"} : dpc' = [dpc EXCEPT ![d] = to]
         /\ \A e \in Cli : e # d => dpc'[e] = dpc[e] /\ (e \in Live' <=> e \in Live)
<1>1. /\ UNCHANGED clis /\ dpc[d] \in {"spawned", "opened", "locked", "truncated", "unlink_c", "unlink_d", "starting"}
      /\ \E to \in DaemonStep \ {"new", "spawned", "dead"} : dpc' = [dpc EXCEPT ![d] = to]
  BY DEF DaemonNext, Open, Flock, Truncate, WritePid, ShmUnlink, ShmOpen, Serve, DaemonGoto, DaemonStep, Types
<1> QED  BY <1>1, Zenon DEF Types, Live

LEMMA DaemonLaunches ==
  ASSUME Types, Launches, NEW d \in Cli, DaemonNext(d)
  PROVE  Launches'
<1>1. /\ UNCHANGED clis /\ d \in Live
      /\ \A e \in Cli : e # d => dpc'[e] = dpc[e] /\ (e \in Live' <=> e \in Live)
  BY DaemonMoves, Zenon
<1>2. dpc[d] # "new"  BY <1>1, Zenon DEF Live
<1> QED  BY <1>1, <1>2 DEF Launches

LEMMA CliLaunches ==
  ASSUME Types, Launches, NEW k \in Cli, Command(k)
  PROVE  Launches'
<1> USE DEF CliGoto
<1>1. /\ UNCHANGED cmd
      /\ \A j \in Cli : j # k => pc'[j] = pc[j] /\ stage'[j] = stage[j] 
  BY Zenon DEF Command, ProbeOpen, ProbeLock, ProbeDrop, ProbePid, Kill, Poll, WipeLock, WipeShm, Spawn, Ready,
     Testbench, Stop, Types
<1>2. \A j \in Cli : j # k => (j \in Live' => j \in Live) /\ (dpc[j] = "new" => dpc'[j] = "new")
  <2>1. CASE Kill(k) \/ Stop(k)
    <3>1. UNCHANGED dpc \/ \E d \in Live : Die(d)  BY <2>1, Zenon DEF Kill, Stop
    <3> QED  BY <3>1, Zenon DEF Die, Live, Types
  <2>2. CASE Spawn(k)  BY <2>2, Zenon DEF Spawn, Live, Types
  <2>3. CASE ~(Kill(k) \/ Stop(k) \/ Spawn(k))
    BY <2>3, Zenon DEF Command, ProbeOpen, ProbeLock, ProbeDrop, ProbePid, Poll, WipeLock, WipeShm, Ready, Testbench, Live
  <2> QED  BY <2>1, <2>2, <2>3, Zenon
<1>3. CASE ProbeOpen(k) \/ ProbeDrop(k)
  <2>1. UNCHANGED << stage, dpc >> /\ Live' = Live /\ pc[k] \in {"probe", "probe_drop"}
    BY <1>3, Zenon DEF ProbeOpen, ProbeDrop, Live
  <2>2. pc'[k] \in {"probe_lock", WhenDown(k)}
    BY <1>3, Zenon DEF ProbeOpen, ProbeDrop, Types
  <2>3. \/ WhenDown(k) = "done" /\ cmd[k] = "info"
        \/ WhenDown(k) = "wipe_lock" /\ cmd[k] \in {"kill", "clean"}
        \/ WhenDown(k) = "ready" /\ cmd[k] \in {"run", "serve"} /\ stage[k] = "ready"
        \/ WhenDown(k) = "spawn" /\ cmd[k] \in {"run", "serve"} /\ stage[k] # "ready"
    BY Zenon DEF WhenDown, Types
  <2> QED  BY <1>1, <2>1, <2>2, <2>3 DEF Launches
<1>4. CASE ProbePid(k)
  BY <1>1, <1>2, <1>4 DEF ProbePid, WhenUp, Launches, Types, Live
<1>5. CASE Kill(k)
  BY <1>1, <1>2, <1>5 DEF Kill, Die, Launches, Types, Live
<1>6. CASE Spawn(k)
  BY <1>1, <1>2, <1>6 DEF Spawn, Launches, Types, Live
<1>7. CASE Stop(k)
  BY <1>1, <1>2, <1>7 DEF Stop, Die, Launches, Types, Live
<1>8. CASE Testbench(k) \/ Ready(k)
  BY <1>1, <1>2, <1>8 DEF Testbench, Ready, Launches, Types, Live
<1>9. CASE ProbeLock(k) \/ Poll(k) \/ WipeLock(k) \/ WipeShm(k)
  BY <1>1, <1>2, <1>9 DEF ProbeLock, Poll, WipeLock, WipeShm, Launches, Types, Live
<1> QED  BY <1>3, <1>4, <1>5, <1>6, <1>7, <1>8, <1>9, Zenon DEF Command

\* Two daemons do not hold one lock.
LEMMA OneHolder ==
  ASSUME Holding, NEW d \in Holders, NEW e \in Holders, dfd[d] = dfd[e]
  PROVE  d = e
BY DEF Holding

LEMMA DaemonHolding ==
  ASSUME Types, Holding, NEW d \in Cli, DaemonNext(d)
  PROVE  Holding'
<1> USE DEF DaemonGoto
<1>1. CASE Open(d)
  <2>1. Holders' = Holders /\ d \notin Holders  BY <1>1, Zenon DEF Open, Holders, Live, Types
  <2>2. \A e \in Holders : dfd'[e] = dfd[e] /\ dpc'[e] = dpc[e]  
    BY <1>1, <2>1, Zenon DEF Open, Holders, Live, Types
  <2> QED  BY <1>1, <2>1, <2>2, Zenon DEF Open, Holding
<1>2. CASE Flock(d)
  <2>1. d \notin Holders /\ dfd[d] \in Inode /\ UNCHANGED << dfd, pid >>
    BY <1>2, InodeOf DEF Flock, Holders, Live, Types
  <2>2. \A e \in Holders : e # Nobody /\ e # d /\ dpc'[e] = dpc[e]
    BY <1>2, <2>1, SingletonAssumption, Zenon DEF Flock, Holders, Live, Types, SingletonAssumption
  <2>3. \A e \in Holders' : e \in Holders \/ (e = d /\ dpc'[d] = "locked")
    BY <1>2, <2>1, Zenon DEF Flock, Holders, Live, Types
  <2>4. \A e \in Holders : excl'[dfd[e]] = e
    <3> TAKE e \in Holders
    <3>1. excl[dfd[e]] = e /\ e # Nobody /\ dfd[e] \in Inode
      BY <2>2, InodeOf DEF Holding, Holders, Live, Types
    <3>2. CASE excl[dfd[d]] = Nobody  BY <1>2, <2>1, <3>1, <3>2, Zenon DEF Flock, Types
    <3>3. CASE excl[dfd[d]] # Nobody  BY <1>2, <3>1, <3>3, Zenon DEF Flock, Flockable
    <3> QED  BY <3>2, <3>3, Zenon
  <2>5. dpc'[d] = "locked" => excl'[dfd[d]] = d
    BY <1>2, <2>1, Zenon DEF Flock, Types
  <2> QED  BY <2>1, <2>2, <2>3, <2>4, <2>5, Zenon DEF Holding
<1>3. CASE Truncate(d) \/ WritePid(d)
  <2>1. d \in Holders /\ Holders' = Holders /\ dfd[d] \in Inode /\ UNCHANGED << dfd, excl >>
    BY <1>3, InodeOf DEF Truncate, WritePid, Holders, Live, Types
  <2>2. \A e \in Holders : e # d => dpc'[e] = dpc[e] /\ pid'[dfd[e]] = pid[dfd[e]]
    <3> TAKE e \in Holders
    <3> HAVE e # d
    <3>1. dfd[e] # dfd[d]  BY <2>1, OneHolder, Zenon
    <3>2. e \in Cli /\ dfd[e] \in Inode  BY InodeOf DEF Holders, Live, Types
    <3> QED  BY <1>3, <3>1, <3>2, Zenon DEF Truncate, WritePid, Types
  <2>3. dpc'[d] \in {"locked", "truncated"} \/ pid'[dfd[d]] = d
    BY <1>3, <2>1, Zenon DEF Truncate, WritePid, Types
  <2> QED  BY <2>1, <2>2, <2>3, Zenon DEF Holding
<1>4. CASE ShmUnlink(d) \/ Serve(d) \/ \E n \in Name : ShmOpen(d, n)
  <2>1. /\ Holders' = Holders /\ UNCHANGED << dfd, excl, pid >>
        /\ \A e \in Holders : dpc'[e] \notin {"locked", "truncated"} => dpc[e] \notin {"locked", "truncated"}
    BY <1>4, Zenon DEF ShmUnlink, Serve, ShmOpen, Holders, Live, Types
  <2> QED  BY <2>1, Zenon DEF Holding
<1> QED  BY <1>1, <1>2, <1>3, <1>4, Zenon DEF DaemonNext

\* The end of a process takes its own lock only.
LEMMA DieHolding ==
  ASSUME Types, Holding, NEW d \in Live, Die(d), UNCHANGED << dfd, pid >>
  PROVE  Holding'
<1>1. d \in Cli /\ Holders' = Holders \ {d} /\ \A e \in Holders' : e # d /\ dpc'[e] = dpc[e]
  BY Zenon DEF Die, Holders, Live, Types
<1>2. \A e \in Holders : dfd[e] \in Inode  BY InodeOf DEF Holders, Live, Types
<1>3. \A e \in Holders' : excl'[dfd[e]] = e  BY <1>1, <1>2, Zenon DEF Die, Holding
<1> QED  BY <1>1, <1>3, Zenon DEF Holding

LEMMA CliHolding ==
  ASSUME Types, Launches, Holding, NEW k \in Cli, Command(k)
  PROVE  Holding'
<1> USE DEF CliGoto
<1>1. CASE Kill(k) \/ Stop(k)
  <2>1. UNCHANGED << dfd, pid >> /\ (UNCHANGED << dpc, excl >> \/ \E d \in Live : Die(d))
    BY <1>1, Zenon DEF Kill, Stop
  <2> QED  BY <2>1, DieHolding, Zenon DEF Holding, Holders, Live
<1>2. CASE Spawn(k)
  <2>1. dpc[k] = "new"  BY <1>2, Zenon DEF Spawn, Launches
  <2>2. Holders' = Holders /\ \A e \in Holders : dpc'[e] = dpc[e]
    BY <1>2, <2>1, Zenon DEF Spawn, Holders, Live, Types
  <2> QED  BY <1>2, <2>2, Zenon DEF Spawn, Holding
<1>3. CASE ~(Kill(k) \/ Stop(k) \/ Spawn(k))
  BY <1>3, Zenon DEF Command, ProbeOpen, ProbeLock, ProbeDrop, ProbePid, Poll, WipeLock, WipeShm, Ready, Testbench,
     Holding, Holders, Live
<1> QED  BY <1>1, <1>2, <1>3, Zenon

-----------------------------------------------------------------------------
(* Every step; a run leaves no daemon behind *)

\* A crash of a daemon at any of its steps.
LEMMA CrashBase ==
  ASSUME Base, NEW d \in Cli, Crash(d)
  PROVE  Base'
<1> USE DEF Base
<1>1. d \in Live /\ Die(d) /\ UNCHANGED << lockfile, inodes, shared, pid, shm, dfd, mapped, clis >>
  BY Zenon DEF Crash
<1>2. /\ dpc' \in [Cli -> DaemonStep] /\ excl' \in [Inode -> Cli \cup {Nobody}]
      /\ inodes <= Cardinality(Opened')
      /\ Live' = Live \ {d} /\ \A e \in Cli : e # d => dpc'[e] = dpc[e]
  BY <1>1, DieTypes, Zenon
<1>3. Types'
  <2>1. \A e \in Live' : dpc'[e] # "spawned" => dfd[e] # 0  BY <1>2, Zenon DEF Types, Live
  <2> QED  BY <1>1, <1>2, <2>1, Zenon DEF Types
<1>4. Launches'  BY <1>1, <1>2, Zenon DEF Launches, Live
<1>5. Holding'  BY <1>1, DieHolding, Zenon
<1> QED  BY <1>3, <1>4, <1>5, Zenon

\* A command begins.
LEMMA BeginBase ==
  ASSUME Base, NEW k \in Cli, NEW c \in Commands[k], Begin(k, c)
  PROVE  Base'
<1> USE DEF Base
<1>1. /\ pc[k] = "idle" /\ pc' = [pc EXCEPT ![k] = "probe"] /\ cmd' = [cmd EXCEPT ![k] = c]
      /\ UNCHANGED << files, shm, daemons, stage, fd, target >>
  BY Zenon DEF Begin, CliGoto
<1>2. c \in {"info", "run", "serve", "kill", "clean"}
  BY SingletonAssumption, Zenon DEF SingletonAssumption
<1>3. Opened' = Opened /\ Live' = Live /\ Holders' = Holders  BY <1>1, Zenon DEF Opened, Live, Holders
<1>4. Types'  BY <1>1, <1>2, <1>3, Zenon DEF Types, CliStep
<1>5. Launches'  BY <1>1, <1>2, <1>3 DEF Launches, Types
<1>6. Holding'  BY <1>1, <1>3, Zenon DEF Holding
<1> QED  BY <1>4, <1>5, <1>6, Zenon

LEMMA BaseStep ==
  ASSUME Base, [Next]_vars
  PROVE  Base'
<1>1. ASSUME NEW d \in Cli, DaemonNext(d)  PROVE Base'
  BY <1>1, DaemonTypes, DaemonLaunches, DaemonHolding, Zenon DEF Base
<1>2. ASSUME NEW k \in Cli, Command(k)  PROVE Base'
  BY <1>2, CliTypes, CliLaunches, CliHolding, Zenon DEF Base
<1>3. CASE UNCHANGED vars
  <2>1. Opened' = Opened /\ Live' = Live /\ Holders' = Holders
    BY <1>3, Zenon DEF vars, Opened, Live, Holders
  <2> QED  BY <1>3, <2>1 DEF vars, Base, Types, Launches, Holding
<1> QED  BY <1>1, <1>2, <1>3, CrashBase, BeginBase, Zenon DEF Next, Finished

LEMMA BaseInit ==
  ASSUME Init
  PROVE  Base
<1>1. Opened = {} /\ Live = {} /\ Holders = {}  BY Zenon DEF Init, Opened, Live, Holders
<1>2. Cardinality(Opened) = 0  BY <1>1, FS_EmptySet, Zenon
<1>3. Types  BY <1>1, <1>2, SingletonAssumption DEF Init, Types, DaemonStep, CliStep, SingletonAssumption
<1> QED  BY <1>1, <1>3, Zenon DEF Init, Base, Launches, Holding

\* Whatever commands overlap, a launch is known to the command that made it,
\* and only a command that is past its lock attempt holds the lock.
THEOREM BaseInvariant == Spec => []Base
<1>1. Init => Base  BY BaseInit, Zenon
<1>2. Base /\ [Next]_vars => Base'  BY BaseStep, Zenon
<1> QED  BY <1>1, <1>2, PTL DEF Spec

\* A run that ended, whatever happened to its daemon and its probes, has no
\* daemon left.
THEOREM RunLeavesNoDaemon == Spec => []NoOrphan
<1>1. Base => NoOrphan  BY Zenon DEF Base, Launches, NoOrphan
<1> QED  BY <1>1, BaseInvariant, PTL

-----------------------------------------------------------------------------
(* One daemon of a project, when kill and clean do not overlap a start *)

Exclusive == Base /\ Linked /\ Removes

LEMMA LinkedStep ==
  ASSUME Base, Linked, Removes, Next
  PROVE  Linked'
<1> USE DEF Base
<1>1. ASSUME NEW d \in Cli, DaemonNext(d)  PROVE Linked'
  <2>1. CASE Open(d)
    <3>1. /\ dpc[d] = "spawned" /\ dpc' = [dpc EXCEPT ![d] = "opened"]
          /\ ProjectOf \in [Cli -> Project]
      BY <2>1, SingletonAssumption, Zenon DEF Open, DaemonGoto, SingletonAssumption
    <3>2. \A e \in Live' : e # d => e \in Live /\ dpc'[e] = dpc[e] /\ dfd'[e] = dfd[e]
      BY <2>1, <3>1, Zenon DEF Open, Live, Types
    <3>3. dfd'[d] = lockfile'[ProjectOf[d]]
      BY <2>1, <3>1 DEF Open, Types
    <3>4. \A e \in Live : dpc[e] # "spawned" => lockfile'[ProjectOf[e]] = lockfile[ProjectOf[e]]
      <4> TAKE e \in Live
      <4> HAVE dpc[e] # "spawned"
      <4>1. e \in Cli /\ lockfile[ProjectOf[e]] # 0  BY Zenon DEF Linked, Types, Live
      <4>2. CASE ProjectOf[e] = ProjectOf[d]  BY <2>1, <4>1, <4>2, Zenon DEF Open
      <4>3. CASE ProjectOf[e] # ProjectOf[d]  BY <2>1, <3>1, <4>1, <4>3, Zenon DEF Open, Types
      <4> QED  BY <4>2, <4>3, Zenon
    <3> QED  BY <3>2, <3>3, <3>4, Zenon DEF Linked
  <2>2. CASE ~ Open(d)
    <3>1. UNCHANGED << lockfile, dfd >> /\ dpc[d] # "spawned"
      BY <1>1, <2>2, Zenon DEF DaemonNext, Flock, Truncate, WritePid, ShmUnlink, ShmOpen, Serve, DaemonGoto
    <3>2. \A e \in Cli : e # d => dpc'[e] = dpc[e] /\ (e \in Live' <=> e \in Live)
      BY <1>1, DaemonMoves, Zenon
    <3>3. d \in Live  BY <1>1, DaemonMoves, Zenon
    <3> QED  BY <3>1, <3>2, <3>3, Zenon DEF Linked, Live
  <2> QED  BY <2>1, <2>2, Zenon
<1>2. ASSUME NEW d \in Live, Die(d), UNCHANGED << lockfile, dfd >>  PROVE Linked'
  BY <1>2, DieTypes, Zenon DEF Linked, Live
<1>3. ASSUME NEW k \in Cli, Command(k)  PROVE Linked'
  <2>1. CASE Kill(k) \/ Stop(k)
    <3>1. UNCHANGED << lockfile, dfd >> /\ (UNCHANGED dpc \/ \E d \in Live : Die(d))
      BY <2>1, Zenon DEF Kill, Stop
    <3> QED  BY <1>2, <3>1, Zenon DEF Linked, Live
  <2>2. CASE Spawn(k)
    BY <2>2, Zenon DEF Spawn, Linked, Live, Types
  <2>3. CASE WipeLock(k)
    <3>1. Removing(k) /\ pc[k] = "wipe_lock"
      BY <2>3, Zenon DEF WipeLock, CliGoto, Launches, Removing
    <3>2. \A d \in Live : ProjectOf[d] # ProjectOf[k] /\ ProjectOf[d] \in Project
      BY <3>1, SingletonAssumption, Zenon DEF Removes, Sees, DownFor, SingletonAssumption, Live
    <3> QED  BY <2>3, <3>2, Zenon DEF WipeLock, Linked, Live, Types
  <2>4. CASE ~(Kill(k) \/ Stop(k) \/ Spawn(k) \/ WipeLock(k))
    BY <1>3, <2>4, Zenon DEF Command, ProbeOpen, ProbeLock, ProbeDrop, ProbePid, Poll, WipeShm, Ready, Testbench,
       Linked, Live
  <2> QED  BY <2>1, <2>2, <2>3, <2>4, Zenon
<1>4. ASSUME NEW d \in Cli, Crash(d)  PROVE Linked'
  BY <1>2, <1>4, Zenon DEF Crash
<1>5. ASSUME NEW k \in Cli, NEW c \in Commands[k], Begin(k, c)  PROVE Linked'
  BY <1>5, Zenon DEF Begin, Linked, Live
<1>6. CASE Finished  BY <1>6, Zenon DEF Finished, vars, Linked, Live
<1> QED  BY <1>1, <1>3, <1>4, <1>5, <1>6, Zenon DEF Next

\* Two processes are not at work on kill or clean at once.
LEMMA OneRemover ==
  ASSUME Base, Removes, NEW j \in Cli, NEW k \in Cli, Removing(j), Removing(k)
  PROVE  j = k
<1>1. j # k => pc[j] \in {"idle", "testbench", "stop", "done"}  BY Zenon DEF Removes, Sees
<1> QED  BY <1>1, Zenon DEF Base, Launches, Removing

\* The daemon that kill or clean finds: it has the file, the lock and the PID.
LEMMA Found ==
  ASSUME Base, Linked, NEW k \in Cli, Sees(k), NEW d \in Live, ProjectOf[d] = ProjectOf[k]
  PROVE  /\ dfd[d] = lockfile[ProjectOf[k]] /\ lockfile[ProjectOf[k]] # 0
         /\ excl[lockfile[ProjectOf[k]]] # Nobody /\ pid[lockfile[ProjectOf[k]]] = d
<1>1. dpc[d] = "serving" /\ d \in Holders  BY Zenon DEF Sees, Holders
<1>2. d # Nobody  BY SingletonAssumption, Zenon DEF SingletonAssumption, Live
<1>3. dfd[d] = lockfile[ProjectOf[k]] /\ dfd[d] # 0  BY <1>1, Zenon DEF Base, Linked, Types
<1>4. excl[dfd[d]] = d /\ pid[dfd[d]] = d  BY <1>1, Zenon DEF Base, Holding
<1> QED  BY <1>2, <1>3, <1>4, Zenon

\* A step of kill or clean.
LEMMA RemoverSees ==
  ASSUME Base, Linked, NEW k \in Cli, Removing(k), Sees(k), Command(k)
  PROVE  Removing(k)' => Sees(k)'
<1> USE DEF Base, CliGoto
<1>1. pc[k] \notin {"spawn", "ready", "testbench", "stop"} /\ cmd[k] \in {"kill", "clean"}
  BY Zenon DEF Removing, Launches
<1>2. \A j \in Cli \ {k} : pc'[j] = pc[j]
  BY Zenon DEF Command, ProbeOpen, ProbeLock, ProbeDrop, ProbePid, Kill, Poll, WipeLock, WipeShm, Spawn, Ready,
     Testbench, Stop, Types
<1>3. CASE ProbeOpen(k)
  <2>1. /\ UNCHANGED << files, shm, daemons, cmd, stage, target >> /\ Live' = Live
        /\ fd'[k] = lockfile[ProjectOf[k]]
        /\ pc'[k] = IF lockfile[ProjectOf[k]] = 0 THEN WhenDown(k) ELSE "probe_lock"
    BY <1>3, Zenon DEF ProbeOpen, Live, Types
  <2>2. WhenDown(k) = "wipe_lock"  BY <1>1, Zenon DEF WhenDown
  <2>3. lockfile[ProjectOf[k]] = 0 => DownFor(k)  BY Found, Zenon DEF DownFor
  <2> QED  BY <1>2, <2>1, <2>2, <2>3, Zenon DEF Sees, DownFor
<1>4. CASE ProbeLock(k)
  <2>1. /\ UNCHANGED << lockfile, excl, pid, daemons, cmd, stage, fd, target >> /\ Live' = Live
        /\ pc[k] = "probe_lock"
        /\ pc'[k] = "probe_pid" \/ (pc'[k] = "probe_drop" /\ excl[fd[k]] = Nobody)
    BY <1>4, Zenon DEF ProbeLock, Live, Types
  <2>2. fd[k] = lockfile[ProjectOf[k]]  BY <2>1, Zenon DEF Sees
  <2>3. excl[fd[k]] = Nobody => DownFor(k)  BY <2>2, Found, Zenon DEF DownFor
  <2> QED  BY <1>2, <2>1, <2>2, <2>3, Zenon DEF Sees, DownFor
<1>5. CASE ProbeDrop(k)
  <2>1. /\ UNCHANGED << lockfile, excl, pid, daemons, cmd, stage, fd, target >> /\ Live' = Live
        /\ pc[k] = "probe_drop" /\ pc'[k] = WhenDown(k)
    BY <1>5, Zenon DEF ProbeDrop, Live, Types
  <2>2. WhenDown(k) = "wipe_lock"  BY <1>1, Zenon DEF WhenDown
  <2> QED  BY <1>2, <2>1, <2>2, Zenon DEF Sees, DownFor
<1>6. CASE ProbePid(k)
  <2>1. /\ UNCHANGED << files, shm, daemons, cmd, stage, fd >> /\ Live' = Live
        /\ pc[k] = "probe_pid" /\ pc'[k] = WhenUp(k, pid[fd[k]]) /\ target'[k] = pid[fd[k]]
    BY <1>6, Zenon DEF ProbePid, Live, Types
  <2>2. fd[k] = lockfile[ProjectOf[k]]  BY <2>1, Zenon DEF Sees
  <2>3. \/ WhenUp(k, pid[fd[k]]) \in {"kill", "done"}
        \/ WhenUp(k, pid[fd[k]]) = "poll" /\ stage[k] = "poll"
    BY <1>1, Zenon DEF WhenUp
  <2>4. \A d \in Live : ProjectOf[d] = ProjectOf[k] => d = target'[k]
    BY <2>1, <2>2, Found
  <2> QED  BY <1>2, <2>1, <2>3, <2>4, Zenon DEF Sees, DownFor
<1>7. CASE Kill(k)
  <2>1. /\ pc[k] = "kill" /\ pc'[k] \in {"poll", "wipe_lock"}
        /\ UNCHANGED << lockfile, dfd, cmd, fd, target >>
        /\ \/ target[k] \in Live /\ Die(target[k])
           \/ target[k] \notin Live /\ UNCHANGED << dpc, excl >>
    BY <1>7, Zenon DEF Kill, Types
  <2>2. \A d \in Live : ProjectOf[d] = ProjectOf[k] => d = target[k]  BY <2>1, Zenon DEF Sees
  <2>3. Live' = Live \ {target[k]} /\ \A d \in Live' : dpc'[d] = dpc[d]
    BY <2>1, DieTypes DEF Live
  <2>4. DownFor(k)'  BY <2>2, <2>3, Zenon DEF DownFor
  <2> QED  BY <1>2, <2>1, <2>3, <2>4, Zenon DEF Sees
<1>8. CASE Poll(k) \/ WipeLock(k) \/ WipeShm(k)
  <2>1. /\ UNCHANGED << daemons, cmd, stage, fd, target >> /\ Live' = Live
        /\ pc[k] \in {"poll", "wipe_lock", "wipe_c", "wipe_d"}
        /\ pc'[k] \in {"probe", "wipe_lock", "wipe_c", "wipe_d", "done"}
    BY <1>8, Zenon DEF Poll, WipeLock, WipeShm, Live, Types
  <2> QED  BY <1>2, <2>1, Zenon DEF Sees, DownFor
<1> QED
  BY <1>1, <1>3, <1>4, <1>5, <1>6, <1>7, <1>8, Zenon DEF Command, Spawn, Ready, Testbench, Stop

\* A step of another process while kill or clean is at work: at most the end
\* of a run.
LEMMA OtherSees ==
  ASSUME Base, NEW k \in Cli, Removing(k), Sees(k), NEW j \in Cli \ {k}, Command(j)
  PROVE  Sees(k)'
<1> USE DEF Base, CliGoto
<1>1. pc[j] \in {"idle", "testbench", "stop", "done"}  BY Zenon DEF Sees
<1>2. Testbench(j) \/ Stop(j)
  BY <1>1, Zenon DEF Command, ProbeOpen, ProbeLock, ProbeDrop, ProbePid, Kill, Poll, WipeLock, WipeShm, Spawn, Ready
<1>3. /\ UNCHANGED << lockfile, dfd, cmd, stage, fd, target >>
      /\ \E to \in {"stop", "done"} : pc' = [pc EXCEPT ![j] = to]
      /\ UNCHANGED dpc \/ \E d \in Live : Die(d)
  BY <1>2, Zenon DEF Testbench, Stop
<1>4. \A d \in Live' : d \in Live /\ dpc'[d] = dpc[d]
  BY <1>3, DieTypes, Zenon DEF Live
<1>5. \A i \in Cli : pc'[i] = pc[i] \/ (i = j /\ pc'[i] \in {"stop", "done"})
  BY <1>3, Zenon DEF Types
<1> QED  BY <1>3, <1>4, <1>5, Zenon DEF Sees, DownFor

LEMMA RemovesStep ==
  ASSUME Overlap = FALSE, Base, Linked, Removes, Next
  PROVE  Removes'
<1> USE DEF Base
<1>1. ASSUME NEW d \in Cli, DaemonNext(d)  PROVE Removes'
  <2>1. d \in Live /\ dpc[d] # "serving" /\ UNCHANGED clis  BY <1>1, DaemonMoves, Zenon
  <2>2. \A k \in Cli : ~ Removing(k)  BY <2>1, Zenon DEF Removes, Sees
  <2> QED  BY <2>1, <2>2, Zenon DEF Removes, Removing
<1>2. ASSUME NEW d \in Cli, Crash(d)  PROVE Removes'
  <2>1. UNCHANGED << lockfile, clis >> /\ d \in Live /\ Die(d)  BY <1>2, Zenon DEF Crash
  <2>2. \A e \in Live' : e \in Live /\ dpc'[e] = dpc[e]  BY <2>1, DieTypes, Zenon DEF Live
  <2> QED  BY <2>1, <2>2 DEF Removes, Removing, Sees, DownFor
<1>3. ASSUME NEW k \in Cli, Command(k)  PROVE Removes'
  <2> SUFFICES ASSUME NEW j \in Cli, Removing(j)'  PROVE Sees(j)'
    BY Zenon DEF Removes
  <2>1. UNCHANGED cmd /\ pc[k] # "done" /\ \A i \in Cli : i # k => pc'[i] = pc[i]
    BY <1>3, Zenon DEF Command, ProbeOpen, ProbeLock, ProbeDrop, ProbePid, Kill, Poll, WipeLock, WipeShm, Spawn,
       Ready, Testbench, Stop, CliGoto, Types
  <2>2. Removing(j) /\ Sees(j)  BY <2>1, Zenon DEF Removing, Removes
  <2> QED  BY <1>3, <2>2, RemoverSees, OtherSees, Zenon
<1>4. ASSUME NEW k \in Cli, NEW c \in Commands[k], Begin(k, c)  PROVE Removes'
  <2> SUFFICES ASSUME NEW j \in Cli, Removing(j)'  PROVE Sees(j)'
    BY Zenon DEF Removes
  <2>1. /\ pc[k] = "idle" /\ pc' = [pc EXCEPT ![k] = "probe"] /\ cmd' = [cmd EXCEPT ![k] = c]
        /\ Quiet(k, c) /\ UNCHANGED << files, shm, daemons, stage, fd, target >>
    BY <1>4, Zenon DEF Begin, CliGoto
  <2>2. stage[k] = "first" /\ Live' = Live  BY <2>1, Zenon DEF Launches, Live
  <2>3. CASE c \in {"kill", "clean"}
    <3>1. /\ \A d \in Live : dpc[d] = "serving"
          /\ \A i \in Cli \ {k} : pc[i] \in {"idle", "testbench", "done"}
      BY <2>1, <2>3, Zenon DEF Quiet
    <3>2. j = k  BY <2>1, <3>1, Zenon DEF Removing, Launches, Types
    <3> QED  BY <2>1, <2>2, <3>1, <3>2, Zenon DEF Sees, Types
  <2>4. CASE c \notin {"kill", "clean"}
    <3>1. \A i \in Cli : cmd[i] \in {"kill", "clean"} => pc[i] = "done"
      BY <2>1, <2>4, Zenon DEF Quiet
    <3> QED  BY <2>1, <2>4, <3>1, Zenon DEF Removing, Types
  <2> QED  BY <2>3, <2>4, Zenon
<1>5. CASE Finished  BY <1>5, Zenon DEF Finished, vars, Removes, Removing, Sees, DownFor, Live
<1> QED  BY <1>1, <1>2, <1>3, <1>4, <1>5, Zenon DEF Next

LEMMA ExclusiveInvariant ==
  ASSUME Overlap = FALSE
  PROVE  Spec => []Exclusive
<1>1. Init => Exclusive
  <2>1. Init => Base /\ Linked  BY BaseInit DEF Init, Linked, Live
  <2>2. Init => Removes  BY Zenon DEF Init, Removes, Removing
  <2> QED  BY <2>1, <2>2, Zenon DEF Exclusive
<1>2. Exclusive /\ [Next]_vars => Exclusive'
  <2>1. CASE Next  BY <2>1, BaseStep, LinkedStep, RemovesStep, Zenon DEF Exclusive
  <2>2. CASE UNCHANGED vars
    <3>1. Base => Base'  BY <2>2, BaseStep, Zenon
    <3> QED  BY <2>2, <3>1 DEF vars, Exclusive, Linked, Removes, Removing, Sees, DownFor, Live
  <2> QED  BY <2>1, <2>2, Zenon
<1> QED  BY <1>1, <1>2, PTL DEF Spec

\* Two daemons past flock are not of one project: both would hold the lock of
\* the file that the path names.
LEMMA ExclusiveOne ==
  ASSUME Base, Linked
  PROVE  OneDaemon
<1> SUFFICES ASSUME NEW d \in Holders, NEW e \in Holders, ProjectOf[d] = ProjectOf[e]  PROVE d = e
  BY Zenon DEF OneDaemon
<1>1. dfd[d] = dfd[e]  BY Zenon DEF Linked, Holders
<1> QED  BY <1>1, OneHolder, Zenon DEF Base

\* At most one BeethovenRuntime of a project is past its lock, whatever probes,
\* crashes, kills and cleans went before.
THEOREM OneDaemonPerProject ==
  ASSUME Overlap = FALSE
  PROVE  Spec => []OneDaemon
<1>1. Exclusive => OneDaemon  BY ExclusiveOne, Zenon DEF Exclusive
<1> QED  BY <1>1, ExclusiveInvariant, PTL

\* The lockfile and the shared memory names are removed only while the project
\* has no daemon past its lock.
THEOREM WipesWhenDown ==
  ASSUME Overlap = FALSE
  PROVE  Spec => []WipeSafe
<1>1. Exclusive => WipeSafe
  <2> SUFFICES ASSUME Exclusive, NEW k \in Cli, pc[k] \in {"wipe_lock", "wipe_c", "wipe_d"}
               PROVE  \A d \in Holders : ProjectOf[d] # ProjectOf[k]
    BY Zenon DEF WipeSafe
  <2>1. Removing(k)  BY Zenon DEF Exclusive, Base, Launches, Removing
  <2> QED  BY <2>1, Zenon DEF Exclusive, Removes, Sees, DownFor, Holders
<1> QED  BY <1>1, ExclusiveInvariant, PTL

-----------------------------------------------------------------------------
(* The segments of a daemon, when the user has one project *)

OneProject == \A j, k \in Cli : ProjectOf[j] = ProjectOf[k]

\* The unlinks and opens of shared memory by the daemon that holds the lock.
LEMMA HolderSegments ==
  ASSUME OneProject, Base, Linked, Segments, NEW d \in Cli,
         ShmUnlink(d) \/ \E n \in Name : ShmOpen(d, n)
  PROVE  Segments'
<1> USE DEF Base
<1>1. d \in Holders /\ \A e \in Holders : e = d
  <2>1. d \in Holders  BY Zenon DEF ShmUnlink, ShmOpen, DaemonGoto, Holders, Live
  <2>2. \A e \in Holders : ProjectOf[e] = ProjectOf[d]  BY Zenon DEF OneProject, Holders, Live
  <2> QED  BY <2>1, <2>2, ExclusiveOne, Zenon DEF OneDaemon
<1>2. \A e \in Cli : e # d =>
        /\ dpc'[e] = dpc[e] /\ mapped'[e] = mapped[e] /\ (e \in Live' <=> e \in Live)
        /\ dpc[e] \notin {"unlink_d", "starting", "serving"}
        /\ e \in Live => \A n \in Name : mapped[e][n] = 0
  <2>1. \A e \in Cli : e # d => dpc'[e] = dpc[e] /\ mapped'[e] = mapped[e]
    BY Zenon DEF ShmUnlink, ShmOpen, DaemonGoto, Types
  <2>2. \A e \in Cli : e # d => dpc[e] \in {"new", "spawned", "opened", "refused", "dead"}
    BY <1>1, Zenon DEF Holders, Live, Types, DaemonStep
  <2> QED  BY <2>1, <2>2 DEF Segments, Live
<1>3. CASE ShmUnlink(d)
  <2>1. UNCHANGED << segments, mapped >>  BY <1>3, Zenon DEF ShmUnlink
  <2>2. \/ dpc[d] = "unlink_c" /\ dpc'[d] = "unlink_d" /\ names'["c"] = 0
        \/ dpc[d] = "unlink_d" /\ dpc'[d] = "starting" /\ names'["d"] = 0 /\ names'["c"] = names["c"]
    BY <1>3, Zenon DEF ShmUnlink, DaemonGoto, Types, Name
  <2>3. \A n \in Name : mapped[d][n] = 0  BY <2>2, Zenon DEF Segments
  <2>4. dpc'[d] = "starting" => \A n \in Name : names'[n] = 0  BY <2>2, Zenon DEF Segments, Name
  <2> QED  BY <1>2, <2>1, <2>2, <2>3, <2>4 DEF Segments
<1>4. ASSUME NEW n \in Name, ShmOpen(d, n)  PROVE Segments'
  <2>1. dpc[d] = "starting" /\ UNCHANGED dpc /\ names[n] = 0 /\ mapped[d][n] = 0
    BY <1>4, Zenon DEF ShmOpen, Segments
  <2>2. /\ segments' = Append(segments, d) /\ segments \in Seq(Cli)
        /\ names' = [names EXCEPT ![n] = Len(segments')]
        /\ mapped' = [mapped EXCEPT ![d][n] = Len(segments')]
    BY <1>4, <2>1, Zenon DEF ShmOpen, Types
  <2>3. /\ Len(segments') = Len(segments) + 1 /\ segments'[Len(segments')] = d
        /\ Len(segments) \in Nat /\ \A i \in 1 .. Len(segments) : segments'[i] = segments[i]
    BY <2>2
  <2>4. \A m \in Name : names'[m] = mapped'[d][m]
    BY <2>1, <2>2 DEF Segments, Types
  <2>5. \A m \in Name : mapped'[d][m] # 0 =>
          mapped'[d][m] \in 1 .. Len(segments') /\ segments'[mapped'[d][m]] = d
    <3> TAKE m \in Name
    <3>1. CASE m = n  BY <2>2, <2>3, <3>1 DEF Types
    <3>2. CASE m # n
      <4>1. mapped'[d][m] = mapped[d][m]  BY <2>2, <3>2, Zenon DEF Types
      <4>2. mapped[d][m] # 0 => mapped[d][m] \in 1 .. Len(segments) /\ segments[mapped[d][m]] = d
        BY <1>1, Zenon DEF Segments, Holders
      <4> QED  BY <2>3, <4>1, <4>2
    <3> QED  BY <3>1, <3>2, Zenon
  <2> QED  BY <1>2, <2>1, <2>4, <2>5 DEF Segments
<1> QED  BY <1>3, <1>4, Zenon

LEMMA SegmentsStep ==
  ASSUME OneProject, Exclusive, Segments, Next
  PROVE  Segments'
<1> USE DEF Exclusive, Base
<1>1. ASSUME NEW d \in Cli, DaemonNext(d)  PROVE Segments'
  <2>1. CASE ShmUnlink(d) \/ \E n \in Name : ShmOpen(d, n)  BY <2>1, HolderSegments, Zenon
  <2>2. CASE Open(d) \/ Flock(d) \/ Truncate(d) \/ WritePid(d)
    <3>1. UNCHANGED << shm, mapped >> /\ dpc[d] \in {"spawned", "opened", "locked", "truncated"}
      BY <2>2, Zenon DEF Open, Flock, Truncate, WritePid, DaemonGoto
    <3>2. \E to \in {"opened", "locked", "refused", "truncated", "unlink_c"} : dpc' = [dpc EXCEPT ![d] = to]
      BY <2>2, Zenon DEF Open, Flock, Truncate, WritePid, DaemonGoto
    <3>3. \A n \in Name : mapped[d][n] = 0  BY <3>1, Zenon DEF Segments
    <3> QED  BY <3>1, <3>2, <3>3 DEF Segments, Live, Types
  <2>3. CASE Serve(d)
    BY <2>3 DEF Serve, DaemonGoto, Segments, Live, Types
  <2> QED  BY <1>1, <2>1, <2>2, <2>3, Zenon DEF DaemonNext
<1>2. ASSUME NEW d \in Live, Die(d), UNCHANGED << shm, mapped >>  PROVE Segments'
  BY <1>2 DEF Die, Segments, Live, Types
<1>3. ASSUME NEW k \in Cli, Command(k)  PROVE Segments'
  <2>1. CASE Kill(k) \/ Stop(k)
    <3>1. UNCHANGED << shm, mapped >> /\ (UNCHANGED dpc \/ \E d \in Live : Die(d))
      BY <2>1, Zenon DEF Kill, Stop
    <3> QED  BY <1>2, <3>1 DEF Segments, Live
  <2>2. CASE Spawn(k)
    <3>1. dpc[k] = "new"  BY <2>2, Zenon DEF Spawn, CliGoto, Launches
    <3> QED  BY <2>2, <3>1 DEF Spawn, Segments, Live, Types
  <2>3. CASE WipeShm(k)
    <3>1. Removing(k) /\ pc[k] \in {"wipe_c", "wipe_d"}
      BY <2>3, Zenon DEF WipeShm, CliGoto, Launches, Removing
    <3>2. \A d \in Cli : d \notin Live
      BY <3>1 DEF Removes, Sees, DownFor, OneProject, Live
    <3>3. mapped' = mapped /\ dpc' = dpc  BY <2>3, Zenon DEF WipeShm
    <3> QED  BY <3>2, <3>3 DEF Segments, Live
  <2>4. CASE ~(Kill(k) \/ Stop(k) \/ Spawn(k) \/ WipeShm(k))
    <3>1. UNCHANGED << shm, mapped, dpc >>
      BY <1>3, <2>4, Zenon DEF Command, ProbeOpen, ProbeLock, ProbeDrop, ProbePid, Poll, WipeLock, Ready, Testbench
    <3> QED  BY <3>1, Zenon DEF Segments, Live
  <2> QED  BY <2>1, <2>2, <2>3, <2>4, Zenon
<1>4. ASSUME NEW d \in Cli, Crash(d)  PROVE Segments'
  BY <1>2, <1>4, Zenon DEF Crash
<1>5. ASSUME NEW k \in Cli, NEW c \in Commands[k], Begin(k, c)  PROVE Segments'
  BY <1>5, Zenon DEF Begin, Segments, Live
<1>6. CASE Finished  BY <1>6, Zenon DEF Finished, vars, Segments, Live
<1> QED  BY <1>1, <1>3, <1>4, <1>5, <1>6, Zenon DEF Next

\* A daemon that serves has made its segments itself and they are the ones
\* that the names give, whatever a daemon that crashed left behind.  Daemons of
\* two projects share the names, hence the assumption of one.
THEOREM SegmentsAreOwn ==
  ASSUME Overlap = FALSE, OneProject
  PROVE  Spec => []SegmentsOwn
<1>1. Init => Segments  BY DEF Init, Segments, Live
<1>2. Exclusive /\ Segments /\ [Next]_vars => Segments'
  <2>1. CASE Next  BY <2>1, SegmentsStep, Zenon
  <2>2. CASE UNCHANGED vars  BY <2>2, Zenon DEF vars, Segments, Live
  <2> QED  BY <2>1, <2>2, Zenon
<1>3. Segments => SegmentsOwn
  BY Zenon DEF Segments, SegmentsOwn, Live
<1> QED  BY <1>1, <1>2, <1>3, ExclusiveInvariant, PTL DEF Spec

=============================================================================
