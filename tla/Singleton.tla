----------------------------- MODULE Singleton -----------------------------
(***************************************************************************)
(* The life of daemons: the per-project lock that a starting               *)
(* BeethovenRuntime takes, the per-user shared memory names it clears and  *)
(* creates, and the commands of the CLI that look at the lock and act on   *)
(* what they saw: info, sim/run, runtime run, runtime kill, runtime clean. *)
(*                                                                         *)
(* Each CLI process runs one command and spawns at most one daemon, which  *)
(* bears its name.  Files are inodes: a daemon that holds the lock of an   *)
(* unlinked lockfile still holds it.  The kernel (flock, unlink, shm_open, *)
(* signals) is external.                                                   *)
(***************************************************************************)
EXTENDS Integers, Sequences, FiniteSets

CONSTANTS
  Cli,         \* CLI processes, and the daemons they spawn
  Project,     \* projects of one user
  ProjectOf,   \* the project of a CLI process and of its daemon
  Commands,    \* the commands that a CLI process may run
  Overlap      \* whether kill and clean run while a daemon is starting

Nobody == "nobody"

ASSUME SingletonAssumption ==
  /\ IsFiniteSet(Cli) /\ Nobody \notin Cli
  /\ ProjectOf \in [Cli -> Project]
  /\ Commands \in [Cli -> SUBSET {"info", "run", "serve", "kill", "clean"}]
  /\ Overlap \in BOOLEAN

VARIABLES
  lockfile,                 \* per project, the inode of the path, 0 if there is none
  inodes,                   \* number of inodes made
  excl, shared, pid,        \* per inode: who holds it how, and its contents
  names, segments,          \* shared memory: per name its segment, the makers
  dpc, dfd, mapped,         \* daemons: step, lock descriptor, segments
  pc, cmd, stage, fd, target \* CLI processes

locks == << excl, shared, pid >>
files == << lockfile, inodes, locks >>
shm == << names, segments >>
daemons == << dpc, dfd, mapped >>
clis == << pc, cmd, stage, fd, target >>
vars == << files, shm, daemons, clis >>

Name == {"c", "d"}
Inode == 1 .. 2 * Cardinality(Cli)

Live == {d \in Cli : dpc[d] \notin {"new", "refused", "dead"}}
Holders == {d \in Live : dpc[d] \notin {"spawned", "opened"}}

Init ==
  /\ lockfile = [p \in Project |-> 0] /\ inodes = 0
  /\ excl = [i \in Inode |-> Nobody] /\ shared = [i \in Inode |-> {}]
  /\ pid = [i \in Inode |-> Nobody]
  /\ names = [n \in Name |-> 0] /\ segments = << >>
  /\ dpc = [d \in Cli |-> "new"] /\ dfd = [d \in Cli |-> 0]
  /\ mapped = [d \in Cli |-> [n \in Name |-> 0]]
  /\ pc = [k \in Cli |-> "idle"] /\ cmd = [k \in Cli |-> "info"]
  /\ stage = [k \in Cli |-> "first"] /\ fd = [k \in Cli |-> 0]
  /\ target = [k \in Cli |-> Nobody]

-----------------------------------------------------------------------------
(* The daemon: runtime_acquire_singleton_lock, then the server threads *)

DaemonGoto(d, from, to) == dpc[d] = from /\ dpc' = [dpc EXCEPT ![d] = to]

\* open(O_CREAT)
Open(d) ==
  LET p == ProjectOf[d] IN
  /\ DaemonGoto(d, "spawned", "opened")
  /\ \/ /\ lockfile[p] # 0
        /\ dfd' = [dfd EXCEPT ![d] = lockfile[p]]
        /\ UNCHANGED << lockfile, inodes >>
     \/ /\ lockfile[p] = 0
        /\ inodes' = inodes + 1
        /\ lockfile' = [lockfile EXCEPT ![p] = inodes + 1]
        /\ dfd' = [dfd EXCEPT ![d] = inodes + 1]
  /\ UNCHANGED << locks, shm, mapped, clis >>

\* Mutant of Flockable: only the probes of the CLI are looked at.
Flockable_Daemons(i) == shared[i] = {}
Flockable(i) == excl[i] = Nobody /\ shared[i] = {}

\* flock(LOCK_EX | LOCK_NB), once.
Flock(d) ==
  /\ \/ /\ DaemonGoto(d, "opened", "locked")
        /\ Flockable(dfd[d])
        /\ excl' = [excl EXCEPT ![dfd[d]] = d]
     \/ /\ DaemonGoto(d, "opened", "refused")
        /\ ~Flockable(dfd[d])
        /\ UNCHANGED excl
  /\ UNCHANGED << lockfile, inodes, shared, pid, shm, dfd, mapped, clis >>

Truncate(d) ==
  /\ DaemonGoto(d, "locked", "truncated")
  /\ pid' = [pid EXCEPT ![dfd[d]] = Nobody]
  /\ UNCHANGED << lockfile, inodes, excl, shared, shm, dfd, mapped, clis >>

WritePid(d) ==
  /\ DaemonGoto(d, "truncated", "unlink_c")
  /\ pid' = [pid EXCEPT ![dfd[d]] = d]
  /\ UNCHANGED << lockfile, inodes, excl, shared, shm, dfd, mapped, clis >>

\* Mutant of ShmUnlink: stale segments are kept.
ShmUnlink_Skip(d) ==
  /\ DaemonGoto(d, "unlink_c", "unlink_d") \/ DaemonGoto(d, "unlink_d", "starting")
  /\ UNCHANGED << files, shm, dfd, mapped, clis >>

ShmUnlink(d) ==
  /\ \/ /\ DaemonGoto(d, "unlink_c", "unlink_d")
        /\ names' = [names EXCEPT !["c"] = 0]
     \/ /\ DaemonGoto(d, "unlink_d", "starting")
        /\ names' = [names EXCEPT !["d"] = 0]
  /\ UNCHANGED << files, segments, dfd, mapped, clis >>

\* shm_open(O_CREAT) of the command and of the data server thread.
ShmOpen(d, n) ==
  /\ dpc[d] = "starting" /\ mapped[d][n] = 0
  /\ \/ /\ names[n] # 0
        /\ mapped' = [mapped EXCEPT ![d][n] = names[n]]
        /\ UNCHANGED shm
     \/ /\ names[n] = 0
        /\ segments' = Append(segments, d)
        /\ names' = [names EXCEPT ![n] = Len(segments')]
        /\ mapped' = [mapped EXCEPT ![d][n] = Len(segments')]
  /\ UNCHANGED << files, dpc, dfd, clis >>

Serve(d) ==
  /\ DaemonGoto(d, "starting", "serving")
  /\ \A n \in Name : mapped[d][n] # 0
  /\ UNCHANGED << files, shm, dfd, mapped, clis >>

\* The end of a process releases its lock; the names of its segments stay.
Die(d) ==
  /\ dpc' = [dpc EXCEPT ![d] = "dead"]
  /\ excl' = [i \in Inode |-> IF excl[i] = d THEN Nobody ELSE excl[i]]

Crash(d) ==
  /\ d \in Live /\ Die(d)
  /\ UNCHANGED << lockfile, inodes, shared, pid, shm, dfd, mapped, clis >>

-----------------------------------------------------------------------------
(* The CLI *)

CliGoto(k, from, to) == pc[k] = from /\ pc' = [pc EXCEPT ![k] = to]

\* Unless Overlap, kill and clean begin when no daemon is starting, and no
\* command that spawns one begins while they are at work.
Quiet(k, c) ==
  IF c \in {"kill", "clean"}
  THEN /\ \A d \in Live : dpc[d] = "serving"
       /\ \A j \in Cli \ {k} : pc[j] \in {"idle", "testbench", "done"}
  ELSE \A j \in Cli : cmd[j] \in {"kill", "clean"} => pc[j] = "done"

Begin(k, c) ==
  /\ CliGoto(k, "idle", "probe")
  /\ Overlap \/ Quiet(k, c)
  /\ cmd' = [cmd EXCEPT ![k] = c]
  /\ UNCHANGED << files, shm, daemons, stage, fd, target >>

\* What a command does when a probe says that no daemon is up ...
WhenDown(k) ==
  CASE cmd[k] = "info" -> "done"
    [] cmd[k] \in {"kill", "clean"} -> "wipe_lock"
    [] cmd[k] \in {"run", "serve"} /\ stage[k] = "ready" -> "ready"
    [] OTHER -> "spawn"

\* Mutant of WhenUp: clean does not refuse.
WhenUp_CleanAnyway(k, p) == IF cmd[k] = "clean" THEN "wipe_lock" ELSE "done"

\* ... and that one is, with the PID read from the lockfile.
WhenUp(k, p) ==
  CASE cmd[k] = "kill" /\ stage[k] = "poll" -> "poll"
    [] cmd[k] = "kill" /\ stage[k] # "poll" /\ p # Nobody -> "kill"
    [] cmd[k] = "run" -> "testbench"
    [] OTHER -> "done"

\* probe_path
ProbeOpen(k) ==
  LET i == lockfile[ProjectOf[k]] IN
  /\ CliGoto(k, "probe", IF i = 0 THEN WhenDown(k) ELSE "probe_lock")
  /\ fd' = [fd EXCEPT ![k] = i]
  /\ UNCHANGED << files, shm, daemons, cmd, stage, target >>

\* flock(LOCK_SH | LOCK_NB); the guard is dropped a step later.
ProbeLock(k) ==
  /\ \/ /\ CliGoto(k, "probe_lock", "probe_pid")
        /\ excl[fd[k]] # Nobody
        /\ UNCHANGED shared
     \/ /\ CliGoto(k, "probe_lock", "probe_drop")
        /\ excl[fd[k]] = Nobody
        /\ shared' = [shared EXCEPT ![fd[k]] = @ \cup {k}]
  /\ UNCHANGED << lockfile, inodes, excl, pid, shm, daemons, cmd, stage, fd, target >>

ProbeDrop(k) ==
  /\ CliGoto(k, "probe_drop", WhenDown(k))
  /\ shared' = [shared EXCEPT ![fd[k]] = @ \ {k}]
  /\ UNCHANGED << lockfile, inodes, excl, pid, shm, daemons, cmd, stage, fd, target >>

ProbePid(k) ==
  /\ pc[k] = "probe_pid"
  /\ CliGoto(k, "probe_pid", WhenUp(k, pid[fd[k]]))
  /\ target' = [target EXCEPT ![k] = pid[fd[k]]]
  /\ UNCHANGED << files, shm, daemons, cmd, stage, fd >>

\* kill_external_daemon: SIGKILL, and wait_lockfile_released unless the
\* process is gone.
Kill(k) ==
  LET d == target[k] IN
  /\ stage' = [stage EXCEPT ![k] = "poll"]
  /\ \/ /\ d \in Live /\ Die(d)
        /\ CliGoto(k, "kill", "poll")
     \/ /\ d \notin Live
        /\ CliGoto(k, "kill", "wipe_lock")
        /\ UNCHANGED << dpc, excl >>
  /\ UNCHANGED << lockfile, inodes, shared, pid, shm, dfd, mapped, cmd, fd, target >>

\* Another probe, or the deadline: its result is ignored.
Poll(k) ==
  /\ CliGoto(k, "poll", "probe") \/ CliGoto(k, "poll", "wipe_lock")
  /\ UNCHANGED << files, shm, daemons, cmd, stage, fd, target >>

\* wipe_runtime_state
WipeLock(k) ==
  /\ CliGoto(k, "wipe_lock", "wipe_c")
  /\ lockfile' = [lockfile EXCEPT ![ProjectOf[k]] = 0]
  /\ UNCHANGED << inodes, locks, shm, daemons, cmd, stage, fd, target >>

WipeShm(k) ==
  /\ \/ CliGoto(k, "wipe_c", "wipe_d") /\ names' = [names EXCEPT !["c"] = 0]
     \/ CliGoto(k, "wipe_d", "done") /\ names' = [names EXCEPT !["d"] = 0]
  /\ UNCHANGED << files, segments, daemons, cmd, stage, fd, target >>

\* The foreground launch only waits for its daemon afterwards.
Spawn(k) ==
  /\ CliGoto(k, "spawn", IF cmd[k] = "run" THEN "ready" ELSE "done")
  /\ dpc' = [dpc EXCEPT ![k] = "spawned"]
  /\ stage' = [stage EXCEPT ![k] = "ready"]
  /\ UNCHANGED << files, shm, dfd, mapped, cmd, fd, target >>

\* wait_for_ready: the child is gone, the deadline passed, or another probe.
Ready(k) ==
  /\ \/ k \notin Live /\ CliGoto(k, "ready", "done")
     \/ k \in Live /\ CliGoto(k, "ready", "stop")
     \/ k \in Live /\ CliGoto(k, "ready", "probe")
  /\ UNCHANGED << files, shm, daemons, cmd, stage, fd, target >>

\* The testbench runs, against the daemon that was up or the one launched.
Testbench(k) ==
  /\ CliGoto(k, "testbench", IF stage[k] = "ready" THEN "stop" ELSE "done")
  /\ UNCHANGED << files, shm, daemons, cmd, stage, fd, target >>

\* Mutant of Stop: the daemon is left running.
Stop_Leave(k) ==
  /\ CliGoto(k, "stop", "done")
  /\ UNCHANGED << files, shm, daemons, cmd, stage, fd, target >>

\* shutdown_daemon
Stop(k) ==
  /\ CliGoto(k, "stop", "done")
  /\ \/ k \in Live /\ Die(k)
     \/ k \notin Live /\ UNCHANGED << dpc, excl >>
  /\ UNCHANGED << lockfile, inodes, shared, pid, shm, dfd, mapped, cmd, stage, fd, target >>

-----------------------------------------------------------------------------

DaemonNext(d) ==
  \/ Open(d) \/ Flock(d) \/ Truncate(d) \/ WritePid(d) \/ ShmUnlink(d)
  \/ (\E n \in Name : ShmOpen(d, n)) \/ Serve(d)

Command(k) ==
  \/ ProbeOpen(k) \/ ProbeLock(k) \/ ProbeDrop(k) \/ ProbePid(k) \/ Kill(k) \/ Poll(k)
  \/ WipeLock(k) \/ WipeShm(k) \/ Spawn(k) \/ Ready(k) \/ Testbench(k) \/ Stop(k)

Finished == (\A k \in Cli : pc[k] = "done") /\ UNCHANGED vars

Next ==
  \/ \E d \in Cli : DaemonNext(d) \/ Crash(d)
  \/ \E k \in Cli : Command(k) \/ \E c \in Commands[k] : Begin(k, c)
  \/ Finished

Spec == Init /\ [][Next]_vars

-----------------------------------------------------------------------------
(* Properties *)

\* "At most one BeethovenRuntime may run per project at a time."
OneDaemon == \A d, e \in Holders : ProjectOf[d] = ProjectOf[e] => d = e

\* A daemon that serves uses segments it made itself, and they are the ones
\* that a client finds under the names: nothing of an earlier daemon, crashed
\* at whatever step, is left in them.
SegmentsOwn ==
  \A d \in Cli : dpc[d] = "serving" => \A n \in Name :
    segments[mapped[d][n]] = d /\ names[n] = mapped[d][n]

\* wipe_runtime_state relies on its caller "for ensuring no daemon is up".
WipeSafe ==
  \A k \in Cli : pc[k] \in {"wipe_lock", "wipe_c", "wipe_d"} =>
    \A d \in Holders : ProjectOf[d] # ProjectOf[k]

\* A run that has ended leaves no daemon of its own behind.
NoOrphan == \A k \in Cli : cmd[k] = "run" /\ pc[k] = "done" => k \notin Live
=============================================================================
