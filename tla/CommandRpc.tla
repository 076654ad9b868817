----------------------------- MODULE CommandRpc -----------------------------
(***************************************************************************)
(* What the command path promises its users, without slots, mutexes or a   *)
(* server: every command that is sent is given to the accelerator exactly  *)
(* once; a command that asks for a response gets exactly one, its own; the *)
(* responses of one core come in the order the core was given commands.    *)
(***************************************************************************)
EXTENDS Integers, Sequences

CONSTANTS Core, MaxCmds

VARIABLES
  stage,    \* how far each command got
  command,  \* what was asked: the core, and whether a response is wanted
  queue     \* per core, the commands it was given and has not answered

vars == << stage, command, queue >>

Id == 1 .. MaxCmds
NoCommand == [core |-> "none", xd |-> FALSE]

Init ==
  /\ stage = [i \in Id |-> "unsent"]
  /\ command = [i \in Id |-> NoCommand]
  /\ queue = [k \in Core |-> << >>]

Move(i, from, to) == stage[i] = from /\ stage' = [stage EXCEPT ![i] = to]

Send(i) ==
  /\ Move(i, "unsent", "sent")
  /\ \E k \in Core, xd \in BOOLEAN :
       command' = [command EXCEPT ![i] = [core |-> k, xd |-> xd]]
  /\ UNCHANGED queue

Give(i) ==
  /\ Move(i, "sent", "given")
  /\ queue' = IF command[i].xd
              THEN [queue EXCEPT ![command[i].core] = Append(@, i)] ELSE queue
  /\ UNCHANGED command

Answer(i) ==
  LET k == command[i].core IN
  /\ Move(i, "given", "answered")
  /\ command[i].xd
  /\ Head(queue[k]) = i
  /\ queue' = [queue EXCEPT ![k] = Tail(@)]
  /\ UNCHANGED command

Collect(i) ==
  /\ Move(i, "answered", "collected")
  /\ UNCHANGED << command, queue >>

Next == \E i \in Id : Send(i) \/ Give(i) \/ Answer(i) \/ Collect(i)

\* What may happen at all.
SafeSpec == Init /\ [][Next]_vars

\* Every command sent is given to its core, every response wanted arrives.
Fairness == \A i \in Id : WF_vars(Give(i)) /\ WF_vars(Answer(i))

Spec == SafeSpec /\ Fairness
=============================================================================
