-------------------------- MODULE DataServerProofs --------------------------
(***************************************************************************)
(* The data server answers the call of the client that waits, holds what   *)
(* malloc returned, and never throws on its clients' own buffers, for any  *)
(* number of clients, calls, lengths and addresses, with early clients and *)
(* with clients whose malloc throws.                                       *)
(*                                                                         *)
(* The properties say nothing of calls that are under way, so that they    *)
(* are not inductive.  IInv adds that one client at a time has the file    *)
(* (OneCaller), where it and the server stand (Handshake), that the file   *)
(* has the caller's arguments until it is served and its result afterwards *)
(* (Args), and that a mapping is claimed by one client, from the reply to  *)
(* its malloc until its free is served (Owns).                             *)
(***************************************************************************)
EXTENDS DataServer, TLAPS

Ops == Moves \cup {"ALLOC", "FREE"}
Working == {"serve", "dma", "burst", "reply"}
Mapping == [addr : Nat, len : Nat \ {0}, file : Nat]

Types ==
  /\ server_mut \in BOOLEAN /\ data_cmd_send_lock \in BOOLEAN
  /\ data_cmd_recieve_resp_lock \in BOOLEAN
  /\ fname \in Nat
  /\ pc_server \in Working \cup {"start", "first", "wait", "trap", "terminated"}
  /\ mappings \in SUBSET Mapping
  /\ pc \in [Client -> {"idle", "lock", "signal", "response", "threw"}]
  /\ call \in [Client -> [op : Ops, addr : Nat, len : Nat]]
  /\ bufs \in [Client -> SUBSET Mapping]
  /\ \A c \in Client : pc[c] # "idle" => call[c].len # 0

\* A mapping is found by its address.
OneMapping == \A m, n \in mappings : m.addr = n.addr => m = n

\* data_cmd_send_lock has one holder; a client whose malloc threw keeps it.
InCall(c) == pc[c] \in {"signal", "response", "threw"}
OneCaller ==
  /\ \A c \in Client : InCall(c) => data_cmd_send_lock
  /\ \A c, d \in Client : InCall(c) /\ InCall(d) => c = d

\* The server works, or has work or an answer waiting, for a client that is
\* in its call.
Handshake ==
  /\ pc_server \in Working => server_mut /\ data_cmd_recieve_resp_lock
  /\ ~data_cmd_recieve_resp_lock => pc_server = "wait" /\ server_mut
  /\ \/ pc_server \in Working
     \/ ~data_cmd_recieve_resp_lock
     \/ ~server_mut /\ pc_server \in {"first", "wait"}
     => \E c \in Client : pc[c] = "response"
  /\ pc_server \in {"dma", "burst"} => operation \in Moves

\* What the file holds before and after the server served the call of c.
Served == pc_server = "reply" \/ ~data_cmd_recieve_resp_lock
Asked(c) ==
  /\ operation = call[c].op
  /\ operation = "ALLOC" => op_argument = call[c].len
  /\ operation = "FREE" => op_argument = call[c].addr
  /\ operation \in Moves => MoveAddr = call[c].addr /\ op3_argument = call[c].len
Answered(c) ==
  /\ operation = call[c].op
  /\ operation = "ALLOC" =>
       [addr |-> op_argument, len |-> call[c].len, file |-> fname] \in mappings
  /\ operation = "FREE" => StartingAt(call[c].addr) = {}
  /\ operation \in Moves => MoveAddr = call[c].addr /\ op3_argument = call[c].len
Args ==
  \A c \in Client :
    /\ pc[c] = "signal" => Asked(c)
    /\ pc[c] = "response" /\ ~Served => Asked(c)
    /\ pc[c] = "response" /\ Served => Answered(c)

\* The addresses that c may use: of its buffers, of the one it is freeing,
\* of the one it was given.
PendingFree(c) ==
  /\ call[c].op = "FREE"
  /\ pc[c] \in {"lock", "signal"} \/ (pc[c] = "response" /\ ~Served)
Granted(c) == call[c].op = "ALLOC" /\ pc[c] = "response" /\ Served
Claims(c, a) ==
  \/ \E b \in bufs[c] : b.addr = a
  \/ PendingFree(c) /\ a = call[c].addr
  \/ Granted(c) /\ a = op_argument

Owns ==
  /\ \A c \in Client : bufs[c] \subseteq mappings
  /\ \A c \in Client : PendingFree(c) =>
       /\ \E m \in mappings : m.addr = call[c].addr
       /\ \A b \in bufs[c] : b.addr # call[c].addr
  /\ \A c \in Client : pc[c] \in {"lock", "signal", "response"} /\ call[c].op \in Moves =>
       \E b \in bufs[c] : b.addr = call[c].addr
  /\ \A c, d \in Client : \A a \in Nat : Claims(c, a) /\ Claims(d, a) => c = d

IInv == Types /\ OneMapping /\ OneCaller /\ Handshake /\ Args /\ Owns /\ NoThrow

-----------------------------------------------------------------------------
(* One lemma per action *)

\* Owns is about the clients, their calls' argument and the mappings: a step that changes
\* none of these, nor whether a call is served, keeps it.
LEMMA OwnsKept ==
  ASSUME IInv, UNCHANGED << bufs, call, pc, op_argument, mappings >>, Served' <=> Served
  PROVE Owns'
<1>1. \A d \in Client : (PendingFree(d)' => PendingFree(d)) /\ (Granted(d)' => Granted(d))
  BY Zenon DEF PendingFree, Granted
<1>2. \A d \in Client : \A x : Claims(d, x)' => Claims(d, x)
  BY <1>1, Zenon DEF Claims
<1> QED BY <1>1, <1>2, Zenon DEF IInv, Owns

\* A client begins a malloc: nothing is claimed yet.
LEMMA MallocStep ==
  ASSUME IInv, NEW c \in Client, NEW n \in Lens, Malloc(c, n)
  PROVE IInv'
<1>1. Types'
  BY DataAssumption, Zenon DEF DataAssumption, IInv, Types, Ops, Malloc, Begin, Goto, Call, file,
     locks, server
<1>2. OneMapping'
  BY Zenon DEF IInv, OneMapping, Malloc, Begin, Goto, server
<1>3. OneCaller'
  BY DEF IInv, OneCaller, InCall, Malloc, Begin, Goto, file, locks
<1>4. Handshake'
  BY DEF IInv, Handshake, Malloc, Begin, Goto, file, locks, args, server
<1>5. Args'
  BY DEF IInv, Args, Asked, Answered, Served, MoveAddr, StartingAt, Malloc, Begin, Goto,
     file, locks, args, server
<1>6. Owns'
  BY DEF IInv, Types, Moves, Working, Owns, Claims, PendingFree, Granted, Served, Malloc,
     Begin, Goto, Call, file, locks, args, server
<1>7. NoThrow'
  BY Zenon DEF IInv, NoThrow, Malloc, Begin, Goto, server
<1> QED BY <1>1, <1>2, <1>3, <1>4, <1>5, <1>6, <1>7, Zenon DEF IInv

\* A client begins a copy of a buffer it holds, and keeps it.
LEMMA CopyStep ==
  ASSUME IInv, NEW c \in Client, NEW b \in bufs[c], NEW op \in Moves, Copy(c, b, op)
  PROVE IInv'
<1>1. Types'
  BY DEF IInv, Types, Ops, Mapping, Copy, Begin, Goto, Call, file, locks, server
<1>2. OneMapping'
  BY Zenon DEF IInv, OneMapping, Copy, Begin, Goto, server
<1>3. OneCaller'
  BY DEF IInv, OneCaller, InCall, Copy, Begin, Goto, file, locks
<1>4. Handshake'
  BY DEF IInv, Handshake, Copy, Begin, Goto, file, locks, args, server
<1>5. Args'
  BY DEF IInv, Args, Asked, Answered, Served, MoveAddr, StartingAt, Copy, Begin, Goto, file,
     locks, args, server
<1>6. Owns'
  BY DEF IInv, Types, Moves, Owns, Claims, PendingFree, Granted, Served, Copy, Begin, Goto,
     Call, file, locks, args, server
<1>7. NoThrow'
  BY Zenon DEF IInv, NoThrow, Copy, Begin, Goto, server
<1> QED BY <1>1, <1>2, <1>3, <1>4, <1>5, <1>6, <1>7, Zenon DEF IInv

\* A client begins to free a buffer: it gives the buffer up, and its claim to
\* the address lasts as a pending free.
LEMMA FreeStep ==
  ASSUME IInv, NEW c \in Client, NEW b \in bufs[c], Free(c, b)
  PROVE IInv'
<1>1. Types'
  BY DEF IInv, Types, Ops, Mapping, Free, Begin, Goto, Call, file, locks, server
<1>2. OneMapping'
  BY Zenon DEF IInv, OneMapping, Free, Begin, Goto, server
<1>3. OneCaller'
  BY DEF IInv, OneCaller, InCall, Free, Begin, Goto, file, locks
<1>4. Handshake'
  BY DEF IInv, Handshake, Free, Begin, Goto, file, locks, args, server
<1>5. Args'
  BY DEF IInv, Args, Asked, Answered, Served, MoveAddr, StartingAt, Free, Begin, Goto, file,
     locks, args, server
<1>6. Owns'
  <2>1. /\ UNCHANGED << mappings, op_argument, pc_server, data_cmd_recieve_resp_lock >>
        /\ \A d \in Client \ {c} : bufs'[d] = bufs[d] /\ pc'[d] = pc[d] /\ call'[d] = call[d]
        /\ pc'[c] = "lock" /\ bufs'[c] = bufs[c] \ {b}
        /\ call'[c].op = "FREE" /\ call'[c].addr = b.addr
    BY Zenon DEF IInv, Types, Free, Begin, Goto, Call, file, locks, args, server
  <2>2. \A d \in Client : bufs'[d] \subseteq mappings' /\ b \in mappings'
    BY <2>1, Zenon DEF IInv, Owns
  <2>3. \A x \in bufs'[c] : x.addr # b.addr
    BY <2>1, <2>2, Zenon DEF IInv, Owns, OneMapping
  <2>4. \A d \in Client \ {c} : (PendingFree(d)' => PendingFree(d)) /\ (Granted(d)' => Granted(d))
    BY <2>1, Zenon DEF PendingFree, Granted, Served
  <2>5. ~Granted(c)'
    BY <2>1, Zenon DEF Granted
  <2>6. \A d \in Client, x \in Nat : Claims(d, x)' => Claims(d, x)
    <3> SUFFICES ASSUME NEW d \in Client, NEW x \in Nat, Claims(d, x)'
                 PROVE  Claims(d, x)
      BY Zenon
    <3>1. CASE d = c
      BY <3>1, <2>1, <2>5, Zenon DEF Claims
    <3>2. CASE d # c
      <4>1. (\E y \in bufs[d] : y.addr = x) \/ (PendingFree(d)' /\ x = call[d].addr)
              \/ (Granted(d)' /\ x = op_argument)
        BY <3>2, <2>1, Zenon DEF Claims
      <4> QED BY <4>1, <3>2, <2>4, Zenon DEF Claims
    <3> QED BY <3>1, <3>2, Zenon
  <2>7. \A d \in Client : PendingFree(d)' =>
          /\ \E m \in mappings' : m.addr = call'[d].addr
          /\ \A x \in bufs'[d] : x.addr # call'[d].addr
    <3> SUFFICES ASSUME NEW d \in Client, PendingFree(d)'
                 PROVE  /\ \E m \in mappings' : m.addr = call'[d].addr
                        /\ \A x \in bufs'[d] : x.addr # call'[d].addr
      BY Zenon
    <3>1. CASE d = c
      BY <3>1, <2>1, <2>2, <2>3, Zenon
    <3>2. CASE d # c
      <4>1. PendingFree(d) /\ call'[d] = call[d] /\ bufs'[d] = bufs[d] /\ mappings' = mappings
        BY <3>2, <2>1, <2>4, Zenon
      <4> QED BY <4>1, Zenon DEF IInv, Owns
    <3> QED BY <3>1, <3>2, Zenon
  <2> QED BY <2>1, <2>2, <2>6, <2>7 DEF IInv, Owns, Moves
<1>7. NoThrow'
  BY Zenon DEF IInv, NoThrow, Free, Begin, Goto, server
<1> QED BY <1>1, <1>2, <1>3, <1>4, <1>5, <1>6, <1>7, Zenon DEF IInv

\* A client takes data_cmd_send_lock and writes its arguments.
LEMMA LockStep ==
  ASSUME IInv, NEW c \in Client, Lock(c)
  PROVE IInv'
<1>1. Types'
  BY Zenon DEF IInv, Types, Lock, Goto, server
<1>2. OneMapping'
  BY Zenon DEF IInv, OneMapping, Lock, Goto, server
<1>3. OneCaller'
  BY DEF IInv, OneCaller, InCall, Lock, Goto
<1>4. Handshake'
  BY Zenon DEF IInv, Working, Handshake, OneCaller, InCall, Lock, Goto, server
<1>5. Args'
  BY DEF IInv, Moves, Args, Asked, MoveAddr, OneCaller, InCall, Lock, Goto
<1>6. Owns'
  BY DEF IInv, Owns, Claims, PendingFree, Granted, OneCaller, InCall, Lock, Goto, server
<1>7. NoThrow'
  BY Zenon DEF IInv, NoThrow, Lock, Goto, server
<1> QED BY <1>1, <1>2, <1>3, <1>4, <1>5, <1>6, <1>7, Zenon DEF IInv

\* A client unlocks server_mut, which the server took before it waited.
LEMMA SignalStep ==
  ASSUME IInv, NEW c \in Client, Signal(c)
  PROVE IInv'
<1>1. Types'
  BY Zenon DEF IInv, Types, Signal, Goto, server
<1>2. OneMapping'
  BY Zenon DEF IInv, OneMapping, Signal, Goto, server
<1>3. OneCaller'
  BY DEF IInv, OneCaller, InCall, Signal, Goto
<1>4. Handshake'
  BY Zenon DEF IInv, Types, Handshake, OneCaller, InCall, Signal, Goto, server
<1>5. Args'
  BY DEF IInv, Working, Args, Asked, Served, MoveAddr, OneCaller, InCall, Handshake, Signal,
     Goto, args, server
<1>6. Owns'
  <2>1. /\ UNCHANGED << bufs, call, op_argument, mappings >> /\ (Served' <=> Served) /\ ~Served
        /\ pc[c] = "signal" /\ pc'[c] = "response"
        /\ \A d \in Client \ {c} : pc'[d] = pc[d]
    BY Zenon DEF IInv, Types, Working, Served, OneCaller, InCall, Handshake, Signal, Goto, args, server
  <2>2. \A d \in Client : (PendingFree(d)' => PendingFree(d)) /\ (Granted(d)' => Granted(d))
    BY <2>1, Zenon DEF PendingFree, Granted
  <2>3. \A d \in Client : \A x : Claims(d, x)' => Claims(d, x)
    BY <2>1, <2>2, Zenon DEF Claims
  <2> QED BY <2>1, <2>2, <2>3, Zenon DEF IInv, Owns
<1>7. NoThrow'
  BY Zenon DEF IInv, NoThrow, Signal, Goto, server
<1> QED BY <1>1, <1>2, <1>3, <1>4, <1>5, <1>6, <1>7, Zenon DEF IInv

\* A client takes its answer: the buffer it was granted becomes one it holds.
LEMMA ReturnStep ==
  ASSUME IInv, NEW c \in Client, Return(c)
  PROVE IInv'
<1>1. Types'
  <2>1. call[c].op = "ALLOC" =>
          [addr |-> op_argument, len |-> call[c].len, file |-> fname] \in Mapping
    BY Zenon DEF IInv, Types, Args, Answered, Served, Return, Goto
  <2> QED BY <2>1, Zenon DEF IInv, Types, Working, Return, Goto, args, server
<1>2. OneMapping'
  BY Zenon DEF IInv, OneMapping, Return, Goto, server
<1>3. OneCaller'
  BY Zenon DEF IInv, Types, OneCaller, InCall, Return, Goto
<1>4. Handshake'
  BY Zenon DEF IInv, Handshake, Return, Goto, server
<1>5. Args'
  BY Zenon DEF IInv, Types, Args, OneCaller, InCall, Return, Goto
<1>6. Owns'
  <2>1. call[c].op = "ALLOC" =>
          /\ [addr |-> op_argument, len |-> call[c].len, file |-> fname] \in mappings
          /\ Granted(c)
    BY Zenon DEF IInv, Args, Answered, Served, Granted, Return, Goto
  <2>2. /\ UNCHANGED << call, mappings, op_argument, pc_server >>
        /\ \A d \in Client \ {c} : bufs'[d] = bufs[d] /\ pc'[d] = pc[d]
        /\ pc'[c] = "idle"
        /\ \A b \in bufs'[c] : b \in bufs[c] \/
             (call[c].op = "ALLOC" /\ b = [addr |-> op_argument, len |-> call[c].len, file |-> fname])
    BY Zenon DEF IInv, Types, Return, Goto, args, server
  <2>3. \A d \in Client : bufs'[d] \subseteq mappings'
    BY <2>1, <2>2 DEF IInv, Owns
  <2>4. \A d \in Client \ {c} : pc[d] \in {"idle", "lock"}
    BY Zenon DEF IInv, Types, OneCaller, InCall, Return, Goto
  <2>5. \A d \in Client : PendingFree(d)' => PendingFree(d) /\ d # c
    BY <2>2, <2>4, Zenon DEF PendingFree
  <2>6. \A d \in Client : ~Granted(d)'
    BY <2>2, <2>4, Zenon DEF Granted
  <2>7. \A d \in Client, x \in Nat : Claims(d, x)' => Claims(d, x)
    BY <2>1, <2>2, <2>5, <2>6 DEF Claims
  <2> QED BY <2>2, <2>3, <2>4, <2>5, <2>7 DEF IInv, Owns
<1>7. NoThrow'
  BY Zenon DEF IInv, NoThrow, Return, Goto, server
<1> QED BY <1>1, <1>2, <1>3, <1>4, <1>5, <1>6, <1>7, Zenon DEF IInv

\* A malloc throws in the client: the mapping stays and is nobody's.
LEMMA ThrowStep ==
  ASSUME IInv, NEW c \in Client, MallocThrow(c)
  PROVE IInv'
<1>1. Types'
  BY Zenon DEF IInv, Types, MallocThrow, Goto, server
<1>2. OneMapping'
  BY Zenon DEF IInv, OneMapping, MallocThrow, Goto, server
<1>3. OneCaller'
  BY DEF IInv, OneCaller, InCall, MallocThrow, Goto
<1>4. Handshake'
  BY Zenon DEF IInv, Handshake, MallocThrow, Goto, server
<1>5. Args'
  BY Zenon DEF IInv, Types, Args, OneCaller, InCall, MallocThrow, Goto
<1>6. Owns'
  BY DEF IInv, Owns, Claims, PendingFree, Granted, Served, OneCaller, InCall, MallocThrow,
     Goto, args, server
<1>7. NoThrow'
  BY Zenon DEF IInv, NoThrow, MallocThrow, Goto, server
<1> QED BY <1>1, <1>2, <1>3, <1>4, <1>5, <1>6, <1>7, Zenon DEF IInv

\* The server's first lock of server_mut.
LEMMA StartStep ==
  ASSUME IInv, ServerStart
  PROVE IInv'
<1>1. Types'
  BY Zenon DEF IInv, Types, ServerStart, ServerGoto, clients
<1>2. OneMapping'
  BY Zenon DEF IInv, OneMapping, ServerStart, ServerGoto
<1>3. OneCaller'
  BY Zenon DEF IInv, OneCaller, InCall, ServerStart, ServerGoto, clients
<1>4. Handshake'
  BY Zenon DEF IInv, Working, Handshake, ServerStart, ServerGoto
<1>5. Args'
  BY Zenon DEF IInv, Args, Asked, Answered, Served, MoveAddr, StartingAt, ServerStart, ServerGoto,
     args, clients
<1>6. Owns'
  BY DEF IInv, Owns, Claims, PendingFree, Granted, Served, ServerStart, ServerGoto, args,
     clients
<1>7. NoThrow'
  BY Zenon DEF IInv, NoThrow, ServerStart, ServerGoto
<1> QED BY <1>1, <1>2, <1>3, <1>4, <1>5, <1>6, <1>7, Zenon DEF IInv

\* The server wakes for the client whose signal it took.
LEMMA WakeStep ==
  ASSUME IInv, ServerWake
  PROVE IInv'
<1>1. Types'
  BY Zenon DEF IInv, Types, Working, ServerWake, ServerGoto, clients
<1>2. OneMapping'
  BY Zenon DEF IInv, OneMapping, ServerWake, ServerGoto
<1>3. OneCaller'
  BY Zenon DEF IInv, OneCaller, InCall, ServerWake, ServerGoto, clients
<1>4. Handshake'
  BY Zenon DEF IInv, Handshake, ServerWake, ServerGoto, clients
<1>5. Args'
  BY Zenon DEF IInv, Args, Asked, Answered, Served, MoveAddr, StartingAt, ServerWake, ServerGoto,
     args, clients
<1>6. Owns'
  BY DEF IInv, Owns, Claims, PendingFree, Granted, Served, ServerWake, ServerGoto, args,
     clients
<1>7. NoThrow'
  BY Zenon DEF IInv, NoThrow, ServerWake, ServerGoto
<1> QED BY <1>1, <1>2, <1>3, <1>4, <1>5, <1>6, <1>7, Zenon DEF IInv

\* The server allocates: the address is no mapping's, hence no client's.
LEMMA AllocStep ==
  ASSUME IInv, NEW a \in Addrs, Alloc(a)
  PROVE IInv'
<1>c. PICK c \in Client : pc[c] = "response" /\ Asked(c)
  BY Zenon DEF IInv, Handshake, Working, Args, Served, Alloc, ServerGoto
<1>1. Types'
  <2>1. op_argument \in Nat \ {0} /\ a \in Nat
    BY <1>c, DataAssumption, Zenon DEF DataAssumption, IInv, Types, Asked, Alloc
  <2>2. [addr |-> a, len |-> op_argument, file |-> fname'] \in Mapping
    BY <2>1 DEF Mapping, IInv, Types, Alloc
  <2> QED BY <2>2 DEF IInv, Types, Working, Alloc, ServerGoto, locks, clients
<1>2. OneMapping'
  <2>1. op_argument \in Nat \ {0} /\ a \in Nat
    BY <1>c, DataAssumption, Zenon DEF DataAssumption, IInv, Types, Asked, Alloc
  <2>2. \A m \in mappings : m.addr # a
    BY <2>1 DEF IInv, Types, Mapping, Alloc, Bytes
  <2> QED BY <2>2 DEF IInv, OneMapping, Alloc
<1>3. OneCaller'
  BY Zenon DEF IInv, OneCaller, InCall, Alloc, ServerGoto, locks, clients
<1>4. Handshake'
  BY Zenon DEF IInv, Working, Handshake, Alloc, ServerGoto, locks, clients
<1>5. Args'
  BY Zenon DEF IInv, Moves, Working, Args, Asked, Answered, Served, OneCaller, InCall, Handshake,
     Alloc, ServerGoto, clients
<1>6. Owns'
  <2>1. op_argument \in Nat \ {0} /\ a \in Nat
    BY <1>c, DataAssumption, Zenon DEF DataAssumption, IInv, Types, Asked, Alloc
  <2>2. \A m \in mappings : m.addr # a
    BY <2>1 DEF IInv, Types, Mapping, Alloc, Bytes
  <2>3. UNCHANGED << bufs, call, pc, data_cmd_recieve_resp_lock >>
        /\ op_argument' = a /\ mappings \subseteq mappings' /\ pc_server = "serve"
    BY Zenon DEF Alloc, ServerGoto, locks, clients
  <2>4. \A d \in Client : ~Claims(d, a)
    BY <2>2, <2>3 DEF IInv, Owns, Claims, Granted, Served, Handshake, Working
  <2>5. \A d \in Client : PendingFree(d)' => PendingFree(d)
    BY <1>c, <2>3, Zenon DEF PendingFree, Served, IInv, Handshake, Working
  <2>6. \A d \in Client : Granted(d)' => d = c
    BY <1>c, <2>3, Zenon DEF Granted, IInv, OneCaller, InCall
  <2>7. \A d \in Client, x \in Nat : Claims(d, x)' => Claims(d, x) \/ (d = c /\ x = a)
    BY <2>3, <2>5, <2>6, Zenon DEF Claims
  <2>8. \A d, e \in Client : \A x \in Nat : Claims(d, x)' /\ Claims(e, x)' => d = e
    BY <2>4, <2>7 DEF IInv, Owns
  <2> QED BY <2>3, <2>5, <2>8, Zenon DEF IInv, Owns
<1>7. NoThrow'
  BY Zenon DEF IInv, NoThrow, Alloc, ServerGoto
<1> QED BY <1>1, <1>2, <1>3, <1>4, <1>5, <1>6, <1>7, Zenon DEF IInv

\* The server unmaps the caller's buffer, which is there and is nobody else's.
LEMMA UnmapStep ==
  ASSUME IInv, Unmap
  PROVE IInv'
<1>c. PICK c \in Client : pc[c] = "response" /\ Asked(c)
  BY Zenon DEF IInv, Handshake, Working, Args, Served, Unmap, ServerGoto
<1>1. Types'
  BY Zenon DEF IInv, Types, Working, Unmap, ServerGoto, file, locks, clients
<1>2. OneMapping'
  BY Zenon DEF IInv, OneMapping, Unmap, ServerGoto
<1>3. OneCaller'
  BY Zenon DEF IInv, OneCaller, InCall, Unmap, ServerGoto, file, locks, clients
<1>4. Handshake'
  BY Zenon DEF IInv, Working, Handshake, Unmap, ServerGoto, file, locks, clients
<1>5. Args'
  BY DEF IInv, Args, Asked, Answered, Served, MoveAddr, StartingAt, Unmap, ServerGoto, file,
     locks, args, clients
<1>6. Owns'
  <2>1. PendingFree(c) /\ op_argument = call[c].addr /\ call[c].addr \in Nat
    BY <1>c, Zenon DEF IInv, Types, Args, Asked, PendingFree, Handshake, Working, Served, Unmap, ServerGoto
  <2>2. UNCHANGED << bufs, call, pc, op_argument, data_cmd_recieve_resp_lock, operation >>
    BY Zenon DEF Unmap, file, locks, args, clients
  <2>3. \A m \in mappings : m.addr # call[c].addr => m \in mappings'
    BY <2>1, Zenon DEF Unmap, StartingAt
  <2>4. \A d \in Client : d # c => ~Claims(d, call[c].addr)
    BY <2>1, Zenon DEF IInv, Owns, Claims
  <2>5. \A d \in Client : \A b \in bufs[d] : b.addr # call[c].addr
    BY <2>1, <2>4, Zenon DEF IInv, Owns, Claims
  <2>6. \A d \in Client : PendingFree(d)' => PendingFree(d) /\ (pc_server' = "reply" => d # c)
    BY <1>c, <2>2, Zenon DEF PendingFree, Served, Unmap, ServerGoto, IInv, Handshake, Working
  <2>7. \A d \in Client : ~Granted(d)'
    BY <1>c, <2>2, Zenon DEF Granted, Asked, Unmap, IInv, OneCaller, InCall
  <2>8. \A d \in Client, a \in Nat : Claims(d, a)' => Claims(d, a)
    BY <2>2, <2>6, <2>7, Zenon DEF Claims
  <2>9. \A d \in Client : bufs'[d] \subseteq mappings'
    BY <2>2, <2>3, <2>5, Zenon DEF IInv, Owns
  <2>10. pc_server' = "reply"
    BY <2>1, Zenon DEF IInv, Owns, Unmap, ServerGoto, StartingAt
  <2>11. \A d \in Client : PendingFree(d)' =>
           /\ \E m \in mappings' : m.addr = call'[d].addr
           /\ \A b \in bufs'[d] : b.addr # call'[d].addr
    <3> SUFFICES ASSUME NEW d \in Client, PendingFree(d)'
                 PROVE  /\ \E m \in mappings' : m.addr = call'[d].addr
                        /\ \A b \in bufs'[d] : b.addr # call'[d].addr
      BY Zenon
    <3>1. PendingFree(d) /\ d # c
      BY <2>6, <2>10, Zenon
    <3>2. PICK m \in mappings : m.addr = call[d].addr
      BY <3>1, Zenon DEF IInv, Owns
    <3>3. m.addr # call[c].addr
      BY <3>1, <3>2, <2>4, Zenon DEF Claims
    <3> QED BY <2>2, <2>3, <3>1, <3>2, <3>3, Zenon DEF IInv, Owns
  <2> QED BY <2>2, <2>8, <2>9, <2>11, Zenon DEF IInv, Owns
<1>7. NoThrow'
  <2>1. PendingFree(c) /\ op_argument = call[c].addr
    BY <1>c, Zenon DEF IInv, Args, Asked, PendingFree, Handshake, Working, Served, Unmap, ServerGoto
  <2>2. StartingAt(op_argument) # {}
    BY <2>1, Zenon DEF IInv, Owns, StartingAt
  <2> QED BY <2>2, Zenon DEF IInv, NoThrow, Unmap, ServerGoto
<1> QED BY <1>1, <1>2, <1>3, <1>4, <1>5, <1>6, <1>7, Zenon DEF IInv

\* The server begins a copy of the caller's buffer, which is mapped.
LEMMA StartMoveStep ==
  ASSUME IInv, StartMove
  PROVE IInv'
<1>c. PICK c \in Client : pc[c] = "response" /\ Asked(c)
  BY Zenon DEF IInv, Handshake, Working, Args, Served, StartMove, ServerGoto
<1>1. Types'
  BY Zenon DEF IInv, Types, Working, StartMove, ServerGoto, file, locks, clients
<1>2. OneMapping'
  BY Zenon DEF IInv, OneMapping, StartMove, ServerGoto
<1>3. OneCaller'
  BY Zenon DEF IInv, OneCaller, InCall, StartMove, ServerGoto, file, locks, clients
<1>4. Handshake'
  BY Zenon DEF IInv, Working, Handshake, StartMove, ServerGoto, file, locks, args, clients
<1>5. Args'
  BY DEF IInv, Args, Asked, Answered, Served, MoveAddr, StartingAt, StartMove, ServerGoto,
     file, locks, args, clients
<1>6. Owns'
  <2>1. UNCHANGED << bufs, call, pc, op_argument, mappings >> /\ (Served' <=> Served)
    BY Zenon DEF IInv, Handshake, Working, Served, StartMove, ServerGoto, file, locks, args, clients
  <2> QED BY <2>1, OwnsKept, Zenon
<1>7. NoThrow'
  <2>1. PICK b \in bufs[c] : b.addr = MoveAddr
    BY <1>c, Zenon DEF IInv, Owns, Asked, StartMove
  <2>2. b \in Holding(MoveAddr)
    BY <2>1 DEF IInv, Owns, Types, Mapping, Holding, Bytes
  <2> QED BY <2>2, Zenon DEF IInv, NoThrow, StartMove, ServerGoto
<1> QED BY <1>1, <1>2, <1>3, <1>4, <1>5, <1>6, <1>7, Zenon DEF IInv

\* The server issues a burst.
LEMMA IssueStep ==
  ASSUME IInv, NEW n \in 1 .. MaxBeats, IssueBurst(n)
  PROVE IInv'
<1>1. Types'
  BY Zenon DEF IInv, Types, Working, IssueBurst, ServerGoto, file, locks, clients
<1>2. OneMapping'
  BY Zenon DEF IInv, OneMapping, IssueBurst, ServerGoto
<1>3. OneCaller'
  BY Zenon DEF IInv, OneCaller, InCall, IssueBurst, ServerGoto, file, locks, clients
<1>4. Handshake'
  BY Zenon DEF IInv, Working, Handshake, IssueBurst, ServerGoto, file, locks, args, clients
<1>5. Args'
  BY Zenon DEF IInv, Args, Asked, Answered, Served, MoveAddr, StartingAt, IssueBurst, ServerGoto,
     file, locks, args, clients
<1>6. Owns'
  <2>1. UNCHANGED << bufs, call, pc, op_argument, mappings >> /\ (Served' <=> Served)
    BY Zenon DEF IInv, Handshake, Working, Served, IssueBurst, ServerGoto, file, locks, args, clients
  <2> QED BY <2>1, OwnsKept, Zenon
<1>7. NoThrow'
  BY Zenon DEF IInv, NoThrow, IssueBurst, ServerGoto
<1> QED BY <1>1, <1>2, <1>3, <1>4, <1>5, <1>6, <1>7, Zenon DEF IInv

\* The server goes on after a burst.
LEMMA BurstDoneStep ==
  ASSUME IInv, BurstDone
  PROVE IInv'
<1>1. Types'
  BY Zenon DEF IInv, Types, Working, BurstDone, ServerGoto, file, locks, clients
<1>2. OneMapping'
  BY Zenon DEF IInv, OneMapping, BurstDone, ServerGoto
<1>3. OneCaller'
  BY Zenon DEF IInv, OneCaller, InCall, BurstDone, ServerGoto, file, locks, clients
<1>4. Handshake'
  BY Zenon DEF IInv, Working, Handshake, BurstDone, ServerGoto, file, locks, args, clients
<1>5. Args'
  BY Zenon DEF IInv, Args, Asked, Answered, Served, MoveAddr, StartingAt, BurstDone, ServerGoto,
     file, locks, args, clients
<1>6. Owns'
  <2>1. UNCHANGED << bufs, call, pc, op_argument, mappings >> /\ (Served' <=> Served)
    BY Zenon DEF IInv, Handshake, Working, Served, BurstDone, ServerGoto, file, locks, args, clients
  <2> QED BY <2>1, OwnsKept, Zenon
<1>7. NoThrow'
  BY Zenon DEF IInv, NoThrow, BurstDone, ServerGoto
<1> QED BY <1>1, <1>2, <1>3, <1>4, <1>5, <1>6, <1>7, Zenon DEF IInv

\* The server is done with a copy.
LEMMA MoveDoneStep ==
  ASSUME IInv, MoveDone
  PROVE IInv'
<1>c. PICK c \in Client : pc[c] = "response" /\ Asked(c)
  BY Zenon DEF IInv, Handshake, Working, Args, Served, MoveDone, ServerGoto
<1>1. Types'
  BY Zenon DEF IInv, Types, Working, MoveDone, ServerGoto, file, locks, clients
<1>2. OneMapping'
  BY Zenon DEF IInv, OneMapping, MoveDone, ServerGoto
<1>3. OneCaller'
  BY Zenon DEF IInv, OneCaller, InCall, MoveDone, ServerGoto, file, locks, clients
<1>4. Handshake'
  BY Zenon DEF IInv, Working, Handshake, MoveDone, ServerGoto, file, locks, clients
<1>5. Args'
  BY Zenon DEF IInv, Moves, Args, Asked, Answered, MoveAddr, Handshake, MoveDone, ServerGoto,
     file, args, clients
<1>6. Owns'
  <2>1. UNCHANGED << bufs, call, pc, op_argument, mappings, data_cmd_recieve_resp_lock >>
        /\ pc_server = "dma" /\ pc_server' = "reply"
    BY Zenon DEF MoveDone, ServerGoto, file, locks, args, clients
  <2>2. \A d \in Client : pc[d] = "response" => call[d].op \in Moves
    BY <1>c, <2>1, Zenon DEF IInv, OneCaller, InCall, Handshake, Asked
  <2>3. \A d \in Client : (PendingFree(d)' => PendingFree(d)) /\ ~Granted(d)'
    BY <2>1, <2>2, Zenon DEF PendingFree, Granted, Served, Moves
  <2>4. \A d \in Client, x \in Nat : Claims(d, x)' => Claims(d, x)
    BY <2>1, <2>3, Zenon DEF Claims
  <2> QED BY <2>1, <2>3, <2>4, Zenon DEF IInv, Owns
<1>7. NoThrow'
  BY Zenon DEF IInv, NoThrow, MoveDone, ServerGoto
<1> QED BY <1>1, <1>2, <1>3, <1>4, <1>5, <1>6, <1>7, Zenon DEF IInv

\* The server unlocks data_cmd_recieve_resp_lock for the client that waits.
LEMMA ReplyStep ==
  ASSUME IInv, Reply
  PROVE IInv'
<1>1. Types'
  BY Zenon DEF IInv, Types, Reply, ServerGoto, clients
<1>2. OneMapping'
  BY Zenon DEF IInv, OneMapping, Reply, ServerGoto
<1>3. OneCaller'
  BY Zenon DEF IInv, OneCaller, InCall, Reply, ServerGoto, clients
<1>4. Handshake'
  BY Zenon DEF IInv, Working, Handshake, Reply, ServerGoto, clients
<1>5. Args'
  BY Zenon DEF IInv, Args, Asked, Answered, Served, MoveAddr, StartingAt, Reply, ServerGoto, args,
     clients
<1>6. Owns'
  <2>1. UNCHANGED << bufs, call, pc, op_argument, mappings >> /\ (Served' <=> Served)
    BY Zenon DEF IInv, Handshake, Working, Served, Reply, ServerGoto, file, locks, args, clients
  <2> QED BY <2>1, OwnsKept, Zenon
<1>7. NoThrow'
  BY Zenon DEF IInv, NoThrow, Reply, ServerGoto
<1> QED BY <1>1, <1>2, <1>3, <1>4, <1>5, <1>6, <1>7, Zenon DEF IInv

\* IInv is about the file, the server's mappings and the clients only.
LEMMA Unchanged ==
  ASSUME IInv, UNCHANGED << file, server, clients >>
  PROVE IInv'
<1>1. Types' /\ OneMapping'
  BY Zenon DEF IInv, Types, OneMapping, file, locks, server, clients
<1>2. OneCaller' /\ Handshake' /\ NoThrow'
  BY Zenon DEF IInv, OneCaller, InCall, Handshake, NoThrow, file, locks, args, server, clients
<1>3. Args'
  BY Zenon DEF IInv, Args, Asked, Answered, Served, MoveAddr, StartingAt, file, locks, args, server,
     clients
<1>4. Owns'
  <2>1. UNCHANGED << bufs, call, pc, op_argument, mappings >> /\ (Served' <=> Served)
    BY Zenon DEF Served, file, locks, args, server, clients
  <2> QED BY <2>1, OwnsKept, Zenon
<1> QED BY <1>1, <1>2, <1>3, <1>4, Zenon DEF IInv

\* A step of the simulator changes neither the file nor what clients hold.
LEMMA SimStep ==
  ASSUME IInv, DmaStart \/ DmaBeat \/ DmaResponse
  PROVE IInv'
<1>1. UNCHANGED << file, server, clients >>
  BY Zenon DEF DmaStart, DmaBeat, DmaResponse
<1> QED BY <1>1, Unchanged, Zenon

\* Every step preserves the invariant.
LEMMA NextStep ==
  ASSUME IInv, [Next]_vars
  PROVE IInv'
<1>1. CASE ServerNext
  BY <1>1, StartStep, WakeStep, AllocStep, UnmapStep, StartMoveStep, IssueStep, BurstDoneStep,
     MoveDoneStep, ReplyStep DEF ServerNext
<1>2. CASE SimNext
  BY <1>2, SimStep, Zenon DEF SimNext
<1>3. CASE \E c \in Client : ClientNext(c)
  BY <1>3, MallocStep, CopyStep, FreeStep, LockStep, SignalStep, ReturnStep, ThrowStep, Zenon
     DEF ClientNext, ClientStep
<1>4. CASE Finished \/ UNCHANGED vars
  BY <1>4, Unchanged, Zenon DEF Finished, vars
<1> QED BY <1>1, <1>2, <1>3, <1>4, Zenon DEF Next

-----------------------------------------------------------------------------

\* The inductive invariant of the data path: one caller, whose arguments the
\* server sees and whose result it returns, and mappings with one owner each.
THEOREM CallsOwned == Spec => []IInv
<1>1. Init => IInv
  <2> SUFFICES ASSUME Init PROVE IInv
    BY Zenon
  <2>1. Types
    BY Zenon DEF Init, Types, Ops, Moves, Working, Mapping, Call
  <2>2. OneMapping /\ OneCaller /\ NoThrow
    BY Zenon DEF Init, OneMapping, OneCaller, InCall, NoThrow
  <2>3. Handshake
    BY Zenon DEF Init, Handshake, Working
  <2>4. Args
    BY Zenon DEF Init, Args
  <2>5. Owns
    BY Zenon DEF Init, Owns, PendingFree, Granted, Claims
  <2> QED BY <2>1, <2>2, <2>3, <2>4, <2>5, Zenon DEF IInv
<1>2. IInv /\ [Next]_vars => IInv'
  BY NextStep, Zenon
<1> QED BY <1>1, <1>2, PTL DEF Spec

\* Whatever clients do with their own buffers, each buffer that one holds is
\* mapped by the server with its length and file.
THEOREM MappedSafety == Spec => []BuffersMapped
<1>1. IInv => BuffersMapped
  BY Zenon DEF IInv, Owns, BuffersMapped, Live
<1> QED BY <1>1, CallsOwned, PTL

\* No call of a client on its own buffers makes address_translator throw.
THEOREM ThrowSafety == Spec => []NoThrow
<1>1. IInv => NoThrow
  BY Zenon DEF IInv
<1> QED BY <1>1, CallsOwned, PTL

\* What the server replies to is the call of the client that waits.
THEOREM AnswerSafety == Spec => []AnswersCaller
<1>1. ASSUME IInv, pc_server = "reply"
      PROVE \E c \in Client : pc[c] = "response" /\ Answered(c)
  BY <1>1, Zenon DEF IInv, Handshake, Working, Args, Served
<1>2. IInv => AnswersCaller
  <2> SUFFICES ASSUME IInv, pc_server = "reply" PROVE AnswersCaller
    BY Zenon DEF AnswersCaller
  <2>1. PICK c \in Client : pc[c] = "response" /\ Answered(c)
    BY <1>1, Zenon
  <2>2. operation \in Ops
    BY <2>1, Zenon DEF Answered, IInv, Types
  <2> QED BY <2>1, <2>2, Zenon DEF AnswersCaller, Answered, Ops, Moves
<1> QED BY <1>2, CallsOwned, PTL
=============================================================================
