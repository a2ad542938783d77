---------------------------- MODULE McpUpstream ----------------------------
(* MCPStdioClient and MCPTool (mcp/upstream.py): executor threads share    *)
(* one MCP server process over its pipes.  A lock admits one request at a  *)
(* time, a reader thread per process hands each reply to the waiter with   *)
(* its id, and a process that is gone is replaced by the next request.     *)
(*                                                                         *)
(* The server is external: it may be slow, silent, or exit at any point,   *)
(* and says "done" only of a call it has performed.                        *)
EXTENDS Naturals, Sequences, FiniteSets

CONSTANTS
    Calls,        \* tools/call requests, one executor thread each
    Listings,     \* tools/list requests of the gateway, one thread each
    None,
    PipeRoom,     \* messages that fit in the pipe to a server
    MaxDeaths,    \* bound: processes that exit, are killed or closed
    MaxAsides     \* bound: lines a server writes unasked

Callers == Calls \cup Listings

ASSUME Pipes ==
    /\ Calls \cap Listings = {}
    /\ None \notin Callers \cup {"asked", "failed", "listed"} /\ "initialize" \notin Callers
    /\ PipeRoom \in Nat \ {0}
    /\ MaxDeaths \in Nat
    /\ MaxAsides \in Nat

Procs == 1 .. MaxDeaths + 1

VARIABLES
    lock,         \* MCPStdioClient._lock
    pc,           \* where each caller is in request() or tools()
    op,           \* what a caller's present request is: initialize or its own
    rid,          \* the id of that request
    told,         \* how its call ended
    listed,       \* the process whose catalogue a listing was given
    proc,         \* MCPStdioClient._proc, 0 for None
    life,         \* each process: "unborn", "alive" or "dead"
    next_id, pending, tools,    \* the fields of those names; tools is the
                                \* process whose catalogue is cached, or 0
    box,          \* the content of each waiter, a queue of one place
    reader,       \* each process's reader thread
    stdin, stdout,
    handling,     \* requests a server has read and not answered
    effects,      \* how often each call was performed
    asides,
    outlived      \* processes whose reader saw the end of its process only
                  \* after another process had been started

clientVars == <<lock, pc, op, rid, told, listed, proc, next_id, tools>>
pipeVars == <<life, stdin, stdout, handling, effects, asides>>
waiterVars == <<pending, box, reader, outlived>>
vars == <<clientVars, pipeVars, waiterVars>>

Idle == [at |-> "idle", to |-> {}, reply |-> None]

(* MCPStdioClient.__init__ *)
Init ==
    /\ lock = None
    /\ pc = [c \in Callers |-> "idle"]
    /\ op = [c \in Callers |-> "initialize"]
    /\ rid = [c \in Callers |-> 0]
    /\ told = [c \in Callers |-> None]
    /\ listed = [c \in Listings |-> 0]
    /\ proc = 0
    /\ life = [p \in Procs |-> "unborn"]
    /\ next_id = 0
    /\ pending = {}
    /\ tools = 0
    /\ box = <<>>
    /\ reader = [p \in Procs |-> Idle]
    /\ stdin = [p \in Procs |-> <<>>]
    /\ stdout = [p \in Procs |-> <<>>]
    /\ handling = [p \in Procs |-> {}]
    /\ effects = [c \in Calls |-> 0]
    /\ asides = 0
    /\ outlived = {}

----------------------------------------------------------------------------
(* The calling thread.  What it raises reaches the executor, or metadata   *)
(* for the gateway: the call failed.  `with self._lock` releases.          *)

Goto(c, where) == pc' = [pc EXCEPT ![c] = where]

Raise(c) ==
    /\ Goto(c, "done")
    /\ told' = [told EXCEPT ![c] = "failed"]
    /\ lock' = None

Begin(c) ==
    /\ pc[c] = "idle"
    /\ \/ /\ c \in Calls \/ tools = 0
          /\ Goto(c, "acquire")
          /\ UNCHANGED told
       \/ /\ c \in Listings /\ tools # 0
          /\ Goto(c, "done")
          /\ told' = [told EXCEPT ![c] = "listed"]
    /\ UNCHANGED <<lock, op, rid, listed, proc, next_id, tools, pipeVars, waiterVars>>

Acquire(c) ==
    /\ pc[c] = "acquire"
    /\ lock = None
    /\ lock' = c
    /\ Goto(c, "ensure")
    /\ UNCHANGED <<op, rid, told, listed, proc, next_id, tools, pipeVars, waiterVars>>

Running == proc # 0 /\ life[proc] = "alive"

(* _ensure: the process is running. *)
EnsureRunning(c) ==
    /\ pc[c] = "ensure"
    /\ Running
    /\ op' = [op EXCEPT ![c] = c]
    /\ Goto(c, "register")
    /\ UNCHANGED <<lock, rid, told, listed, proc, next_id, tools, pipeVars, waiterVars>>

Unborn == {p \in Procs : life[p] = "unborn"}
Newest == CHOOSE p \in Unborn : \A q \in Unborn : p <= q

(* _ensure: start a process and its reader, forget the waiters of the one  *)
(* before and its catalogue, and introduce ourselves.                      *)
StartProcess(c, waiters, lastId) ==
    /\ pc[c] = "ensure"
    /\ ~Running
    /\ LET p == Newest
       IN  /\ proc' = p
           /\ life' = [life EXCEPT ![p] = "alive"]
           /\ reader' = [reader EXCEPT ![p] = [Idle EXCEPT !.at = "reading"]]
    /\ pending' = waiters
    /\ next_id' = lastId
    /\ tools' = 0
    /\ op' = [op EXCEPT ![c] = "initialize"]
    /\ Goto(c, "register")
    /\ UNCHANGED <<lock, rid, told, listed, stdin, stdout, handling, effects, asides, box, outlived>>

(* Mistake: the waiters of the last process are kept. *)
LaunchKeepingWaiters(c) == StartProcess(c, pending, next_id)

Launch(c) == StartProcess(c, {}, next_id)

(* _ensure: the command cannot be started. *)
LaunchFails(c) ==
    /\ pc[c] = "ensure"
    /\ ~Running
    /\ Raise(c)
    /\ UNCHANGED <<op, rid, listed, proc, next_id, tools, pipeVars, waiterVars>>

(* _request_locked: a waiter under a new id.  If the send then raises, it  *)
(* stays in pending.                                                       *)
Register(c) ==
    /\ pc[c] = "register"
    /\ next_id' = next_id + 1
    /\ rid' = [rid EXCEPT ![c] = next_id']
    /\ pending' = pending \cup {next_id'}
    /\ box' = [i \in 1 .. next_id' |-> IF i = next_id' THEN None ELSE box[i]]
    /\ Goto(c, "send")
    /\ UNCHANGED <<lock, op, told, listed, proc, tools, pipeVars, reader, outlived>>

(* _send: a write to the pipe of the present process waits for room, and   *)
(* raises if nobody holds the other end.                                   *)
Writable(p) == life[p] = "alive" /\ Len(stdin[p]) < PipeRoom
Write(p, id, what) == stdin' = [stdin EXCEPT ![p] = Append(@, [id |-> id, op |-> what])]

Send(c) ==
    /\ pc[c] = "send"
    /\ \/ /\ Writable(proc)
          /\ Write(proc, rid[c], op[c])
          /\ Goto(c, "wait")
          /\ UNCHANGED <<lock, told>>
       \/ /\ life[proc] = "dead"
          /\ Raise(c)
          /\ UNCHANGED stdin
    /\ UNCHANGED <<op, rid, listed, proc, next_id, tools, life, stdout, handling, effects, asides, waiterVars>>

(* request returns: the result of tools/call goes to the executor; a       *)
(* listing is stored after the lock is released.                           *)
Return(c, reply) ==
    /\ lock' = None
    /\ IF c \in Calls
       THEN Goto(c, "done") /\ told' = [told EXCEPT ![c] = reply.of] /\ UNCHANGED listed
       ELSE Goto(c, "store") /\ listed' = [listed EXCEPT ![c] = proc] /\ UNCHANGED told

(* waiter.get returns. *)
Get(c) ==
    /\ pc[c] = "wait"
    /\ box[rid[c]] # None
    /\ LET reply == box[rid[c]] IN
          \/ ~reply.ok /\ Raise(c) /\ UNCHANGED listed
          \/ reply.ok /\ op[c] = "initialize" /\ Goto(c, "initialized") /\ UNCHANGED <<lock, told, listed>>
          \/ reply.ok /\ op[c] # "initialize" /\ Return(c, reply)
    /\ box' = [box EXCEPT ![rid[c]] = None]
    /\ UNCHANGED <<op, rid, proc, next_id, tools, pipeVars, pending, reader, outlived>>

(* waiter.get times out: nobody waits under that id any more. *)
Forget(c) ==
    /\ pc[c] = "wait"
    /\ box[rid[c]] = None
    /\ pending' = pending \ {rid[c]}
    /\ UNCHANGED <<op, rid, listed, proc, next_id, tools, pipeVars, box, reader, outlived>>

(* Mistake: the request is sent once more. *)
TimeOutAndRetry(c) == Forget(c) /\ Goto(c, "register") /\ UNCHANGED <<lock, told>>

TimeOut(c) == Forget(c) /\ Raise(c)

(* _ensure, after initialize was answered; then request's own request. *)
SendInitialized(c) ==
    /\ pc[c] = "initialized"
    /\ \/ /\ Writable(proc)
          /\ Write(proc, 0, "initialized")
          /\ op' = [op EXCEPT ![c] = c]
          /\ Goto(c, "register")
          /\ UNCHANGED <<lock, told>>
       \/ /\ life[proc] = "dead"
          /\ Raise(c)
          /\ UNCHANGED <<stdin, op>>
    /\ UNCHANGED <<rid, listed, proc, next_id, tools, life, stdout, handling, effects, asides, waiterVars>>

(* tools: `self._tools = listed`, without the lock. *)
StoreTools(c) ==
    /\ pc[c] = "store"
    /\ tools' = listed[c]
    /\ Goto(c, "done")
    /\ told' = [told EXCEPT ![c] = "listed"]
    /\ UNCHANGED <<lock, op, rid, listed, proc, next_id, pipeVars, waiterVars>>

CallerStep(c) ==
    \/ Acquire(c)
    \/ EnsureRunning(c)
    \/ Launch(c)
    \/ LaunchFails(c)
    \/ Register(c)
    \/ Send(c)
    \/ Get(c)
    \/ TimeOut(c)
    \/ SendInitialized(c)
    \/ StoreTools(c)

----------------------------------------------------------------------------
(* _reader, the thread of process p. *)

At(p, where) == reader' = [reader EXCEPT ![p] = [Idle EXCEPT !.at = where]]
NextLine(p) == reader[p].at = "reading" /\ stdout[p] # <<>>
Consume(p) == stdout' = [stdout EXCEPT ![p] = Tail(@)]

(* A line that is no JSON object, or answers an id nobody waits for. *)
Skip(p) ==
    /\ NextLine(p)
    /\ Head(stdout[p]).of # "ask"
    /\ Head(stdout[p]).id \notin pending
    /\ Consume(p)
    /\ UNCHANGED <<clientVars, life, stdin, handling, effects, asides, waiterVars>>

(* A request of the server is refused, on the pipe of whatever process is  *)
(* the present one.  When that raises, the thread ends, and tells nobody.  *)
Refuse(p) ==
    /\ NextLine(p)
    /\ Head(stdout[p]).of = "ask"
    /\ \/ proc # 0 /\ Writable(proc) /\ Write(proc, 0, "refuse") /\ UNCHANGED reader
       \/ ~Running /\ At(p, "done") /\ UNCHANGED stdin
    /\ Consume(p)
    /\ UNCHANGED <<clientVars, life, handling, effects, asides, pending, box, outlived>>

(* The waiter is taken out of pending; the reply is put in a second step. *)
TakeWaiter(p) ==
    /\ NextLine(p)
    /\ LET line == Head(stdout[p])
       IN  /\ line.of # "ask"
           /\ line.id \in pending
           /\ pending' = pending \ {line.id}
           /\ reader' = [reader EXCEPT ![p] = [at |-> "putting", to |-> {line.id}, reply |-> line]]
    /\ Consume(p)
    /\ UNCHANGED <<clientVars, life, stdin, handling, effects, asides, box, outlived>>

Superseded(p) == \E q \in Procs : q > p /\ life[q] # "unborn"

(* The end of the pipe: every waiter that is pending now, whichever        *)
(* process it waits for, is to be told.                                    *)
EndOfPipe(p) ==
    /\ reader[p].at = "reading"
    /\ stdout[p] = <<>>
    /\ life[p] = "dead"
    /\ reader' = [reader EXCEPT ![p] = [at |-> "leaving", to |-> pending,
                                       reply |-> [id |-> 0, of |-> "exited", ok |-> FALSE]]]
    /\ outlived' = IF Superseded(p) THEN outlived \cup {p} ELSE outlived
    /\ UNCHANGED <<clientVars, pipeVars, pending, box>>

(* waiter.put blocks while the waiter is full. *)
Put(p) ==
    /\ reader[p].at \in {"putting", "leaving"}
    /\ \E id \in reader[p].to :
          /\ \A other \in reader[p].to : id <= other
          /\ box[id] = None
          /\ box' = [box EXCEPT ![id] = reader[p].reply]
          /\ IF reader[p].at = "putting" THEN At(p, "reading")
             ELSE reader' = [reader EXCEPT ![p].to = @ \ {id}]
    /\ UNCHANGED <<clientVars, pipeVars, pending, outlived>>

Leave(p) ==
    /\ reader[p].at = "leaving"
    /\ reader[p].to = {}
    /\ At(p, "done")
    /\ UNCHANGED <<clientVars, pipeVars, pending, box, outlived>>

ReaderStep(p) ==
    \/ Skip(p)
    \/ Refuse(p)
    \/ TakeWaiter(p)
    \/ EndOfPipe(p)
    \/ Put(p)
    \/ Leave(p)

----------------------------------------------------------------------------
(* The server process p (external). *)

ServerRead(p) ==
    /\ stdin[p] # <<>>
    /\ stdin' = [stdin EXCEPT ![p] = Tail(@)]
    /\ LET m == Head(stdin[p])
       IN  handling' = [handling EXCEPT ![p] =
                          IF m.id = 0 THEN @ ELSE @ \cup {[id |-> m.id, op |-> m.op, did |-> FALSE]}]
    /\ UNCHANGED <<clientVars, life, stdout, effects, asides, waiterVars>>

ServerPerforms(p) ==
    /\ \E m \in handling[p] :
          /\ m.op \in Calls
          /\ ~m.did
          /\ effects' = [effects EXCEPT ![m.op] = @ + 1]
          /\ handling' = [handling EXCEPT ![p] = (@ \ {m}) \cup {[id |-> m.id, op |-> m.op, did |-> TRUE]}]
    /\ UNCHANGED <<clientVars, life, stdin, stdout, asides, waiterVars>>

ServerAnswers(p) ==
    /\ \E m \in handling[p], ok \in BOOLEAN :
          /\ ok => m.did \/ m.op \notin Calls
          /\ stdout' = [stdout EXCEPT ![p] = Append(@, [id |-> m.id, of |-> m.op, ok |-> ok])]
          /\ handling' = [handling EXCEPT ![p] = @ \ {m}]
    /\ UNCHANGED <<clientVars, life, stdin, effects, asides, waiterVars>>

(* It writes a line that answers nothing, or a request of its own. *)
ServerSpeaks(p) ==
    /\ life[p] = "alive"
    /\ asides < MaxAsides
    /\ asides' = asides + 1
    /\ \E of \in {"noise", "ask"} :
          stdout' = [stdout EXCEPT ![p] = Append(@, [id |-> 0, of |-> of, ok |-> FALSE])]
    /\ UNCHANGED <<clientVars, life, stdin, handling, effects, waiterVars>>

Gone(p) ==
    /\ life[p] = "alive"
    /\ life' = [life EXCEPT ![p] = "dead"]
    /\ stdin' = [stdin EXCEPT ![p] = <<>>]
    /\ handling' = [handling EXCEPT ![p] = {}]

Deaths == Cardinality({p \in Procs : life[p] = "dead"})

Exits(p) ==
    /\ Deaths < MaxDeaths
    /\ Gone(p)
    /\ UNCHANGED <<clientVars, stdout, effects, asides, waiterVars>>

(* close: the process is terminated, or killed after five seconds, while   *)
(* the lock is held.                                                       *)
Close ==
    /\ lock = None
    /\ proc # 0
    /\ proc' = 0
    /\ \/ Deaths < MaxDeaths /\ Gone(proc)
       \/ life[proc] = "dead" /\ UNCHANGED <<life, stdin, handling>>
    /\ UNCHANGED <<lock, pc, op, rid, told, listed, next_id, tools, stdout, effects, asides, waiterVars>>

Next ==
    \/ \E c \in Callers : Begin(c) \/ CallerStep(c)
    \/ \E p \in Procs :
          \/ ReaderStep(p)
          \/ ServerRead(p) \/ ServerPerforms(p) \/ ServerAnswers(p) \/ ServerSpeaks(p)
          \/ Exits(p)
    \/ Close

(* Threads that can run do.  Nothing is assumed of the server but that it  *)
(* keeps reading its input while it lives: the timeout covers the wait for *)
(* a reply, not the write.                                                 *)
Fairness ==
    /\ \A c \in Callers : WF_vars(CallerStep(c))
    /\ \A p \in Procs : WF_vars(ReaderStep(p)) /\ WF_vars(ServerRead(p))

Spec == Init /\ [][Next]_vars /\ Fairness

----------------------------------------------------------------------------
Reply == [id : Nat, of : Callers \cup {"initialize", "ask", "noise", "exited"}, ok : BOOLEAN]

TypeOK ==
    /\ lock \in Callers \cup {None}
    /\ pc \in [Callers -> {"idle", "acquire", "ensure", "register", "send", "wait",
                           "initialized", "store", "done"}]
    /\ op \in [Callers -> Callers \cup {"initialize"}]
    /\ rid \in [Callers -> 0 .. next_id]
    /\ told \in [Callers -> Callers \cup {None, "failed", "listed"}]
    /\ listed \in [Listings -> Procs \cup {0}]
    /\ {proc, tools} \subseteq Procs \cup {0}
    /\ life \in [Procs -> {"unborn", "alive", "dead"}]
    /\ next_id \in Nat
    /\ pending \subseteq 1 .. next_id
    /\ DOMAIN box = 1 .. next_id
    /\ \A i \in DOMAIN box : box[i] \in Reply \cup {None}
    /\ \A p \in Procs : reader[p].to \subseteq DOMAIN box
    /\ effects \in [Calls -> Nat]

(* A call through the client behaves as a remote call: performed at most   *)
(* once, answered with its own answer and only after it was performed,     *)
(* late replies and replaced processes notwithstanding, and always         *)
(* answered or given up (request, _request_locked, _reader).               *)
Remote == INSTANCE RemoteCall WITH
            told <- [c \in Calls |-> IF told[c] = None /\ pc[c] # "idle" THEN "asked" ELSE told[c]]
ImplementsRemoteCall == Remote!Spec

Abandoned(id) == \A c \in Callers : ~(pc[c] = "wait" /\ rid[c] = id)

(* A reader blocks for ever on a waiter nobody empties, and with it every  *)
(* later reply of its process, only if another process's reader outlived   *)
(* that process's replacement (_reader puts into a queue of one place).    *)
BlockedOnlyByOutlived ==
    \A p \in Procs :
       \A id \in reader[p].to :
          box[id] # None /\ Abandoned(id) => outlived # {}
============================================================================
