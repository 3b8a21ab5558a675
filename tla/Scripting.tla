----------------------------- MODULE Scripting ------------------------------
(***************************************************************************)
(* Lua scripts: one interpreter for all workers, under g_lua_mutex, and    *)
(* the table of script texts, under m_scripts_lock.  A script that runs    *)
(* beyond its time lets its worker handle other requests from inside the   *)
(* interpreter's hook (Continue), so the commands of a worker are a stack. *)
(*                                                                         *)
(* Each client waits for its answer before it sends the next request.      *)
(***************************************************************************)
EXTENDS Naturals, Sequences, FiniteSets

CONSTANTS
  Clients, Workers, NULL,
  Worker,          \* Worker[c]: whose loop has the connection of client c
  Scripts,
  Broken,          \* the scripts that do not compile
  Endless,         \* the scripts that return only when they are killed
  Catching,        \* the scripts that may catch an error with Lua's pcall
  Rewriting,       \* the scripts with a SPOP, INCRBYFLOAT or other command that
                   \* is logged as another
  Requests,        \* Requests[c]: what client c sends, records of an op and a script
  MaxCommands,     \* bound
  MaxCloses        \* bound

ASSUME ScriptingAssumption ==
  /\ NULL \notin Clients /\ NULL \notin Scripts
  /\ Worker \in [Clients -> Workers]
  /\ UNION {Broken, Endless, Catching, Rewriting} \subseteq Scripts
  /\ \A c \in Clients :
       Requests[c] \subseteq [op : {"eval", "load"}, script : Scripts]
                      \cup [op : {"evalsha"}, script : Scripts \cup {NULL}]
                      \cup [op : {"kill"}, script : Scripts \cup {"all"}]
                      \cup [op : {"flush"}, script : {NULL}]

VARIABLES
  m_lua_scripts,       \* the table: <<"sha", s>> from EVAL, <<"f_", s>> from CreateLuaFunction
  m_scripts_lock,      \* the client whose command holds it, or NULL
  g_lua_mutex,         \* the client whose command holds it, or NULL
  functions,           \* the functions defined in the interpreter
  g_local_ctx,         \* of each thread: the context of the last Eval, or NULL
  hook_ctx,            \* of each thread: the context MaskCountHook has read
  lua_executing_func, lua_timeout, lua_kill,   \* LUAContext of each client
  m_killing_func,
  signals,             \* SCRIPT_KILL_EVENTs in the pipe of each worker
  stack,               \* the commands each worker is in, the innermost first
  current_cmd, step,   \* of each client: its command and where it is in it
  data_change,         \* the contexts with the flag set
  wal,                 \* the records written to the log
  closed,              \* the clients whose channel is deleted
  server, sent,
  rewritten,           \* whose EVAL a command of the script has put another for
  wrote, diverted      \* history: whose script has written, and whose script
                       \* was running when its worker got a digest that is none

contextVars == <<lua_executing_func, lua_timeout, lua_kill>>
lockVars == <<m_scripts_lock, g_lua_mutex>>
luaVars == <<m_lua_scripts, functions, lockVars>>
killVars == <<m_killing_func, signals>>
threadVars == <<g_local_ctx, hook_ctx>>
scriptVars == <<rewritten, wrote, diverted>>
envVars == <<closed, server, sent>>
vars == <<luaVars, threadVars, contextVars, killVars, stack, current_cmd, step, data_change,
          wal, scriptVars, envVars>>

Init ==
  /\ m_lua_scripts = {} /\ functions = {}
  /\ m_scripts_lock = NULL /\ g_lua_mutex = NULL
  /\ g_local_ctx = [w \in Workers |-> NULL] /\ hook_ctx = [w \in Workers |-> NULL]
  /\ lua_executing_func = [c \in Clients |-> NULL] /\ lua_timeout = {} /\ lua_kill = {}
  /\ m_killing_func = NULL /\ signals = [w \in Workers |-> 0]
  /\ stack = [w \in Workers |-> <<>>]
  /\ current_cmd = [c \in Clients |-> NULL] /\ step = [c \in Clients |-> "idle"]
  /\ data_change = {} /\ wal = <<>>
  /\ closed = {} /\ server = "up" /\ sent = 0
  /\ rewritten = {} /\ wrote = {} /\ diverted = {}
-----------------------------------------------------------------------------
(***************************************************************************)
(* Commands and the loops that call them.                                  *)
(***************************************************************************)
\* The loop of w runs, by itself or inside the hook of a script.
InLoop(w) == stack[w] # <<>> => step[Head(stack[w])] = "hook"

\* What c does next is done by its worker.
At(c, place) == step[c] = place /\ stack[Worker[c]] # <<>> /\ Head(stack[Worker[c]]) = c
Goto(c, place) == step' = [step EXCEPT ![c] = place] /\ UNCHANGED stack

Op(c) == current_cmd[c].op
Script(c) == current_cmd[c].script

\* MessageReceived and Call, up to the handler.
Call(c, r) ==
  /\ step[c] = "idle" /\ c \notin closed /\ InLoop(Worker[c])
  /\ sent < MaxCommands /\ sent' = sent + 1
  /\ current_cmd' = [current_cmd EXCEPT ![c] = r]
  /\ stack' = [stack EXCEPT ![Worker[c]] = <<c>> \o @]
  /\ step' = [step EXCEPT ![c] = "called"]
  /\ data_change' = data_change \ {c}
  /\ rewritten' = rewritten \ {c}
  /\ wrote' = wrote \ {c} /\ diverted' = diverted \ {c}
  /\ UNCHANGED <<luaVars, threadVars, contextVars, killVars, wal, closed, server>>

\* The command is answered.
Finish(c) ==
  /\ stack' = [stack EXCEPT ![Worker[c]] = Tail(@)]
  /\ step' = [step EXCEPT ![c] = "idle"]

\* The peer closes: the context goes with the channel, unless a command of it
\* is under way (m_delete_after_processing).
ChannelClosed(c) ==
  /\ step[c] \in {"idle", "hook"} /\ c \notin closed /\ InLoop(Worker[c])
  /\ Cardinality(closed) < MaxCloses
  /\ closed' = closed \cup {c}
  /\ UNCHANGED <<luaVars, threadVars, contextVars, killVars, stack, current_cmd, step,
                 data_change, wal, scriptVars, server, sent>>

Freed(c) == c \in closed /\ step[c] = "idle"

\* What was freed is read all the same: the process may go on or end.
Use(isFreed) == server' \in IF isFreed THEN {"up", "crashed"} ELSE {"up"}
-----------------------------------------------------------------------------
(***************************************************************************)
(* Eval.                                                                   *)
(***************************************************************************)
\* (mutant of SetLocalContext: only the first script of a thread sets it)
SetLocalContextOnce(c) ==
  g_local_ctx' = [g_local_ctx EXCEPT ![Worker[c]] = IF @ = NULL THEN c ELSE @]

SetLocalContext(c) == g_local_ctx' = [g_local_ctx EXCEPT ![Worker[c]] = c]

\* A digest that is not one is refused, with the context set.
Refuse(c) ==
  /\ At(c, "called") /\ Op(c) = "evalsha" /\ Script(c) = NULL
  /\ SetLocalContext(c)
  /\ Finish(c)
  /\ diverted' = diverted \cup
       {d \in Clients : Worker[d] = Worker[c] /\ lua_executing_func[d] # NULL}
  /\ UNCHANGED <<luaVars, hook_ctx, contextVars, killVars, current_cmd, data_change, wal,
                 rewritten, wrote, envVars>>

\* The text given to EVAL is kept under its digest, without "f_".
Eval(c) ==
  /\ At(c, "called") /\ Op(c) \in {"eval", "evalsha"} /\ Script(c) \in Scripts
  /\ SetLocalContext(c)
  /\ \/ Op(c) = "evalsha" /\ UNCHANGED m_lua_scripts
     \/ /\ Op(c) = "eval" /\ m_scripts_lock = NULL
        /\ m_lua_scripts' = m_lua_scripts \cup {<<"sha", Script(c)>>}
  /\ Goto(c, "locking")
  /\ UNCHANGED <<functions, lockVars, hook_ctx, contextVars, killVars, current_cmd,
                 data_change, wal, scriptVars, envVars>>

Unlock == g_lua_mutex' = NULL

\* lua_pcall, with what is set before it.
Start(c) ==
  /\ lua_executing_func' = [lua_executing_func EXCEPT ![c] = Script(c)]
  /\ lua_kill' = lua_kill \ {c}
  /\ Goto(c, "running")

\* LockGuard(g_lua_mutex): the mutex is not recursive.
Lock(c) ==
  /\ At(c, "locking") /\ g_lua_mutex = NULL
  /\ g_lua_mutex' = c
  /\ \/ Script(c) \in functions /\ Start(c)
     \/ /\ Script(c) \notin functions
        /\ Goto(c, IF Op(c) = "evalsha" THEN "getting" ELSE "creating")
        /\ UNCHANGED <<lua_executing_func, lua_kill>>
  /\ UNCHANGED <<m_lua_scripts, functions, m_scripts_lock, threadVars, lua_timeout, killVars,
                 current_cmd, data_change, wal, scriptVars, envVars>>

\* (mutant of GetScript: NOSCRIPT is answered with the mutex held)
GetScriptLocked(c) ==
  /\ At(c, "getting") /\ m_scripts_lock = NULL
  /\ \/ <<"f_", Script(c)>> \in m_lua_scripts /\ Goto(c, "creating")
     \/ <<"f_", Script(c)>> \notin m_lua_scripts /\ Finish(c)
  /\ UNCHANGED <<luaVars, threadVars, contextVars, killVars, current_cmd, data_change, wal,
                 scriptVars, envVars>>

\* EVALSHA of what the interpreter does not have.
GetScript(c) ==
  /\ At(c, "getting") /\ m_scripts_lock = NULL
  /\ \/ <<"f_", Script(c)>> \in m_lua_scripts /\ Goto(c, "creating") /\ UNCHANGED g_lua_mutex
     \/ <<"f_", Script(c)>> \notin m_lua_scripts /\ Finish(c) /\ Unlock
  /\ UNCHANGED <<m_lua_scripts, functions, m_scripts_lock, threadVars, contextVars, killVars,
                 current_cmd, data_change, wal, scriptVars, envVars>>

\* The command goes on to CreateLuaFunction without g_lua_mutex.
Load(c) ==
  /\ At(c, "called") /\ Op(c) = "load"
  /\ Goto(c, "creating")
  /\ UNCHANGED <<luaVars, threadVars, contextVars, killVars, current_cmd, data_change, wal,
                 scriptVars, envVars>>

CreateLuaFunction(c) ==
  /\ At(c, "creating")
  /\ \/ /\ Script(c) \in Broken
        /\ Finish(c)
        /\ IF g_lua_mutex = c THEN Unlock ELSE UNCHANGED g_lua_mutex
        /\ UNCHANGED functions
     \/ /\ Script(c) \notin Broken
        /\ functions' = functions \cup {Script(c)}
        /\ Goto(c, "saving")
        /\ UNCHANGED g_lua_mutex
  /\ UNCHANGED <<m_lua_scripts, m_scripts_lock, threadVars, contextVars, killVars,
                 current_cmd, data_change, wal, scriptVars, envVars>>

SaveScript(c) ==
  /\ At(c, "saving") /\ m_scripts_lock = NULL
  /\ m_lua_scripts' = m_lua_scripts \cup {<<"f_", Script(c)>>}
  /\ \/ Op(c) = "load" /\ Finish(c) /\ UNCHANGED <<lua_executing_func, lua_kill>>
     \/ Op(c) # "load" /\ Start(c)
  /\ UNCHANGED <<functions, lockVars, threadVars, lua_timeout, killVars, current_cmd,
                 data_change, wal, scriptVars, envVars>>
-----------------------------------------------------------------------------
(***************************************************************************)
(* A script that runs.                                                     *)
(***************************************************************************)
\* redis.call of a command that writes, in the context the thread has kept.  One
\* that is logged as another takes the place of that context's command, the EVAL,
\* or of the frame that a command which has ended had on the stack.
CallComms(c) ==
  /\ At(c, "running")
  /\ LET d == g_local_ctx[Worker[c]]
     IN  /\ data_change' = data_change \cup {d}
         /\ \/ rewritten' = rewritten /\ Use(Freed(d))
            \/ /\ Script(c) \in Rewriting
               /\ rewritten' = rewritten \cup {d} /\ Use(step[d] = "idle")
  /\ wrote' = wrote \cup {c}
  /\ UNCHANGED <<luaVars, threadVars, contextVars, killVars, stack, current_cmd, step, wal,
                 diverted, closed, sent>>

\* The time is over: the loop runs inside the hook.
MaskCountHook(c) ==
  /\ At(c, "running")
  /\ LET d == g_local_ctx[Worker[c]]
     IN  /\ hook_ctx' = [hook_ctx EXCEPT ![Worker[c]] = d]
         /\ lua_timeout' = lua_timeout \cup {d}
         /\ Use(d \in closed)
  /\ Goto(c, "hook")
  /\ UNCHANGED <<luaVars, g_local_ctx, lua_executing_func, lua_kill, killVars, current_cmd,
                 data_change, wal, scriptVars, closed, sent>>

\* lua_pcall returns.
Return(c) ==
  /\ lua_executing_func' = [lua_executing_func EXCEPT ![c] = NULL]
  /\ lua_timeout' = lua_timeout \ {c}
  /\ Unlock
  /\ Goto(c, "logging")


\* A kill is an error of Lua at the place where the script is.
HookReturns(c) ==
  /\ At(c, "hook")
  /\ LET d == hook_ctx[Worker[c]]
     IN  /\ Use(Freed(d))
         /\ \/ d \in lua_kill /\ Return(c)
            \/ /\ d \notin lua_kill \/ Freed(d) \/ Script(c) \in Catching
               /\ Goto(c, "running")
               /\ UNCHANGED <<lua_executing_func, lua_timeout, g_lua_mutex>>
  /\ hook_ctx' = [hook_ctx EXCEPT ![Worker[c]] = NULL]
  /\ UNCHANGED <<m_lua_scripts, functions, m_scripts_lock, g_local_ctx, lua_kill, killVars,
                 current_cmd, data_change, wal, scriptVars, closed, sent>>

ScriptReturns(c) ==
  /\ At(c, "running") /\ Script(c) \notin Endless
  /\ Return(c)
  /\ UNCHANGED <<m_lua_scripts, functions, m_scripts_lock, threadVars, lua_kill, killVars,
                 current_cmd, data_change, wal, scriptVars, envVars>>

Rewritten == [op |-> "rewritten", script |-> NULL]

\* The log gets the context's command.  EVALSHA has made it EVAL, if the text is
\* found without "f_".
Record(c) ==
  IF c \in rewritten THEN Rewritten
  ELSE IF Op(c) = "evalsha" /\ <<"sha", Script(c)>> \in m_lua_scripts
       THEN [op |-> "eval", script |-> Script(c)]
       ELSE current_cmd[c]

\* The rest of EvalSHA and of Call.
WriteWAL(c) ==
  /\ At(c, "logging")
  /\ \/ c \notin data_change /\ UNCHANGED wal
     \/ /\ c \in data_change
        /\ Op(c) = "evalsha" => m_scripts_lock = NULL
        /\ wal' = Append(wal, Record(c))
  /\ Finish(c)
  /\ UNCHANGED <<luaVars, threadVars, contextVars, killVars, current_cmd, data_change,
                 scriptVars, envVars>>
-----------------------------------------------------------------------------
(***************************************************************************)
(* SCRIPT FLUSH and SCRIPT KILL.                                           *)
(***************************************************************************)
FlushScripts(c) ==
  /\ At(c, "called") /\ Op(c) = "flush" /\ m_scripts_lock = NULL
  /\ m_scripts_lock' = c
  /\ m_lua_scripts' = {}
  /\ Goto(c, "flushing")
  /\ UNCHANGED <<functions, g_lua_mutex, threadVars, contextVars, killVars, current_cmd,
                 data_change, wal, scriptVars, envVars>>

Reset(c) ==
  /\ At(c, "flushing") /\ g_lua_mutex = NULL
  /\ g_lua_mutex' = c
  /\ Goto(c, "resetting")
  /\ UNCHANGED <<m_lua_scripts, functions, m_scripts_lock, threadVars, contextVars, killVars,
                 current_cmd, data_change, wal, scriptVars, envVars>>

\* (mutant of FlushEnds: the interpreter keeps its functions)
FlushEndsKept(c) ==
  /\ At(c, "resetting")
  /\ Unlock /\ m_scripts_lock' = NULL
  /\ Finish(c)
  /\ UNCHANGED <<functions, m_lua_scripts, threadVars, contextVars, killVars, current_cmd,
                 data_change, wal, scriptVars, envVars>>

FlushEnds(c) ==
  /\ At(c, "resetting")
  /\ functions' = {}
  /\ Unlock /\ m_scripts_lock' = NULL
  /\ Finish(c)
  /\ UNCHANGED <<m_lua_scripts, threadVars, contextVars, killVars, current_cmd, data_change,
                 wal, scriptVars, envVars>>

\* Script, up to the assignment of m_killing_func, which no lock protects.
Kill(c) ==
  /\ At(c, "called") /\ Op(c) = "kill"
  /\ Goto(c, "killing")
  /\ UNCHANGED <<luaVars, threadVars, contextVars, killVars, current_cmd, data_change, wal,
                 scriptVars, envVars>>

\* The event goes to the loop of this client's worker: it has no sub pool.
FireUserEvent(c) ==
  /\ At(c, "killing")
  /\ m_killing_func' = Script(c)
  /\ signals' = [signals EXCEPT ![Worker[c]] = @ + 1]
  /\ Finish(c)
  /\ UNCHANGED <<luaVars, threadVars, contextVars, current_cmd, data_change, wal,
                 scriptVars, envVars>>

Named(c) == lua_executing_func[c] # NULL /\ m_killing_func \in {"all", lua_executing_func[c]}

ScriptEventCallback(w) ==
  /\ InLoop(w) /\ signals[w] > 0
  /\ signals' = [signals EXCEPT ![w] = @ - 1]
  /\ LET d == g_local_ctx[w]
     IN  /\ Use(d # NULL /\ Freed(d))
         /\ lua_kill' \in {IF d # NULL /\ Named(d) THEN lua_kill \cup {d} ELSE lua_kill}
                          \cup {lua_kill : c \in {c \in Clients : step[c] = "killing"}}
  /\ UNCHANGED <<luaVars, threadVars, lua_executing_func, lua_timeout, m_killing_func, stack,
                 current_cmd, step, data_change, wal, scriptVars, closed, sent>>

\* Two threads in the interpreter, or two that assign m_killing_func.
InLua(c) == step[c] \in {"creating", "running", "hook", "resetting"}

Collide ==
  /\ \E c, d \in Clients :
       /\ Worker[c] # Worker[d]
       /\ \/ InLua(c) /\ InLua(d)
          \/ step[c] = "killing" /\ step[d] = "killing"
  /\ server' = "crashed"
  /\ UNCHANGED <<luaVars, threadVars, contextVars, killVars, stack, current_cmd, step,
                 data_change, wal, scriptVars, closed, sent>>
-----------------------------------------------------------------------------
\* The steps of a command that its worker takes by itself.
Proceed(c) ==
  \/ Refuse(c) \/ Eval(c) \/ Lock(c) \/ GetScript(c) \/ Load(c) \/ CreateLuaFunction(c)
  \/ SaveScript(c) \/ WriteWAL(c) \/ FlushScripts(c) \/ Reset(c) \/ FlushEnds(c)
  \/ Kill(c) \/ FireUserEvent(c) \/ HookReturns(c)

Next ==
  /\ server = "up"
  /\ \/ \E c \in Clients :
          \/ \E r \in Requests[c] : Call(c, r)
          \/ ChannelClosed(c) \/ Proceed(c)
          \/ CallComms(c) \/ MaskCountHook(c) \/ ScriptReturns(c)
     \/ \E w \in Workers : ScriptEventCallback(w)
     \/ Collide

\* Threads run.  A script calls its hook again and again; one that is not
\* endless returns however often the hook is called, and the loop in the hook
\* handles every descriptor that is ready.
Fairness ==
  /\ \A w \in Workers :
       /\ WF_vars(server = "up" /\ \E c \in Clients : Worker[c] = w /\ Proceed(c))
       /\ SF_vars(server = "up" /\ ScriptEventCallback(w))
  /\ WF_vars(server = "up" /\ \E c \in Clients : MaskCountHook(c))
  /\ SF_vars(server = "up" /\ \E c \in Clients : ScriptReturns(c))

Spec == Init /\ [][Next]_vars /\ Fairness
-----------------------------------------------------------------------------
(***************************************************************************)
(* Properties.                                                             *)
(***************************************************************************)
Steps == {"idle", "called", "locking", "getting", "creating", "saving", "running", "hook",
          "logging", "flushing", "resetting", "killing"}

Asks == UNION {Requests[c] : c \in Clients}
LogRecords == [op : {"eval", "evalsha"}, script : Scripts] \cup {Rewritten}

TypeOK ==
  /\ m_lua_scripts \subseteq {"sha", "f_"} \X Scripts
  /\ functions \subseteq Scripts \ Broken
  /\ m_scripts_lock \in Clients \cup {NULL} /\ g_lua_mutex \in Clients \cup {NULL}
  /\ g_local_ctx \in [Workers -> Clients \cup {NULL}]
  /\ hook_ctx \in [Workers -> Clients \cup {NULL}]
  /\ lua_executing_func \in [Clients -> Scripts \cup {NULL}]
  /\ lua_timeout \subseteq Clients /\ lua_kill \subseteq Clients
  /\ m_killing_func \in Scripts \cup {NULL, "all"} /\ signals \in [Workers -> Nat]
  /\ stack \in [Workers -> Seq(Clients)] /\ step \in [Clients -> Steps]
  /\ current_cmd \in [Clients -> Asks \cup {NULL}]
  /\ data_change \subseteq Clients /\ wal \in Seq(LogRecords)
  /\ closed \subseteq Clients /\ server \in {"up", "crashed"}
  /\ rewritten \subseteq Clients /\ wrote \subseteq Clients /\ diverted \subseteq Clients

\* What SCRIPT EXISTS denies EVALSHA does not run: a function of the
\* interpreter is in the table, or about to be, or about to be flushed, however
\* FLUSH, LOAD and EVAL of several workers mix (CreateLuaFunction, FlushScripts).
Known ==
  \A s \in functions :
    \/ <<"f_", s>> \in m_lua_scripts
    \/ \E c \in Clients : step[c] = "saving" /\ Script(c) = s
    \/ \E c \in Clients : step[c] \in {"flushing", "resetting"}

\* A script that has written is one record of the log when its command ends,
\* returned or killed and whatever its worker did in the hook.  There are two
\* exceptions.  When its worker has refused a digest, the writes count for the
\* refused client's context.  When a command of the script is logged as another,
\* the record is that other one, and the script's other writes are in no record
\* (CallComms, RewriteClientCommand, EvalSHA, Comms::Call).
StandsFor(r, c) ==
  \/ /\ r.script = Script(c) /\ r.op \in {"eval", "evalsha"}
     /\ Op(c) = "eval" => r.op = "eval"
  \/ c \in rewritten /\ r = Rewritten

WritesLogged ==
  [][\A c \in Clients :
       step[c] # "idle" /\ step'[c] = "idle" /\ c \in wrote \ diverted
         => \E r \in LogRecords : wal' = Append(wal, r) /\ StandsFor(r, c)]_vars

\* Whoever the mutex waits for is in turn waiting: the command its worker is
\* in wants the mutex too, or wants the table that a FLUSH holds while it
\* waits for the mutex.
Hung ==
  /\ g_lua_mutex # NULL /\ stack[Worker[g_lua_mutex]] # <<>>
  /\ LET t == Head(stack[Worker[g_lua_mutex]])
     IN  \/ step[t] \in {"locking", "flushing"}
         \/ /\ m_scripts_lock # NULL /\ step[m_scripts_lock] = "flushing"
            /\ \/ step[t] \in {"getting", "saving"}
               \/ step[t] = "called" /\ Op(t) \in {"eval", "flush"}

\* The commands of a worker end, unless a script does not: the two circles of
\* Hung are the only other thing that keeps them (g_lua_mutex, m_scripts_lock).
Ends ==
  \A w \in Workers :
    stack[w] # <<>> ~> \/ stack[w] = <<>> \/ Hung \/ server = "crashed"
                       \/ \E c \in Clients : lua_executing_func[c] \in Endless

Doomed(c) == Named(c) /\ signals[Worker[c]] > 0 /\ c \in lua_timeout


\* The script cache and the interpreter belong together, whoever loads, runs
\* and flushes at the time.
ScriptsConsistent == TypeOK /\ Known
=============================================================================
