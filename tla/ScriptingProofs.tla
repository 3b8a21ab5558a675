--------------------------- MODULE ScriptingProofs --------------------------
(***************************************************************************)
(* What Scripting promises of its table, its interpreter and the log, for  *)
(* every set of clients, workers and scripts.                              *)
(***************************************************************************)
EXTENDS Scripting, SequenceTheorems, TLAPS

-----------------------------------------------------------------------------
(***************************************************************************)
(* The inductive invariant.                                                *)
(***************************************************************************)
\* A command that is not inside the hook is the one its worker is in.
Innermost ==
  \A c \in Clients :
    step[c] \notin {"idle", "hook"} => stack[Worker[c]] # <<>> /\ Head(stack[Worker[c]]) = c

\* What a command is about at each step of it.
AskedAt(c) ==
  /\ step[c] # "idle" => current_cmd[c] \in Asks
  /\ step[c] \in {"locking", "getting", "running", "hook", "logging"}
       => Op(c) \in {"eval", "evalsha"} /\ Script(c) \in Scripts
  /\ step[c] \in {"creating", "saving"}
       => Op(c) \in {"eval", "evalsha", "load"} /\ Script(c) \in Scripts
  /\ step[c] = "saving" => Script(c) \notin Broken
  /\ step[c] = "killing" => Op(c) = "kill"
Asked == \A c \in Clients : AskedAt(c)

\* Between Lock and its end, a command that needs it has the mutex.
Locked ==
  \A c \in Clients :
    \/ step[c] \in {"getting", "running", "hook", "resetting"}
    \/ step[c] \in {"creating", "saving"} /\ Op(c) # "load"
    => g_lua_mutex = c

\* A script on its way has a context in its thread, and one that runs is named.
Prepared ==
  \A c \in Clients :
    /\ \/ step[c] \in {"locking", "getting", "running", "hook"}
       \/ step[c] \in {"creating", "saving"} /\ Op(c) # "load"
       => g_local_ctx[Worker[c]] \in Clients
    /\ step[c] \in {"running", "hook"} => lua_executing_func[c] # NULL

\* The context is the script's own, until a digest is refused in its hook, or
\* an EVAL there waits for the mutex, and will wait for good.
OwnAt(c) ==
  /\ \/ step[c] \in {"locking", "getting"}
     \/ step[c] \in {"creating", "saving"} /\ Op(c) # "load"
     \/ step[c] = "running" /\ c \notin diverted
     => g_local_ctx[Worker[c]] = c
  /\ step[c] = "hook" /\ c \notin diverted
     => \/ g_local_ctx[Worker[c]] = c
        \/ /\ stack[Worker[c]] # <<>>
           /\ Head(stack[Worker[c]]) \in Clients /\ step[Head(stack[Worker[c]])] = "locking"
Own == \A c \in Clients : OwnAt(c)

\* What a script has written is noted in its own context.
Noted ==
  \A c \in Clients :
    /\ c \in wrote => step[c] \in {"idle", "running", "hook", "logging"}
    /\ c \in wrote \ diverted /\ step[c] # "idle" => c \in data_change

SInv == TypeOK /\ Known /\ Innermost /\ Asked /\ Locked /\ Prepared /\ Own /\ Noted

-----------------------------------------------------------------------------
\* A command on top of the others.
LEMMA Pushed ==
  ASSUME NEW S, NEW s \in Seq(S), NEW x \in S
  PROVE  <<x>> \o s \in Seq(S) /\ <<x>> \o s # <<>> /\ Head(<<x>> \o s) = x
  OBVIOUS

\* What a client may have asked for.
LEMMA Sendable ==
  ASSUME NEW r \in Asks
  PROVE  /\ r.op \in {"eval", "evalsha", "load", "flush", "kill"}
         /\ r.op \in {"eval", "load"} => r.script \in Scripts
         /\ r.op = "evalsha" => r.script \in Scripts \cup {NULL}
         /\ r.op = "kill" => r.script \in Scripts \cup {"all"}
         /\ r = [op |-> r.op, script |-> r.script]
  BY ScriptingAssumption DEF Asks

\* No script is known, running or asked for at the start.
LEMMA InvInit == Init => SInv
<1> SUFFICES ASSUME Init PROVE SInv
  OBVIOUS
<1>1. TypeOK
  <2>1. <<>> \in Seq(Clients)
    OBVIOUS
  <2>2. <<>> \in Seq(LogRecords)
    OBVIOUS
  <2>3. stack \in [Workers -> Seq(Clients)] /\ wal \in Seq(LogRecords)
    BY <2>1, <2>2 DEF Init
  <2>4. /\ m_lua_scripts \subseteq {"sha", "f_"} \X Scripts
        /\ functions \subseteq Scripts \ Broken
        /\ lua_timeout \subseteq Clients /\ lua_kill \subseteq Clients
        /\ data_change \subseteq Clients /\ closed \subseteq Clients
        /\ rewritten \subseteq Clients /\ wrote \subseteq Clients /\ diverted \subseteq Clients
    BY DEF Init
  <2>5. /\ m_scripts_lock \in Clients \cup {NULL} /\ g_lua_mutex \in Clients \cup {NULL}
        /\ g_local_ctx \in [Workers -> Clients \cup {NULL}]
        /\ hook_ctx \in [Workers -> Clients \cup {NULL}]
        /\ lua_executing_func \in [Clients -> Scripts \cup {NULL}]
        /\ m_killing_func \in Scripts \cup {NULL, "all"} /\ signals \in [Workers -> Nat]
        /\ server \in {"up", "crashed"}
    BY DEF Init
  <2>6. step \in [Clients -> Steps]
    BY DEF Init, Steps
  <2>7. current_cmd \in [Clients -> Asks \cup {NULL}]
    BY DEF Init
  <2> QED
    BY <2>3, <2>4, <2>5, <2>6, <2>7 DEF TypeOK
<1>2. Known /\ Innermost /\ Asked /\ Locked /\ Prepared /\ Own /\ Noted
  BY DEF Init, Known, Innermost, Asked, AskedAt, Locked, Prepared, Own, OwnAt, Noted
<1> QED
  BY <1>1, <1>2 DEF SInv

\* A step of a command of c: the others, and their workers' commands, stay
\* where they are.
Moves(c) ==
  /\ step' \in [Clients -> Steps] /\ stack' \in [Workers -> Seq(Clients)]
  /\ \A d \in Clients \ {c} : step'[d] = step[d]
  /\ \A v \in Workers \ {Worker[c]} : stack'[v] = stack[v]
  /\ step'[c] # "idle" => stack' = stack

LEMMA FinishMoves ==
  ASSUME TypeOK, NEW c \in Clients, stack[Worker[c]] # <<>>, Finish(c)
  PROVE  Moves(c) /\ step'[c] = "idle"
<1>1. Worker[c] \in Workers /\ stack[Worker[c]] \in Seq(Clients)
  BY ScriptingAssumption DEF TypeOK
<1>2. Tail(stack[Worker[c]]) \in Seq(Clients)
  BY <1>1
<1> QED
  BY <1>1, <1>2 DEF Finish, Moves, TypeOK, Steps

LEMMA GotoMoves ==
  ASSUME TypeOK, NEW c \in Clients, NEW place \in Steps, place # "idle", Goto(c, place)
  PROVE  Moves(c) /\ step'[c] = place
BY DEF Goto, Moves, TypeOK

\* Commands that neither define nor forget a function leave Known alone.
LEMMA KnownKept ==
  ASSUME SInv, NEW c \in Clients, Moves(c), step[c] \notin {"saving", "flushing", "resetting"},
         functions' = functions, m_lua_scripts \subseteq m_lua_scripts', current_cmd' = current_cmd
  PROVE  Known'
<1> SUFFICES ASSUME NEW s \in functions, <<"f_", s>> \notin m_lua_scripts
             PROVE  \/ \E d \in Clients : step'[d] = "saving" /\ Script(d)' = s
                    \/ \E d \in Clients : step'[d] \in {"flushing", "resetting"}
  BY DEF Known
<1>1. PICK d \in Clients : \/ step[d] = "saving" /\ Script(d) = s
                           \/ step[d] \in {"flushing", "resetting"}
  BY DEF SInv, Known
<1>2. d # c /\ step'[d] = step[d] /\ Script(d)' = Script(d)
  BY <1>1 DEF Moves, Script
<1> QED
  BY <1>1, <1>2

\* A worker's step is one of the command it is in.
LEMMA InnermostKept ==
  ASSUME SInv, NEW c \in Clients, Moves(c), stack[Worker[c]] # <<>>, Head(stack[Worker[c]]) = c
  PROVE  Innermost'
<1> SUFFICES ASSUME NEW d \in Clients, step'[d] \notin {"idle", "hook"}
             PROVE  stack'[Worker[d]] # <<>> /\ Head(stack'[Worker[d]]) = d
  BY DEF Innermost
<1>1. CASE d = c
  BY <1>1 DEF Moves
<1>2. CASE d # c
  <2>1. stack[Worker[d]] # <<>> /\ Head(stack[Worker[d]]) = d
    BY <1>2 DEF Moves, SInv, Innermost
  <2>2. Worker[d] \in Workers \ {Worker[c]}
    BY <1>2, <2>1, ScriptingAssumption
  <2> QED
    BY <2>1, <2>2 DEF Moves
<1> QED
  BY <1>1, <1>2

\* A step that takes no context leaves those of the other clients alone.
LEMMA OthersOwn ==
  ASSUME SInv, NEW c \in Clients, Moves(c), stack[Worker[c]] # <<>>, Head(stack[Worker[c]]) = c,
         step[c] # "locking" \/ g_lua_mutex = NULL,
         diverted' = diverted, g_local_ctx' = g_local_ctx, current_cmd' = current_cmd
  PROVE  \A d \in Clients \ {c} : OwnAt(d)'
<1> SUFFICES ASSUME NEW d \in Clients \ {c} PROVE OwnAt(d)'
  OBVIOUS
<1>1. step'[d] = step[d] /\ Op(d)' = Op(d) /\ OwnAt(d)
  BY DEF Moves, Op, SInv, Own
<1>2. CASE step[d] # "hook" \/ g_local_ctx[Worker[d]] = d \/ d \in diverted
  BY <1>1, <1>2 DEF OwnAt
<1>3. CASE step[d] = "hook" /\ g_local_ctx[Worker[d]] # d /\ d \notin diverted
  <2>1. step[c] # "locking"
    BY <1>3, ScriptingAssumption DEF SInv, Locked
  <2>2. /\ stack[Worker[d]] # <<>> /\ Head(stack[Worker[d]]) \in Clients
        /\ step[Head(stack[Worker[d]])] = "locking"
    BY <1>1, <1>3 DEF OwnAt
  <2>3. Worker[d] \in Workers \ {Worker[c]} /\ Head(stack[Worker[d]]) # c
    BY <2>1, <2>2, ScriptingAssumption
  <2>4. stack'[Worker[d]] = stack[Worker[d]] /\ step'[Head(stack[Worker[d]])] = "locking"
    BY <2>2, <2>3 DEF Moves
  <2> QED
    BY <1>1, <1>3, <2>2, <2>4 DEF OwnAt
<1> QED
  BY <1>2, <1>3

LEMMA OthersAsked ==
  ASSUME SInv, NEW c \in Clients, Moves(c), current_cmd' = current_cmd, AskedAt(c)'
  PROVE  Asked'
BY DEF SInv, Asked, AskedAt, Moves, Op, Script

\* What the table of texts may hold.
LEMMA Texts == \A s \in Scripts : {<<"sha", s>>, <<"f_", s>>} \subseteq {"sha", "f_"} \X Scripts
OBVIOUS

\* A request is taken up by a worker in its loop.
LEMMA CallStep ==
  ASSUME SInv, NEW c \in Clients, NEW r \in Requests[c], Call(c, r)
  PROVE  SInv'
<1>a. /\ Worker[c] \in Workers /\ stack[Worker[c]] \in Seq(Clients)
      /\ <<c>> \o stack[Worker[c]] \in Seq(Clients)
      /\ <<c>> \o stack[Worker[c]] # <<>> /\ Head(<<c>> \o stack[Worker[c]]) = c
  BY ScriptingAssumption, Pushed DEF SInv, TypeOK
<1>b. r \in Asks
  BY DEF Asks
<1>1. TypeOK'
  BY ScriptingAssumption, <1>a, <1>b DEF SInv, TypeOK, Steps, Asked, AskedAt, Prepared, Call,
     InLoop, luaVars, threadVars, contextVars, killVars, lockVars
<1>2. Known'
  BY ScriptingAssumption, <1>a DEF SInv, TypeOK, Known, Script, Call, InLoop, luaVars, threadVars,
     contextVars, killVars, lockVars
<1>3. Innermost'
  BY ScriptingAssumption, <1>a DEF SInv, TypeOK, Innermost, Call, InLoop, luaVars, threadVars,
     contextVars, killVars, lockVars
<1>4. Asked'
  BY ScriptingAssumption, <1>a, <1>b DEF SInv, TypeOK, Asked, AskedAt, Op, Script, Call, InLoop,
     luaVars, threadVars, contextVars, killVars, lockVars
<1>5. Locked'
  BY ScriptingAssumption, <1>a DEF SInv, TypeOK, Locked, Op, Call, InLoop, luaVars, threadVars,
     contextVars, killVars, lockVars
<1>6. Prepared'
  BY ScriptingAssumption, <1>a DEF SInv, TypeOK, Prepared, Locked, Asked, AskedAt, Op, Script,
     Call, InLoop, luaVars, threadVars, contextVars, killVars, lockVars
<1>7. Own'
  BY ScriptingAssumption, <1>a DEF SInv, TypeOK, Own, OwnAt, Locked, Innermost, Prepared, Op,
     Call, InLoop, luaVars, threadVars, contextVars, killVars, lockVars
<1>8. Noted'
  BY ScriptingAssumption, <1>a DEF SInv, TypeOK, Noted, Own, OwnAt, Call, InLoop, luaVars,
     threadVars, contextVars, killVars, lockVars
<1> QED
  BY <1>1, <1>2, <1>3, <1>4, <1>5, <1>6, <1>7, <1>8 DEF SInv

\* A connection closes, with a script of it in its hook or without.
LEMMA ChannelClosedStep ==
  ASSUME SInv, NEW c \in Clients, ChannelClosed(c)
  PROVE  SInv'
<1>1. TypeOK'
  BY ScriptingAssumption DEF SInv, TypeOK, Steps, Asked, AskedAt, Prepared, ChannelClosed, InLoop,
     luaVars, threadVars, contextVars, killVars, scriptVars, lockVars
<1>2. Known'
  BY ScriptingAssumption DEF SInv, TypeOK, Known, Script, ChannelClosed, InLoop, luaVars,
     threadVars, contextVars, killVars, scriptVars, lockVars
<1>3. Innermost'
  BY ScriptingAssumption DEF SInv, TypeOK, Innermost, ChannelClosed, InLoop, luaVars, threadVars,
     contextVars, killVars, scriptVars, lockVars
<1>4. Asked'
  BY ScriptingAssumption DEF SInv, TypeOK, Asked, AskedAt, Op, Script, ChannelClosed, InLoop,
     luaVars, threadVars, contextVars, killVars, scriptVars, lockVars
<1>5. Locked'
  BY ScriptingAssumption DEF SInv, TypeOK, Locked, Op, ChannelClosed, InLoop, luaVars, threadVars,
     contextVars, killVars, scriptVars, lockVars
<1>6. Prepared'
  BY ScriptingAssumption DEF SInv, TypeOK, Prepared, Locked, Asked, AskedAt, Op, Script,
     ChannelClosed, InLoop, luaVars, threadVars, contextVars, killVars, scriptVars, lockVars
<1>7. Own'
  BY ScriptingAssumption DEF SInv, TypeOK, Own, OwnAt, Locked, Innermost, Prepared, Op,
     ChannelClosed, InLoop, luaVars, threadVars, contextVars, killVars, scriptVars, lockVars
<1>8. Noted'
  BY ScriptingAssumption DEF SInv, TypeOK, Noted, Own, OwnAt, ChannelClosed, InLoop, luaVars,
     threadVars, contextVars, killVars, scriptVars, lockVars
<1> QED
  BY <1>1, <1>2, <1>3, <1>4, <1>5, <1>6, <1>7, <1>8 DEF SInv

\* A digest of the wrong length takes the context of the thread.
LEMMA RefuseStep ==
  ASSUME SInv, NEW c \in Clients, Refuse(c)
  PROVE  SInv'
<1>a. Moves(c) /\ step'[c] = "idle"
  BY ScriptingAssumption, FinishMoves, GotoMoves DEF SInv, Refuse, At, Steps
<1>1. TypeOK'
  BY ScriptingAssumption, <1>a DEF SInv, TypeOK, Steps, Asked, AskedAt, Prepared, Moves, Refuse,
     At, SetLocalContext, Op, Script, luaVars, contextVars, killVars, envVars, lockVars
<1>2. Known'
  BY <1>a, KnownKept DEF SInv, Refuse, At, luaVars
<1>3. Innermost'
  BY <1>a, InnermostKept DEF Refuse, At
<1>4. Asked'
  BY ScriptingAssumption, <1>a, ZenonT(40) DEF SInv, TypeOK, Asked, AskedAt, Op, Script, Moves, Refuse, At,
     SetLocalContext, luaVars, contextVars, killVars, envVars, lockVars
<1>5. Locked'
  BY ScriptingAssumption, <1>a DEF SInv, TypeOK, Locked, Op, Moves, Refuse, At, SetLocalContext,
     Script, luaVars, contextVars, killVars, envVars, lockVars
<1>6. Prepared'
  BY ScriptingAssumption, <1>a DEF SInv, TypeOK, Prepared, Locked, Asked, AskedAt, Op, Script,
     Moves, Refuse, At, SetLocalContext, luaVars, contextVars, killVars, envVars, lockVars
<1>7. Own'
  <2> SUFFICES ASSUME NEW d \in Clients PROVE OwnAt(d)'
    BY DEF Own
  <2>1. CASE d = c
    BY <1>a, <2>1 DEF OwnAt
  <2>2. CASE d # c /\ Worker[d] = Worker[c]
    <3>1. step[d] \in {"idle", "hook"} /\ step'[d] = step[d]
      BY <1>a, <2>2 DEF SInv, Innermost, Refuse, At, Moves
    <3>2. step[d] = "hook" => d \in diverted'
      BY <2>2 DEF SInv, Prepared, Refuse
    <3> QED
      BY <3>1, <3>2 DEF OwnAt
  <2>3. CASE Worker[d] # Worker[c]
    <3>1. /\ step'[d] = step[d] /\ stack'[Worker[d]] = stack[Worker[d]] /\ Op(d)' = Op(d)
          /\ g_local_ctx'[Worker[d]] = g_local_ctx[Worker[d]] /\ OwnAt(d)
          /\ d \notin diverted' => d \notin diverted
      BY <1>a, <2>3, ScriptingAssumption DEF SInv, TypeOK, Own, Moves, Refuse, SetLocalContext, Op
    <3>2. step[c] = "called"
      BY DEF Refuse, At
    <3>3. \A h \in Clients : step[h] = "locking" => step'[h] = "locking"
      BY <1>a, <3>2 DEF Moves
    <3> QED
      BY <3>1, <3>3 DEF OwnAt
  <2> QED
    BY <2>1, <2>2, <2>3
<1>8. Noted'
  BY ScriptingAssumption, <1>a DEF SInv, TypeOK, Noted, Own, OwnAt, Moves, Refuse, At,
     SetLocalContext, Op, Script, luaVars, contextVars, killVars, envVars, lockVars
<1> QED
  BY <1>1, <1>2, <1>3, <1>4, <1>5, <1>6, <1>7, <1>8 DEF SInv

\* EVAL and EVALSHA take the context of the thread, and wait for the mutex.
LEMMA EvalStep ==
  ASSUME SInv, NEW c \in Clients, Eval(c)
  PROVE  SInv'
<1>a. Moves(c) /\ step'[c] = "locking"
  BY ScriptingAssumption, FinishMoves, GotoMoves DEF SInv, Eval, At, Steps
<1>1. TypeOK'
  <2>1. m_lua_scripts' \subseteq {"sha", "f_"} \X Scripts
    BY Texts DEF SInv, TypeOK, Eval
  <2> QED
    BY ScriptingAssumption, <1>a, <2>1 DEF SInv, TypeOK, Moves, Eval, SetLocalContext, luaVars,
     lockVars, threadVars, contextVars, killVars, scriptVars, envVars
<1>2. Known'
  BY <1>a, KnownKept DEF SInv, Eval, At
<1>3. Innermost'
  BY <1>a, InnermostKept DEF Eval, At
<1>4. Asked'
  BY ScriptingAssumption, <1>a DEF SInv, TypeOK, Asked, AskedAt, Op, Script, Moves, Eval, At,
     SetLocalContext, lockVars, contextVars, killVars, scriptVars, envVars
<1>5. Locked'
  BY ScriptingAssumption, <1>a DEF SInv, TypeOK, Locked, Op, Moves, Eval, At, SetLocalContext,
     Script, lockVars, contextVars, killVars, scriptVars, envVars
<1>6. Prepared'
  BY ScriptingAssumption, <1>a DEF SInv, TypeOK, Prepared, Locked, Asked, AskedAt, Op, Script,
     Moves, Eval, At, SetLocalContext, lockVars, contextVars, killVars, scriptVars, envVars
<1>7. Own'
  <2> SUFFICES ASSUME NEW d \in Clients PROVE OwnAt(d)'
    BY DEF Own
  <2>0. /\ Worker[c] \in Workers /\ stack' = stack /\ step[c] = "called"
        /\ stack[Worker[c]] # <<>> /\ Head(stack[Worker[c]]) = c
    BY <1>a, ScriptingAssumption DEF Eval, At, Moves
  <2>1. CASE d = c
    BY <1>a, <2>0, <2>1 DEF OwnAt, SInv, TypeOK, Eval, SetLocalContext
  <2>2. CASE d # c /\ Worker[d] = Worker[c]
    <3>1. step[d] \in {"idle", "hook"} /\ step'[d] = step[d]
      BY <1>a, <2>0, <2>2 DEF SInv, Innermost, Moves
    <3> QED
      BY <1>a, <2>0, <2>2, <3>1 DEF OwnAt
  <2>3. CASE Worker[d] # Worker[c]
    <3>1. /\ step'[d] = step[d] /\ Op(d)' = Op(d) /\ diverted' = diverted
          /\ g_local_ctx'[Worker[d]] = g_local_ctx[Worker[d]] /\ OwnAt(d)
      BY <1>a, <2>3, ScriptingAssumption DEF SInv, TypeOK, Own, Moves, Eval, SetLocalContext, Op,
     scriptVars
    <3>3. \A h \in Clients : step[h] = "locking" => step'[h] = "locking"
      BY <1>a, <2>0 DEF Moves
    <3> QED
      BY <2>0, <3>1, <3>3 DEF OwnAt
  <2> QED
    BY <2>1, <2>2, <2>3
<1>8. Noted'
  BY ScriptingAssumption, <1>a DEF SInv, TypeOK, Noted, Own, OwnAt, Moves, Eval, At,
     SetLocalContext, Op, Script, lockVars, contextVars, killVars, scriptVars, envVars
<1> QED
  BY <1>1, <1>2, <1>3, <1>4, <1>5, <1>6, <1>7, <1>8 DEF SInv

\* The mutex is free, so nobody runs a script or waits in a hook.
LEMMA LockStep ==
  ASSUME SInv, NEW c \in Clients, Lock(c)
  PROVE  SInv'
<1>a. /\ Moves(c) /\ step'[c] \in {"running", "getting", "creating"}
      /\ step'[c] = "getting" => Op(c) = "evalsha"
      /\ step'[c] = "running" =>
           /\ lua_executing_func' = [lua_executing_func EXCEPT ![c] = Script(c)]
           /\ lua_kill' = lua_kill \ {c}
      /\ step'[c] # "running" => UNCHANGED <<lua_executing_func, lua_kill>>
  BY ScriptingAssumption, GotoMoves DEF SInv, Lock, Start, At, Steps
<1>1. TypeOK'
  BY ScriptingAssumption, <1>a DEF SInv, TypeOK, Steps, Asked, AskedAt, Prepared, Moves, Lock, At,
     Op, Script, threadVars, killVars, scriptVars, envVars
<1>2. Known'
  BY <1>a, KnownKept DEF SInv, Lock, At
<1>3. Innermost'
  BY <1>a, InnermostKept DEF Lock, At
<1>4. Asked'
  <2>1. AskedAt(c) /\ UNCHANGED current_cmd
    BY DEF SInv, Asked, Lock
  <2>2. AskedAt(c)'
    BY <1>a, <2>1 DEF AskedAt, Lock, At, Op, Script
  <2> QED
    BY <1>a, <2>1, <2>2, OthersAsked
<1>5. Locked'
  BY ScriptingAssumption, <1>a DEF SInv, TypeOK, Locked, Op, Moves, Lock, At, Script, threadVars,
     killVars, scriptVars, envVars
<1>6. Prepared'
  BY ScriptingAssumption, <1>a, SMTT(30) DEF SInv, TypeOK, Prepared, Locked, Asked, AskedAt, Op, Script,
     Moves, Lock, At, threadVars, killVars, scriptVars, envVars
<1>7. Own'
  <2>1. \A d \in Clients \ {c} : OwnAt(d)'
    BY <1>a, OthersOwn DEF Lock, At, threadVars, scriptVars
  <2>2. OwnAt(c)'
    BY <1>a DEF SInv, Own, OwnAt, Moves, Lock, At, Op, threadVars, scriptVars
  <2> QED
    BY <2>1, <2>2 DEF Own
<1>8. Noted'
  BY ScriptingAssumption, <1>a DEF SInv, TypeOK, Noted, Own, OwnAt, Moves, Lock, At, Op, Script,
     threadVars, killVars, scriptVars, envVars
<1> QED
  BY <1>1, <1>2, <1>3, <1>4, <1>5, <1>6, <1>7, <1>8 DEF SInv

\* The text of a function the interpreter lacks is looked up.
LEMMA GetScriptStep ==
  ASSUME SInv, NEW c \in Clients, GetScript(c)
  PROVE  SInv'
<1>a. /\ Moves(c)
      /\ \/ step'[c] = "creating" /\ g_lua_mutex' = g_lua_mutex
         \/ step'[c] = "idle" /\ g_lua_mutex' = NULL
  BY ScriptingAssumption, FinishMoves, GotoMoves DEF SInv, GetScript, At, Steps, Unlock
<1>1. TypeOK'
  BY ScriptingAssumption, <1>a DEF SInv, TypeOK, Steps, Asked, AskedAt, Prepared, Moves,
     GetScript, At, Unlock, Script, threadVars, contextVars, killVars, scriptVars, envVars
<1>2. Known'
  BY <1>a, KnownKept DEF SInv, GetScript, At
<1>3. Innermost'
  BY <1>a, InnermostKept DEF GetScript, At
<1>4. Asked'
  <2>1. AskedAt(c) /\ UNCHANGED current_cmd
    BY DEF SInv, Asked, GetScript
  <2>2. AskedAt(c)'
    BY <1>a, <2>1 DEF AskedAt, GetScript, At, Op, Script
  <2> QED
    BY <1>a, <2>1, <2>2, OthersAsked
<1>5. Locked'
  BY ScriptingAssumption, <1>a DEF SInv, TypeOK, Locked, Op, Moves, GetScript, At, Unlock, Script,
     threadVars, contextVars, killVars, scriptVars, envVars
<1>6. Prepared'
  BY ScriptingAssumption, <1>a DEF SInv, TypeOK, Prepared, Locked, Asked, AskedAt, Op, Script,
     Moves, GetScript, At, Unlock, threadVars, contextVars, killVars, scriptVars, envVars
<1>7. Own'
  <2>1. \A d \in Clients \ {c} : OwnAt(d)'
    BY <1>a, OthersOwn DEF GetScript, At, threadVars, scriptVars
  <2>2. OwnAt(c)'
    BY <1>a DEF SInv, Own, OwnAt, Moves, GetScript, At, Op, threadVars, scriptVars
  <2> QED
    BY <2>1, <2>2 DEF Own
<1>8. Noted'
  BY ScriptingAssumption, <1>a DEF SInv, TypeOK, Noted, Own, OwnAt, Moves, GetScript, At, Unlock,
     Script, threadVars, contextVars, killVars, scriptVars, envVars
<1> QED
  BY <1>1, <1>2, <1>3, <1>4, <1>5, <1>6, <1>7, <1>8 DEF SInv

\* SCRIPT LOAD goes on without the mutex.
LEMMA LoadStep ==
  ASSUME SInv, NEW c \in Clients, Load(c)
  PROVE  SInv'
<1>a. Script(c) \in Scripts
  BY Sendable DEF SInv, Asked, AskedAt, Load, At, Op, Script
<1>1. TypeOK'
  BY ScriptingAssumption, <1>a DEF SInv, TypeOK, Steps, Asked, AskedAt, Prepared, Moves, Load, At,
     Goto, Op, luaVars, threadVars, contextVars, killVars, scriptVars, envVars, lockVars
<1>2. Known'
  BY ScriptingAssumption, <1>a DEF SInv, TypeOK, Known, Script, Moves, Load, At, Goto, Op,
     luaVars, threadVars, contextVars, killVars, scriptVars, envVars, lockVars
<1>3. Innermost'
  BY ScriptingAssumption, <1>a DEF SInv, TypeOK, Innermost, Moves, Load, At, Goto, Op, luaVars,
     threadVars, contextVars, killVars, scriptVars, envVars, lockVars
<1>4. Asked'
  BY ScriptingAssumption, <1>a DEF SInv, TypeOK, Asked, AskedAt, Op, Script, Moves, Load, At,
     Goto, luaVars, threadVars, contextVars, killVars, scriptVars, envVars, lockVars
<1>5. Locked'
  BY ScriptingAssumption, <1>a DEF SInv, TypeOK, Locked, Op, Moves, Load, At, Goto, luaVars,
     threadVars, contextVars, killVars, scriptVars, envVars, lockVars
<1>6. Prepared'
  BY ScriptingAssumption, <1>a DEF SInv, TypeOK, Prepared, Locked, Asked, AskedAt, Op, Script,
     Moves, Load, At, Goto, luaVars, threadVars, contextVars, killVars, scriptVars, envVars,
     lockVars
<1>7. Own'
  BY ScriptingAssumption, <1>a DEF SInv, TypeOK, Own, OwnAt, Locked, Innermost, Prepared, Op,
     Moves, Load, At, Goto, luaVars, threadVars, contextVars, killVars, scriptVars, envVars,
     lockVars
<1>8. Noted'
  BY ScriptingAssumption, <1>a DEF SInv, TypeOK, Noted, Own, OwnAt, Moves, Load, At, Goto, Op,
     luaVars, threadVars, contextVars, killVars, scriptVars, envVars, lockVars
<1> QED
  BY <1>1, <1>2, <1>3, <1>4, <1>5, <1>6, <1>7, <1>8 DEF SInv

\* A function enters the interpreter before its text enters the table.
LEMMA CreateLuaFunctionStep ==
  ASSUME SInv, NEW c \in Clients, CreateLuaFunction(c)
  PROVE  SInv'
<1>a. /\ Moves(c)
      /\ \/ step'[c] = "saving" /\ g_lua_mutex' = g_lua_mutex
            /\ Script(c) \notin Broken /\ functions' = functions \cup {Script(c)}
         \/ step'[c] = "idle" /\ functions' = functions
            /\ g_lua_mutex' = IF g_lua_mutex = c THEN NULL ELSE g_lua_mutex
  BY ScriptingAssumption, FinishMoves, GotoMoves DEF SInv, CreateLuaFunction, At, Steps, Unlock
<1>1. TypeOK'
  <2>1. functions' \subseteq Scripts \ Broken
    BY <1>a DEF SInv, TypeOK, Asked, AskedAt, CreateLuaFunction, At
  <2>2. g_lua_mutex' \in Clients \cup {NULL}
    BY <1>a DEF SInv, TypeOK
  <2> QED
    BY <1>a, <2>1, <2>2 DEF SInv, TypeOK, Moves, CreateLuaFunction, threadVars, contextVars,
     killVars, scriptVars, envVars
<1>2. Known'
  <2> SUFFICES ASSUME NEW s \in functions', <<"f_", s>> \notin m_lua_scripts
               PROVE  \/ \E d \in Clients : step'[d] = "saving" /\ Script(d)' = s
                      \/ \E d \in Clients : step'[d] \in {"flushing", "resetting"}
    BY DEF Known, CreateLuaFunction
  <2>1. CASE s \notin functions
    BY <1>a, <2>1 DEF CreateLuaFunction, Script
  <2>2. CASE s \in functions
    <3>1. PICK d \in Clients : \/ step[d] = "saving" /\ Script(d) = s
                               \/ step[d] \in {"flushing", "resetting"}
      BY <2>2 DEF SInv, Known
    <3>2. d # c /\ step'[d] = step[d] /\ Script(d)' = Script(d)
      BY <1>a, <3>1 DEF Moves, Script, CreateLuaFunction, At
    <3> QED
      BY <3>1, <3>2
  <2> QED
    BY <2>1, <2>2
<1>3. Innermost'
  BY <1>a, InnermostKept DEF CreateLuaFunction, At
<1>4. Asked'
  <2>1. AskedAt(c) /\ UNCHANGED current_cmd
    BY DEF SInv, Asked, CreateLuaFunction
  <2>2. AskedAt(c)'
    BY <1>a, <2>1 DEF AskedAt, CreateLuaFunction, At, Op, Script
  <2> QED
    BY <1>a, <2>1, <2>2, OthersAsked
<1>5. Locked'
  BY ScriptingAssumption, <1>a DEF SInv, TypeOK, Locked, Op, Moves, CreateLuaFunction, At, Unlock,
     Script, threadVars, contextVars, killVars, scriptVars, envVars
<1>6. Prepared'
  BY ScriptingAssumption, <1>a DEF SInv, TypeOK, Prepared, Locked, Asked, AskedAt, Op, Script,
     Moves, CreateLuaFunction, At, Unlock, threadVars, contextVars, killVars, scriptVars, envVars
<1>7. Own'
  <2>1. \A d \in Clients \ {c} : OwnAt(d)'
    BY <1>a, OthersOwn DEF CreateLuaFunction, At, threadVars, scriptVars
  <2>2. OwnAt(c)'
    BY <1>a DEF SInv, Own, OwnAt, Moves, CreateLuaFunction, At, Op, threadVars, scriptVars
  <2> QED
    BY <2>1, <2>2 DEF Own
<1>8. Noted'
  BY ScriptingAssumption, <1>a DEF SInv, TypeOK, Noted, Own, OwnAt, Moves, CreateLuaFunction, At,
     Unlock, Script, threadVars, contextVars, killVars, scriptVars, envVars
<1> QED
  BY <1>1, <1>2, <1>3, <1>4, <1>5, <1>6, <1>7, <1>8 DEF SInv

\* The text of a new function enters the table.
LEMMA SaveScriptStep ==
  ASSUME SInv, NEW c \in Clients, SaveScript(c)
  PROVE  SInv'
<1>a. /\ Moves(c)
      /\ \/ step'[c] = "idle" /\ Op(c) = "load" /\ UNCHANGED <<lua_executing_func, lua_kill>>
         \/ step'[c] = "running" /\ Op(c) # "load" /\ lua_kill' = lua_kill \ {c}
            /\ lua_executing_func' = [lua_executing_func EXCEPT ![c] = Script(c)]
  BY ScriptingAssumption, FinishMoves, GotoMoves DEF SInv, SaveScript, At, Steps, Start
<1>1. TypeOK'
  <2>1. m_lua_scripts' \subseteq {"sha", "f_"} \X Scripts /\ Script(c) \in Scripts
    BY Texts DEF SInv, TypeOK, SaveScript, Asked, AskedAt, At
  <2> QED
    BY ScriptingAssumption, <1>a, <2>1 DEF SInv, TypeOK, Moves, SaveScript, luaVars, lockVars,
     threadVars, contextVars, killVars, scriptVars, envVars
<1>2. Known'
  <2> SUFFICES ASSUME NEW s \in functions, <<"f_", s>> \notin m_lua_scripts'
               PROVE  \/ \E d \in Clients : step'[d] = "saving" /\ Script(d)' = s
                      \/ \E d \in Clients : step'[d] \in {"flushing", "resetting"}
    BY DEF Known, SaveScript
  <2>1. PICK d \in Clients : \/ step[d] = "saving" /\ Script(d) = s
                             \/ step[d] \in {"flushing", "resetting"}
    BY DEF SInv, Known, SaveScript
  <2>2. d # c /\ step'[d] = step[d] /\ Script(d)' = Script(d)
    BY <1>a, <2>1 DEF Moves, Script, SaveScript, At
  <2> QED
    BY <2>1, <2>2
<1>3. Innermost'
  BY <1>a, InnermostKept DEF SaveScript, At
<1>4. Asked'
  <2>1. AskedAt(c) /\ UNCHANGED current_cmd
    BY DEF SInv, Asked, SaveScript
  <2>2. AskedAt(c)'
    BY <1>a, <2>1 DEF AskedAt, SaveScript, At, Op, Script
  <2> QED
    BY <1>a, <2>1, <2>2, OthersAsked
<1>5. Locked'
  BY ScriptingAssumption, <1>a DEF SInv, TypeOK, Locked, Op, Moves, SaveScript, At, Script,
     lockVars, threadVars, killVars, scriptVars, envVars
<1>6. Prepared'
  <2>1. /\ UNCHANGED <<current_cmd, g_local_ctx>>
        /\ \A d \in Clients \ {c} : Op(d)' = Op(d) /\ lua_executing_func'[d] = lua_executing_func[d]
    <3>1. UNCHANGED <<current_cmd, g_local_ctx>>
      BY DEF SaveScript, threadVars
    <3>2. \A d \in Clients \ {c} : lua_executing_func'[d] = lua_executing_func[d]
      BY DEF SInv, TypeOK, SaveScript, Start
    <3> QED
      BY <3>1, <3>2 DEF Op
  <2>2. \A d \in Clients \ {c} : step'[d] = step[d]
    BY <1>a DEF Moves
  <2>3. ASSUME step'[c] # "idle"
        PROVE  /\ step'[c] = "running" /\ g_local_ctx[Worker[c]] \in Clients
               /\ lua_executing_func'[c] # NULL
    <3>1. Op(c) # "load" /\ Start(c) /\ step[c] = "saving" /\ Script(c) \in Scripts
      BY <1>a, <2>3 DEF SInv, TypeOK, Asked, AskedAt, SaveScript, At, Finish
    <3> QED
      BY <3>1, ScriptingAssumption DEF SInv, TypeOK, Prepared, Start, Goto
  <2> QED
    BY <2>1, <2>2, <2>3 DEF SInv, Prepared
<1>7. Own'
  <2>1. \A d \in Clients \ {c} : OwnAt(d)'
    BY <1>a, OthersOwn DEF SaveScript, At, threadVars, scriptVars
  <2>2. OwnAt(c)'
    BY <1>a DEF SInv, Own, OwnAt, Moves, SaveScript, At, Op, threadVars, scriptVars
  <2> QED
    BY <2>1, <2>2 DEF Own
<1>8. Noted'
  BY ScriptingAssumption, <1>a DEF SInv, TypeOK, Noted, Own, OwnAt, Moves, SaveScript, At, Op,
     Script, lockVars, threadVars, killVars, scriptVars, envVars
<1> QED
  BY <1>1, <1>2, <1>3, <1>4, <1>5, <1>6, <1>7, <1>8 DEF SInv

\* A command is logged and ends.
LEMMA WriteWALStep ==
  ASSUME SInv, NEW c \in Clients, WriteWAL(c)
  PROVE  SInv'
<1>a. Moves(c) /\ step'[c] = "idle"
  BY ScriptingAssumption, FinishMoves, GotoMoves DEF SInv, WriteWAL, At, Steps
<1>1. TypeOK'
  <2>1. current_cmd[c] \in [op : {"eval", "evalsha"}, script : Scripts]
    BY Sendable DEF SInv, Asked, AskedAt, WriteWAL, At, Op, Script
  <2>2. Record(c) \in LogRecords
    BY <2>1 DEF Record, Op, Script, LogRecords
  <2>3. wal \in Seq(LogRecords)
    BY DEF SInv, TypeOK
  <2>4. \A x \in LogRecords : Append(wal, x) \in Seq(LogRecords)
    BY <2>3
  <2>5. wal' \in Seq(LogRecords)
    BY <2>1, <2>2, <2>3, <2>4 DEF WriteWAL
  <2> QED
    BY ScriptingAssumption, <1>a, <2>5 DEF SInv, TypeOK, Moves, WriteWAL, luaVars, lockVars,
     threadVars, contextVars, killVars, scriptVars, envVars
<1>2. Known'
  BY <1>a, KnownKept DEF SInv, WriteWAL, At, luaVars
<1>3. Innermost'
  BY <1>a, InnermostKept DEF WriteWAL, At
<1>4. Asked'
  <2>1. AskedAt(c) /\ UNCHANGED current_cmd
    BY DEF SInv, Asked, WriteWAL
  <2>2. AskedAt(c)'
    BY <1>a, <2>1 DEF AskedAt, WriteWAL, At, Op, Script
  <2> QED
    BY <1>a, <2>1, <2>2, OthersAsked
<1>5. Locked'
  BY ScriptingAssumption, <1>a DEF SInv, TypeOK, Locked, Op, Moves, WriteWAL, At, Record, luaVars,
     threadVars, contextVars, killVars, scriptVars, envVars, Script, lockVars
<1>6. Prepared'
  BY ScriptingAssumption, <1>a DEF SInv, TypeOK, Prepared, Locked, Asked, AskedAt, Op, Script,
     Moves, WriteWAL, At, Record, luaVars, threadVars, contextVars, killVars, scriptVars,
     envVars, lockVars
<1>7. Own'
  <2>1. \A d \in Clients \ {c} : OwnAt(d)'
    BY <1>a, OthersOwn DEF WriteWAL, At, threadVars, scriptVars
  <2>2. OwnAt(c)'
    BY <1>a DEF SInv, Own, OwnAt, Moves, WriteWAL, At, Op, threadVars, scriptVars
  <2> QED
    BY <2>1, <2>2 DEF Own
<1>8. Noted'
  BY ScriptingAssumption, <1>a DEF SInv, TypeOK, Noted, Own, OwnAt, Moves, WriteWAL, At, Record,
     Op, luaVars, threadVars, contextVars, killVars, scriptVars, envVars, Script, lockVars
<1> QED
  BY <1>1, <1>2, <1>3, <1>4, <1>5, <1>6, <1>7, <1>8 DEF SInv

\* FLUSH empties the table first.
LEMMA FlushScriptsStep ==
  ASSUME SInv, NEW c \in Clients, FlushScripts(c)
  PROVE  SInv'
<1>1. TypeOK'
  BY ScriptingAssumption DEF SInv, TypeOK, Steps, Asked, AskedAt, Prepared, FlushScripts, At,
     Goto, Op, threadVars, contextVars, killVars, scriptVars, envVars
<1>2. Known'
  BY ScriptingAssumption DEF SInv, TypeOK, Known, Script, FlushScripts, At, Goto, Op, threadVars,
     contextVars, killVars, scriptVars, envVars
<1>3. Innermost'
  BY ScriptingAssumption DEF SInv, TypeOK, Innermost, FlushScripts, At, Goto, Op, threadVars,
     contextVars, killVars, scriptVars, envVars
<1>4. Asked'
  BY ScriptingAssumption DEF SInv, TypeOK, Asked, AskedAt, Op, Script, FlushScripts, At, Goto,
     threadVars, contextVars, killVars, scriptVars, envVars
<1>5. Locked'
  BY ScriptingAssumption DEF SInv, TypeOK, Locked, Op, FlushScripts, At, Goto, threadVars,
     contextVars, killVars, scriptVars, envVars
<1>6. Prepared'
  BY ScriptingAssumption DEF SInv, TypeOK, Prepared, Locked, Asked, AskedAt, Op, Script,
     FlushScripts, At, Goto, threadVars, contextVars, killVars, scriptVars, envVars
<1>7. Own'
  BY ScriptingAssumption DEF SInv, TypeOK, Own, OwnAt, Locked, Innermost, Prepared, Op,
     FlushScripts, At, Goto, threadVars, contextVars, killVars, scriptVars, envVars
<1>8. Noted'
  BY ScriptingAssumption DEF SInv, TypeOK, Noted, Own, OwnAt, FlushScripts, At, Goto, Op,
     threadVars, contextVars, killVars, scriptVars, envVars
<1> QED
  BY <1>1, <1>2, <1>3, <1>4, <1>5, <1>6, <1>7, <1>8 DEF SInv

\* FLUSH has both locks.
LEMMA ResetStep ==
  ASSUME SInv, NEW c \in Clients, Reset(c)
  PROVE  SInv'
<1>1. TypeOK'
  BY ScriptingAssumption DEF SInv, TypeOK, Steps, Asked, AskedAt, Prepared, Reset, At, Goto,
     threadVars, contextVars, killVars, scriptVars, envVars
<1>2. Known'
  BY ScriptingAssumption DEF SInv, TypeOK, Known, Script, Reset, At, Goto, threadVars,
     contextVars, killVars, scriptVars, envVars
<1>3. Innermost'
  BY ScriptingAssumption DEF SInv, TypeOK, Innermost, Reset, At, Goto, threadVars, contextVars,
     killVars, scriptVars, envVars
<1>4. Asked'
  BY ScriptingAssumption DEF SInv, TypeOK, Asked, AskedAt, Op, Script, Reset, At, Goto,
     threadVars, contextVars, killVars, scriptVars, envVars
<1>5. Locked'
  BY ScriptingAssumption DEF SInv, TypeOK, Locked, Op, Reset, At, Goto, threadVars, contextVars,
     killVars, scriptVars, envVars
<1>6. Prepared'
  BY ScriptingAssumption DEF SInv, TypeOK, Prepared, Locked, Asked, AskedAt, Op, Script, Reset,
     At, Goto, threadVars, contextVars, killVars, scriptVars, envVars
<1>7. Own'
  BY ScriptingAssumption DEF SInv, TypeOK, Own, OwnAt, Locked, Innermost, Prepared, Op, Reset, At,
     Goto, threadVars, contextVars, killVars, scriptVars, envVars
<1>8. Noted'
  BY ScriptingAssumption DEF SInv, TypeOK, Noted, Own, OwnAt, Reset, At, Goto, threadVars,
     contextVars, killVars, scriptVars, envVars
<1> QED
  BY <1>1, <1>2, <1>3, <1>4, <1>5, <1>6, <1>7, <1>8 DEF SInv

\* FLUSH empties the interpreter.
LEMMA FlushEndsStep ==
  ASSUME SInv, NEW c \in Clients, FlushEnds(c)
  PROVE  SInv'
<1>a. Moves(c) /\ step'[c] = "idle"
  BY ScriptingAssumption, FinishMoves, GotoMoves DEF SInv, FlushEnds, At, Steps
<1>1. TypeOK'
  BY ScriptingAssumption, <1>a DEF SInv, TypeOK, Steps, Asked, AskedAt, Prepared, Moves,
     FlushEnds, At, Unlock, threadVars, contextVars, killVars, scriptVars, envVars
<1>2. Known'
  BY ScriptingAssumption, <1>a DEF SInv, TypeOK, Known, Script, Moves, FlushEnds, At, Unlock,
     threadVars, contextVars, killVars, scriptVars, envVars
<1>3. Innermost'
  BY <1>a, InnermostKept DEF FlushEnds, At
<1>4. Asked'
  <2>1. AskedAt(c) /\ UNCHANGED current_cmd
    BY DEF SInv, Asked, FlushEnds
  <2>2. AskedAt(c)'
    BY <1>a, <2>1 DEF AskedAt, FlushEnds, At, Op, Script
  <2> QED
    BY <1>a, <2>1, <2>2, OthersAsked
<1>5. Locked'
  BY ScriptingAssumption, <1>a DEF SInv, TypeOK, Locked, Op, Moves, FlushEnds, At, Unlock,
     threadVars, contextVars, killVars, scriptVars, envVars
<1>6. Prepared'
  BY ScriptingAssumption, <1>a DEF SInv, TypeOK, Prepared, Locked, Asked, AskedAt, Op, Script,
     Moves, FlushEnds, At, Unlock, threadVars, contextVars, killVars, scriptVars, envVars
<1>7. Own'
  BY ScriptingAssumption, <1>a, ZenonT(40) DEF SInv, TypeOK, Own, OwnAt, Locked, Innermost, Prepared, Op,
     Moves, FlushEnds, At, Unlock, threadVars, contextVars, killVars, scriptVars, envVars
<1>8. Noted'
  BY ScriptingAssumption, <1>a DEF SInv, TypeOK, Noted, Own, OwnAt, Moves, FlushEnds, At, Unlock,
     threadVars, contextVars, killVars, scriptVars, envVars
<1> QED
  BY <1>1, <1>2, <1>3, <1>4, <1>5, <1>6, <1>7, <1>8 DEF SInv

\* SCRIPT KILL begins.
LEMMA KillStep ==
  ASSUME SInv, NEW c \in Clients, Kill(c)
  PROVE  SInv'
<1>1. TypeOK'
  BY ScriptingAssumption DEF SInv, TypeOK, Steps, Asked, AskedAt, Prepared, Kill, At, Goto, Op,
     luaVars, threadVars, contextVars, killVars, scriptVars, envVars, lockVars
<1>2. Known'
  BY ScriptingAssumption DEF SInv, TypeOK, Known, Script, Kill, At, Goto, Op, luaVars, threadVars,
     contextVars, killVars, scriptVars, envVars, lockVars
<1>3. Innermost'
  BY ScriptingAssumption DEF SInv, TypeOK, Innermost, Kill, At, Goto, Op, luaVars, threadVars,
     contextVars, killVars, scriptVars, envVars, lockVars
<1>4. Asked'
  BY ScriptingAssumption DEF SInv, TypeOK, Asked, AskedAt, Op, Script, Kill, At, Goto, luaVars,
     threadVars, contextVars, killVars, scriptVars, envVars, lockVars
<1>5. Locked'
  BY ScriptingAssumption DEF SInv, TypeOK, Locked, Op, Kill, At, Goto, luaVars, threadVars,
     contextVars, killVars, scriptVars, envVars, lockVars
<1>6. Prepared'
  BY ScriptingAssumption DEF SInv, TypeOK, Prepared, Locked, Asked, AskedAt, Op, Script, Kill, At,
     Goto, luaVars, threadVars, contextVars, killVars, scriptVars, envVars, lockVars
<1>7. Own'
  BY ScriptingAssumption DEF SInv, TypeOK, Own, OwnAt, Locked, Innermost, Prepared, Op, Kill, At,
     Goto, luaVars, threadVars, contextVars, killVars, scriptVars, envVars, lockVars
<1>8. Noted'
  BY ScriptingAssumption DEF SInv, TypeOK, Noted, Own, OwnAt, Kill, At, Goto, Op, luaVars,
     threadVars, contextVars, killVars, scriptVars, envVars, lockVars
<1> QED
  BY <1>1, <1>2, <1>3, <1>4, <1>5, <1>6, <1>7, <1>8 DEF SInv

\* SCRIPT KILL signals the loop.
LEMMA FireUserEventStep ==
  ASSUME SInv, NEW c \in Clients, FireUserEvent(c)
  PROVE  SInv'
<1>a. Moves(c) /\ step'[c] = "idle"
  BY ScriptingAssumption, FinishMoves, GotoMoves DEF SInv, FireUserEvent, At, Steps
<1>1. TypeOK'
  <2>0. current_cmd[c] \in Asks /\ Op(c) = "kill"
    BY DEF SInv, Asked, AskedAt, FireUserEvent, At
  <2>1. Script(c) \in Scripts \cup {"all"}
    BY <2>0, Sendable DEF Op, Script
  <2>2. m_killing_func' \in Scripts \cup {NULL, "all"} /\ signals' \in [Workers -> Nat]
    BY ScriptingAssumption, <2>1 DEF SInv, TypeOK, FireUserEvent
  <2> QED
    BY <1>a, <2>2 DEF SInv, TypeOK, Moves, FireUserEvent, luaVars, lockVars,
     threadVars, contextVars, killVars, scriptVars, envVars
<1>2. Known'
  BY <1>a, KnownKept DEF SInv, FireUserEvent, At, luaVars
<1>3. Innermost'
  BY <1>a, InnermostKept DEF FireUserEvent, At
<1>4. Asked'
  <2>1. AskedAt(c) /\ UNCHANGED current_cmd
    BY DEF SInv, Asked, FireUserEvent
  <2>2. AskedAt(c)'
    BY <1>a, <2>1 DEF AskedAt, FireUserEvent, At, Op, Script
  <2> QED
    BY <1>a, <2>1, <2>2, OthersAsked
<1>5. Locked'
  BY ScriptingAssumption, <1>a DEF SInv, TypeOK, Locked, Op, Moves, FireUserEvent, At, Script,
     luaVars, threadVars, contextVars, scriptVars, envVars, lockVars
<1>6. Prepared'
  BY ScriptingAssumption, <1>a DEF SInv, TypeOK, Prepared, Locked, Asked, AskedAt, Op, Script,
     Moves, FireUserEvent, At, luaVars, threadVars, contextVars, scriptVars, envVars, lockVars
<1>7. Own'
  <2>1. \A d \in Clients \ {c} : OwnAt(d)'
    BY <1>a, OthersOwn DEF FireUserEvent, At, threadVars, scriptVars
  <2>2. OwnAt(c)'
    BY <1>a DEF SInv, Own, OwnAt, Moves, FireUserEvent, At, Op, threadVars, scriptVars
  <2> QED
    BY <2>1, <2>2 DEF Own
<1>8. Noted'
  BY ScriptingAssumption, <1>a DEF SInv, TypeOK, Noted, Own, OwnAt, Moves, FireUserEvent, At,
     Script, luaVars, threadVars, contextVars, scriptVars, envVars, lockVars
<1> QED
  BY <1>1, <1>2, <1>3, <1>4, <1>5, <1>6, <1>7, <1>8 DEF SInv

\* The hook returns to the script, or ends it.
LEMMA HookReturnsStep ==
  ASSUME SInv, NEW c \in Clients, HookReturns(c)
  PROVE  SInv'
<1>a. /\ Moves(c) /\ server' \in {"up", "crashed"}
      /\ \/ /\ step'[c] = "running" /\ UNCHANGED <<lua_executing_func, lua_timeout, g_lua_mutex>>
         \/ /\ step'[c] = "logging" /\ g_lua_mutex' = NULL
            /\ lua_executing_func' = [lua_executing_func EXCEPT ![c] = NULL]
            /\ lua_timeout' = lua_timeout \ {c}
  BY ScriptingAssumption, GotoMoves DEF SInv, HookReturns, Return, Unlock, Use, At, Steps
<1>1. TypeOK'
  BY ScriptingAssumption, <1>a DEF SInv, TypeOK, Steps, Asked, AskedAt, Prepared, Moves,
     HookReturns, At, killVars, scriptVars, Unlock
<1>2. Known'
  BY <1>a, KnownKept DEF SInv, HookReturns, At
<1>3. Innermost'
  BY <1>a, InnermostKept DEF HookReturns, At
<1>4. Asked'
  <2>1. AskedAt(c) /\ UNCHANGED current_cmd
    BY DEF SInv, Asked, HookReturns
  <2>2. AskedAt(c)'
    BY <1>a, <2>1 DEF AskedAt, HookReturns, At, Op, Script
  <2> QED
    BY <1>a, <2>1, <2>2, OthersAsked
<1>5. Locked'
  BY ScriptingAssumption, <1>a DEF SInv, TypeOK, Locked, Op, Moves, HookReturns, At, killVars,
     scriptVars, Unlock
<1>6. Prepared'
  BY ScriptingAssumption, <1>a, ZenonT(40) DEF SInv, TypeOK, Prepared, Locked, Asked, AskedAt, Op, Script,
     Moves, HookReturns, At, killVars, scriptVars, Unlock
<1>7. Own'
  <2>1. \A d \in Clients \ {c} : OwnAt(d)'
    BY <1>a, OthersOwn DEF HookReturns, At, scriptVars
  <2>2. OwnAt(c)'
    BY <1>a DEF SInv, Own, OwnAt, Moves, HookReturns, At, Op, scriptVars
  <2> QED
    BY <2>1, <2>2 DEF Own
<1>8. Noted'
  BY ScriptingAssumption, <1>a DEF SInv, TypeOK, Noted, Own, OwnAt, Moves, HookReturns, At,
     killVars, scriptVars, Unlock
<1> QED
  BY <1>1, <1>2, <1>3, <1>4, <1>5, <1>6, <1>7, <1>8 DEF SInv

\* A script writes, in the context of the thread.
LEMMA CallCommsStep ==
  ASSUME SInv, NEW c \in Clients, CallComms(c)
  PROVE  SInv'
<1>1. TypeOK'
  BY ScriptingAssumption, SMTT(30) DEF SInv, TypeOK, Steps, Asked, AskedAt, Prepared, CallComms, At, Use,
     Freed, luaVars, threadVars, contextVars, killVars, lockVars
<1>2. Known'
  BY ScriptingAssumption DEF SInv, TypeOK, Known, Script, CallComms, At, Use, Freed, luaVars,
     threadVars, contextVars, killVars, lockVars
<1>3. Innermost'
  BY ScriptingAssumption DEF SInv, TypeOK, Innermost, CallComms, At, Use, Freed, luaVars,
     threadVars, contextVars, killVars, lockVars
<1>4. Asked'
  BY ScriptingAssumption DEF SInv, TypeOK, Asked, AskedAt, Op, Script, CallComms, At, Use, Freed,
     luaVars, threadVars, contextVars, killVars, lockVars
<1>5. Locked'
  BY ScriptingAssumption DEF SInv, TypeOK, Locked, Op, CallComms, At, Use, Freed, luaVars,
     threadVars, contextVars, killVars, lockVars
<1>6. Prepared'
  BY ScriptingAssumption DEF SInv, TypeOK, Prepared, Locked, Asked, AskedAt, Op, Script,
     CallComms, At, Use, Freed, luaVars, threadVars, contextVars, killVars, lockVars
<1>7. Own'
  BY ScriptingAssumption DEF SInv, TypeOK, Own, OwnAt, Locked, Innermost, Prepared, Op, CallComms,
     At, Use, Freed, luaVars, threadVars, contextVars, killVars, lockVars
<1>8. Noted'
  BY ScriptingAssumption DEF SInv, TypeOK, Noted, Own, OwnAt, CallComms, At, Use, Freed, luaVars,
     threadVars, contextVars, killVars, lockVars
<1> QED
  BY <1>1, <1>2, <1>3, <1>4, <1>5, <1>6, <1>7, <1>8 DEF SInv

\* A script enters its hook.
LEMMA MaskCountHookStep ==
  ASSUME SInv, NEW c \in Clients, MaskCountHook(c)
  PROVE  SInv'
<1>1. TypeOK'
  BY ScriptingAssumption DEF SInv, TypeOK, Steps, Asked, AskedAt, Prepared, MaskCountHook, At,
     Goto, Use, luaVars, killVars, scriptVars, lockVars
<1>2. Known'
  BY ScriptingAssumption DEF SInv, TypeOK, Known, Script, MaskCountHook, At, Goto, Use, luaVars,
     killVars, scriptVars, lockVars
<1>3. Innermost'
  BY ScriptingAssumption DEF SInv, TypeOK, Innermost, MaskCountHook, At, Goto, Use, luaVars,
     killVars, scriptVars, lockVars
<1>4. Asked'
  BY ScriptingAssumption DEF SInv, TypeOK, Asked, AskedAt, Op, Script, MaskCountHook, At, Goto,
     Use, luaVars, killVars, scriptVars, lockVars
<1>5. Locked'
  BY ScriptingAssumption DEF SInv, TypeOK, Locked, Op, MaskCountHook, At, Goto, Use, luaVars,
     killVars, scriptVars, lockVars
<1>6. Prepared'
  BY ScriptingAssumption DEF SInv, TypeOK, Prepared, Locked, Asked, AskedAt, Op, Script,
     MaskCountHook, At, Goto, Use, luaVars, killVars, scriptVars, lockVars
<1>7. Own'
  BY ScriptingAssumption DEF SInv, TypeOK, Own, OwnAt, Locked, Innermost, Prepared, Op,
     MaskCountHook, At, Goto, Use, luaVars, killVars, scriptVars, lockVars
<1>8. Noted'
  BY ScriptingAssumption DEF SInv, TypeOK, Noted, Own, OwnAt, MaskCountHook, At, Goto, Use,
     luaVars, killVars, scriptVars, lockVars
<1> QED
  BY <1>1, <1>2, <1>3, <1>4, <1>5, <1>6, <1>7, <1>8 DEF SInv

\* A script returns.
LEMMA ScriptReturnsStep ==
  ASSUME SInv, NEW c \in Clients, ScriptReturns(c)
  PROVE  SInv'
<1>1. TypeOK'
  BY ScriptingAssumption DEF SInv, TypeOK, Steps, Asked, AskedAt, Prepared, ScriptReturns, At,
     Return, Script, threadVars, killVars, scriptVars, envVars, Goto, Unlock
<1>2. Known'
  BY ScriptingAssumption DEF SInv, TypeOK, Known, Script, ScriptReturns, At, Return, threadVars,
     killVars, scriptVars, envVars, Goto, Unlock
<1>3. Innermost'
  BY ScriptingAssumption DEF SInv, TypeOK, Innermost, ScriptReturns, At, Return, Script,
     threadVars, killVars, scriptVars, envVars, Goto, Unlock
<1>4. Asked'
  BY ScriptingAssumption DEF SInv, TypeOK, Asked, AskedAt, Op, Script, ScriptReturns, At, Return,
     threadVars, killVars, scriptVars, envVars, Goto, Unlock
<1>5. Locked'
  BY ScriptingAssumption DEF SInv, TypeOK, Locked, Op, ScriptReturns, At, Return, Script,
     threadVars, killVars, scriptVars, envVars, Goto, Unlock
<1>6. Prepared'
  BY ScriptingAssumption DEF SInv, TypeOK, Prepared, Locked, Asked, AskedAt, Op, Script,
     ScriptReturns, At, Return, threadVars, killVars, scriptVars, envVars, Goto, Unlock
<1>7. Own'
  BY ScriptingAssumption DEF SInv, TypeOK, Own, OwnAt, Locked, Innermost, Prepared, Op,
     ScriptReturns, At, Return, Script, threadVars, killVars, scriptVars, envVars, Goto, Unlock
<1>8. Noted'
  BY ScriptingAssumption DEF SInv, TypeOK, Noted, Own, OwnAt, ScriptReturns, At, Return, Script,
     threadVars, killVars, scriptVars, envVars, Goto, Unlock
<1> QED
  BY <1>1, <1>2, <1>3, <1>4, <1>5, <1>6, <1>7, <1>8 DEF SInv

\* A signal marks the script of the thread.
LEMMA ScriptEventCallbackStep ==
  ASSUME SInv, NEW w \in Workers, ScriptEventCallback(w)
  PROVE  SInv'
<1>1. TypeOK'
  BY ScriptingAssumption, SMTT(30) DEF SInv, TypeOK, Steps, Asked, AskedAt, Prepared, ScriptEventCallback,
     InLoop, Use, Freed, Named, luaVars, threadVars, scriptVars, lockVars
<1>2. Known'
  BY ScriptingAssumption DEF SInv, TypeOK, Known, Script, ScriptEventCallback, InLoop, Use, Freed,
     Named, luaVars, threadVars, scriptVars, lockVars
<1>3. Innermost'
  BY ScriptingAssumption DEF SInv, TypeOK, Innermost, ScriptEventCallback, InLoop, Use, Freed,
     Named, luaVars, threadVars, scriptVars, lockVars
<1>4. Asked'
  BY ScriptingAssumption DEF SInv, TypeOK, Asked, AskedAt, Op, Script, ScriptEventCallback,
     InLoop, Use, Freed, Named, luaVars, threadVars, scriptVars, lockVars
<1>5. Locked'
  BY ScriptingAssumption DEF SInv, TypeOK, Locked, Op, ScriptEventCallback, InLoop, Use, Freed,
     Named, luaVars, threadVars, scriptVars, lockVars
<1>6. Prepared'
  BY ScriptingAssumption DEF SInv, TypeOK, Prepared, Locked, Asked, AskedAt, Op, Script,
     ScriptEventCallback, InLoop, Use, Freed, Named, luaVars, threadVars, scriptVars, lockVars
<1>7. Own'
  BY ScriptingAssumption DEF SInv, TypeOK, Own, OwnAt, Locked, Innermost, Prepared, Op,
     ScriptEventCallback, InLoop, Use, Freed, Named, luaVars, threadVars, scriptVars, lockVars
<1>8. Noted'
  BY ScriptingAssumption DEF SInv, TypeOK, Noted, Own, OwnAt, ScriptEventCallback, InLoop, Use,
     Freed, Named, luaVars, threadVars, scriptVars, lockVars
<1> QED
  BY <1>1, <1>2, <1>3, <1>4, <1>5, <1>6, <1>7, <1>8 DEF SInv

\* Two threads collide.
LEMMA CollideStep ==
  ASSUME SInv, Collide
  PROVE  SInv'
<1>1. TypeOK'
  BY ScriptingAssumption DEF SInv, TypeOK, Steps, Asked, AskedAt, Prepared, Collide, luaVars,
     threadVars, contextVars, killVars, scriptVars, lockVars
<1>2. Known'
  BY ScriptingAssumption DEF SInv, TypeOK, Known, Script, Collide, luaVars, threadVars,
     contextVars, killVars, scriptVars, lockVars
<1>3. Innermost'
  BY ScriptingAssumption DEF SInv, TypeOK, Innermost, Collide, luaVars, threadVars, contextVars,
     killVars, scriptVars, lockVars
<1>4. Asked'
  BY ScriptingAssumption DEF SInv, TypeOK, Asked, AskedAt, Op, Script, Collide, luaVars,
     threadVars, contextVars, killVars, scriptVars, lockVars
<1>5. Locked'
  BY ScriptingAssumption DEF SInv, TypeOK, Locked, Op, Collide, luaVars, threadVars, contextVars,
     killVars, scriptVars, lockVars
<1>6. Prepared'
  BY ScriptingAssumption DEF SInv, TypeOK, Prepared, Locked, Asked, AskedAt, Op, Script, Collide,
     luaVars, threadVars, contextVars, killVars, scriptVars, lockVars
<1>7. Own'
  BY ScriptingAssumption DEF SInv, TypeOK, Own, OwnAt, Locked, Innermost, Prepared, Op, Collide,
     luaVars, threadVars, contextVars, killVars, scriptVars, lockVars
<1>8. Noted'
  BY ScriptingAssumption DEF SInv, TypeOK, Noted, Own, OwnAt, Collide, luaVars, threadVars,
     contextVars, killVars, scriptVars, lockVars
<1> QED
  BY <1>1, <1>2, <1>3, <1>4, <1>5, <1>6, <1>7, <1>8 DEF SInv

-----------------------------------------------------------------------------
LEMMA Inductive == SInv /\ [Next]_vars => SInv'
<1> SUFFICES ASSUME SInv, [Next]_vars PROVE SInv'
  OBVIOUS
<1>1. CASE UNCHANGED vars
  BY <1>1 DEF SInv, TypeOK, Known, Innermost, Asked, AskedAt, Locked, Prepared, Own, OwnAt, Noted,
     Op, Script, vars, luaVars, lockVars, threadVars, contextVars, killVars, scriptVars, envVars
<1>2. ASSUME NEW c \in Clients, NEW r \in Requests[c], Call(c, r) PROVE SInv'
  BY <1>2, CallStep
<1>3. ASSUME NEW c \in Clients, ChannelClosed(c) PROVE SInv'
  BY <1>3, ChannelClosedStep
<1>4. ASSUME NEW c \in Clients, Refuse(c) PROVE SInv'
  BY <1>4, RefuseStep
<1>5. ASSUME NEW c \in Clients, Eval(c) PROVE SInv'
  BY <1>5, EvalStep
<1>6. ASSUME NEW c \in Clients, Lock(c) PROVE SInv'
  BY <1>6, LockStep
<1>7. ASSUME NEW c \in Clients, GetScript(c) PROVE SInv'
  BY <1>7, GetScriptStep
<1>8. ASSUME NEW c \in Clients, Load(c) PROVE SInv'
  BY <1>8, LoadStep
<1>9. ASSUME NEW c \in Clients, CreateLuaFunction(c) PROVE SInv'
  BY <1>9, CreateLuaFunctionStep
<1>10. ASSUME NEW c \in Clients, SaveScript(c) PROVE SInv'
  BY <1>10, SaveScriptStep
<1>11. ASSUME NEW c \in Clients, WriteWAL(c) PROVE SInv'
  BY <1>11, WriteWALStep
<1>12. ASSUME NEW c \in Clients, FlushScripts(c) PROVE SInv'
  BY <1>12, FlushScriptsStep
<1>13. ASSUME NEW c \in Clients, Reset(c) PROVE SInv'
  BY <1>13, ResetStep
<1>14. ASSUME NEW c \in Clients, FlushEnds(c) PROVE SInv'
  BY <1>14, FlushEndsStep
<1>15. ASSUME NEW c \in Clients, Kill(c) PROVE SInv'
  BY <1>15, KillStep
<1>16. ASSUME NEW c \in Clients, FireUserEvent(c) PROVE SInv'
  BY <1>16, FireUserEventStep
<1>17. ASSUME NEW c \in Clients, HookReturns(c) PROVE SInv'
  BY <1>17, HookReturnsStep
<1>18. ASSUME NEW c \in Clients, CallComms(c) PROVE SInv'
  BY <1>18, CallCommsStep
<1>19. ASSUME NEW c \in Clients, MaskCountHook(c) PROVE SInv'
  BY <1>19, MaskCountHookStep
<1>20. ASSUME NEW c \in Clients, ScriptReturns(c) PROVE SInv'
  BY <1>20, ScriptReturnsStep
<1>21. ASSUME NEW w \in Workers, ScriptEventCallback(w) PROVE SInv'
  BY <1>21, ScriptEventCallbackStep
<1>22. CASE Collide
  BY <1>22, CollideStep
<1> QED
  BY <1>1, <1>2, <1>3, <1>4, <1>5, <1>6, <1>7, <1>8, <1>9, <1>10, <1>11, <1>12, <1>13, <1>14,
     <1>15, <1>16, <1>17, <1>18, <1>19, <1>20, <1>21, <1>22 DEF Next, Proceed

\* The table, the interpreter, the locks, the contexts and the log keep to the
\* invariant (lua_scripting.cpp).
THEOREM InvHolds == Spec => []SInv
BY InvInit, Inductive, PTL DEF Spec

\* What the interpreter can run is in the table of texts, but for what is just
\* being added or flushed: for any number of workers that EVAL, LOAD and FLUSH.
THEOREM ScriptsAlwaysConsistent == Spec => []ScriptsConsistent
<1>1. SInv => ScriptsConsistent
  BY DEF SInv, ScriptsConsistent
<1> QED
  BY <1>1, InvHolds, PTL

\* Only the end of a command, with the record before it, makes a client idle
\* whose script has run.
LEMMA EndsLogged ==
  ASSUME SInv, Next, NEW c \in Clients, step[c] \in {"running", "hook", "logging"},
         step'[c] = "idle"
  PROVE  WriteWAL(c)
<1> USE DEF SInv, TypeOK
<1>1. ASSUME NEW d \in Clients, NEW r \in Requests[d], Call(d, r) PROVE WriteWAL(c)
  BY <1>1 DEF Call
<1>2. ASSUME NEW d \in Clients, ChannelClosed(d) PROVE WriteWAL(c)
  BY <1>2 DEF ChannelClosed
<1>3. ASSUME NEW d \in Clients, Refuse(d) PROVE WriteWAL(c)
  BY <1>3 DEF Refuse, At, Finish
<1>4. ASSUME NEW d \in Clients, Eval(d) PROVE WriteWAL(c)
  BY <1>4 DEF Eval, At, Goto
<1>5. ASSUME NEW d \in Clients, Lock(d) PROVE WriteWAL(c)
  BY <1>5 DEF Lock, At, Goto, Start
<1>6. ASSUME NEW d \in Clients, GetScript(d) PROVE WriteWAL(c)
  BY <1>6 DEF GetScript, At, Goto, Finish
<1>7. ASSUME NEW d \in Clients, Load(d) PROVE WriteWAL(c)
  BY <1>7 DEF Load, At, Goto
<1>8. ASSUME NEW d \in Clients, CreateLuaFunction(d) PROVE WriteWAL(c)
  BY <1>8 DEF CreateLuaFunction, At, Goto, Finish
<1>9. ASSUME NEW d \in Clients, SaveScript(d) PROVE WriteWAL(c)
  BY <1>9 DEF SaveScript, At, Finish, Start, Goto
<1>10. ASSUME NEW d \in Clients, WriteWAL(d) PROVE WriteWAL(c)
  BY <1>10 DEF WriteWAL, At, Finish
<1>11. ASSUME NEW d \in Clients, FlushScripts(d) PROVE WriteWAL(c)
  BY <1>11 DEF FlushScripts, At, Goto
<1>12. ASSUME NEW d \in Clients, Reset(d) PROVE WriteWAL(c)
  BY <1>12 DEF Reset, At, Goto
<1>13. ASSUME NEW d \in Clients, FlushEnds(d) PROVE WriteWAL(c)
  BY <1>13 DEF FlushEnds, At, Finish
<1>14. ASSUME NEW d \in Clients, Kill(d) PROVE WriteWAL(c)
  BY <1>14 DEF Kill, At, Goto
<1>15. ASSUME NEW d \in Clients, FireUserEvent(d) PROVE WriteWAL(c)
  BY <1>15 DEF FireUserEvent, At, Finish
<1>16. ASSUME NEW d \in Clients, HookReturns(d) PROVE WriteWAL(c)
  BY <1>16 DEF HookReturns, At, Goto, Return
<1>17. ASSUME NEW d \in Clients, CallComms(d) PROVE WriteWAL(c)
  BY <1>17 DEF CallComms, At
<1>18. ASSUME NEW d \in Clients, MaskCountHook(d) PROVE WriteWAL(c)
  BY <1>18 DEF MaskCountHook, At, Goto
<1>19. ASSUME NEW d \in Clients, ScriptReturns(d) PROVE WriteWAL(c)
  BY <1>19 DEF ScriptReturns, At, Return, Goto
<1>20. ASSUME NEW w \in Workers, ScriptEventCallback(w) PROVE WriteWAL(c)
  BY <1>20 DEF ScriptEventCallback
<1>21. CASE Collide
  BY <1>21 DEF Collide
<1> QED
  BY <1>1, <1>2, <1>3, <1>4, <1>5, <1>6, <1>7, <1>8, <1>9, <1>10, <1>11, <1>12, <1>13, <1>14,
     <1>15, <1>16, <1>17, <1>18, <1>19, <1>20, <1>21 DEF Next, Proceed

\* What a command writes to the log stands for its script.
LEMMA RecordStands ==
  ASSUME SInv, NEW c \in Clients, step[c] = "logging"
  PROVE  Record(c) \in LogRecords /\ StandsFor(Record(c), c)
<1>1. /\ current_cmd[c] \in Asks /\ Op(c) \in {"eval", "evalsha"} /\ Script(c) \in Scripts
      /\ current_cmd[c] = [op |-> Op(c), script |-> Script(c)]
  <2>1. current_cmd[c] \in Asks /\ Op(c) \in {"eval", "evalsha"} /\ Script(c) \in Scripts
    BY DEF SInv, Asked, AskedAt
  <2> QED
    BY <2>1, Sendable DEF Op, Script
<1>2. CASE c \in rewritten
  BY <1>2 DEF Record, LogRecords, StandsFor
<1>3. CASE c \notin rewritten
  <2>1. PICK o \in {"eval", "evalsha"} :
          /\ Record(c) = [op |-> o, script |-> Script(c)]
          /\ Op(c) = "eval" => o = "eval"
    BY <1>1, <1>3 DEF Record
  <2>2. Record(c).op = o /\ Record(c).script = Script(c)
    BY <2>1
  <2> QED
    BY <1>1, <2>1, <2>2 DEF LogRecords, StandsFor
<1> QED
  BY <1>2, <1>3

\* A command whose script has written appends one record, which stands for the
\* script, whatever its worker did inside the hook, unless that was to refuse a
\* digest.  A script with a command that is logged as another has that other
\* for its record (CallComms, Eval, EvalSHA, Comms::Call).
THEOREM WritesAlwaysLogged == Spec => WritesLogged
<1>1. ASSUME SInv, Next, NEW c \in Clients, step[c] # "idle", step'[c] = "idle",
             c \in wrote \ diverted
      PROVE  \E r \in LogRecords : wal' = Append(wal, r) /\ StandsFor(r, c)
  <2>1. step[c] \in {"running", "hook", "logging"} /\ c \in data_change
    BY <1>1 DEF SInv, Noted
  <2>2. WriteWAL(c)
    BY <1>1, <2>1, EndsLogged
  <2>3. wal' = Append(wal, Record(c)) /\ step[c] = "logging"
    BY <2>1, <2>2 DEF WriteWAL, At
  <2>4. Record(c) \in LogRecords /\ StandsFor(Record(c), c)
    BY <1>1, <2>3, RecordStands
  <2> QED
    BY <2>3, <2>4
<1>2. SInv /\ [Next]_vars =>
        [\A c \in Clients :
           step[c] # "idle" /\ step'[c] = "idle" /\ c \in wrote \ diverted
             => \E r \in LogRecords : wal' = Append(wal, r) /\ StandsFor(r, c)]_vars
  BY <1>1
<1> QED
  BY <1>2, InvHolds, PTL DEF Spec, WritesLogged
=============================================================================
