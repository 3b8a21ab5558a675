---------------------------- MODULE MCBlockList -----------------------------
(* Two clients that wait and one that pushes, on two workers. *)
EXTENDS BlockList

CONSTANTS c1, c2, c3, w1, w2, k1, k2

Request(cmd, keys, to, timed) == [cmd |-> cmd, keys |-> keys, to |-> to, timed |-> timed]

Waits ==
  {<<Request("blpop", <<k1, k2>>, NULL, TRUE)>>,
   <<Request("brpoplpush", <<k1>>, k2, TRUE)>>,
   <<Request("brpoplpush", <<k1>>, NotAList, FALSE)>>,
   <<Request("blpop", <<k1>>, NULL, TRUE), Request("brpop", <<k2>>, NULL, TRUE)>>}

Pushes ==
  {<<Request("lpush", <<k2>>, NULL, FALSE)>>,
   <<Request("rpush", <<k1>>, NULL, FALSE), Request("rpush", <<k1>>, NULL, FALSE)>>}

\* c2 and c3 share a worker; c3 pushes.
WorkerOf == (c1 :> w1) @@ (c2 :> w2) @@ (c3 :> w2)
SentBy == (c1 :> Waits) @@ (c2 :> Waits) @@ (c3 :> Pushes)
=============================================================================
