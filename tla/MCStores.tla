----------------------------- MODULE MCStores ------------------------------
(* The stores that outlive a call or an attempt, or are shared by several: *)
(* the runtime history, the sessions and their memory, the container       *)
(* packages, and the KV cache of a recording run.  Nothing connects them;  *)
(* a behaviour is one of them at work, the part it starts with.            *)
EXTENDS SharedHistory, SessionMemory, Bootstrap, SessionCache, TLC

CONSTANTS c1, c2, s1, s2, w1, w2, w3

VARIABLE part

storeVars == <<part, histVars, memVars, bootVars, cacheVars>>

\* The agents of two containers with the same process id, and with two.
SameOrNot == {[p \in Containers |-> 1], [p \in Containers |-> IF p = c1 THEN 1 ELSE 2]}

\* The policies, and what is varied with each: two attempts and a stray call, or
\* longer texts, which fill the budget and are cut by it.
Bounds(layers, attempts, strays, most, longest) ==
  [layers |-> layers, attempts |-> attempts, strays |-> strays, made |-> most,
   text |-> longest]
Policy(name, budget, sink, recent) ==
  [policy |-> name, budget |-> budget, sink |-> sink, recent |-> recent, sample |-> 0]
Sampled(n, policy) == [policy EXCEPT !.sample = n]
Policies ==
  {Policy("off", 0, 0, 0) @@ Bounds(1, 2, 1, 3, 2),
   Policy("none", 0, 0, 0) @@ Bounds(1, 2, 1, 2, 3),
   Policy("none", 0, 0, 0) @@ Bounds(2, 1, 0, 3, 4),
   Policy("streaming", 2, 1, 1) @@ Bounds(1, 1, 0, 3, 5),
   Policy("random", 2, 0, 0) @@ Bounds(1, 1, 0, 3, 4),
   Policy("h2o", 3, 1, 1) @@ Bounds(1, 1, 0, 3, 5),
   Sampled(1, Policy("h2o", 2, 0, 1)) @@ Bounds(2, 1, 0, 2, 5)}

\* Bound: either something goes wrong with the memory, or an agent takes a note.
OneOff == trouble = 0 \/ facts \cap Notes = {}

HistOnly(A) == part = "history" /\ A /\ UNCHANGED <<part, memVars, bootVars, cacheVars>>
MemOnly(A) ==
  part = "memory" /\ A /\ OneOff' /\ UNCHANGED <<part, histVars, bootVars, cacheVars>>
BootOnly(A) == part = "bootstrap" /\ A /\ UNCHANGED <<part, histVars, memVars, cacheVars>>
CacheOnly(A) == part = "cache" /\ A /\ UNCHANGED <<part, histVars, memVars, bootVars>>

Init ==
  /\ part \in {"history", "memory", "bootstrap", "cache"}
  /\ HistInit /\ MemInit /\ BootInit /\ CacheInit
  /\ part # "history" => pid = [p \in Containers |-> 1]
  /\ part # "bootstrap" => needs = [w \in Preparers |-> CHOOSE r \in Reqs : TRUE]
  /\ part # "cache" => setup = CHOOSE r \in Setups : TRUE

Next ==
  \/ HistOnly(HistNext) \/ MemOnly(MemNext) \/ BootOnly(BootNext) \/ CacheOnly(CacheNext)

Fairness ==
  /\ \A p \in Containers : WF_storeVars(HistOnly(ContainerStep(p)))
  /\ \A w \in Preparers :
       WF_storeVars(BootOnly(Prepare(w))) /\ WF_storeVars(BootOnly(Script(w)))

FairSpec == Init /\ [][Next]_storeVars /\ Fairness

-----------------------------------------------------------------------------
\* Every variable of every part keeps to its domain, and the files to their bound.
StoreTypes == HistTypeOK /\ MemTypeOK /\ BootTypeOK /\ CacheTypeOK

\* Nobody waits for ever for the lock file of the history or the file lock of the
\* packages, also when a container was killed or a command times out.
WaitsEnd == LockWaitEnds /\ BootEnds
=============================================================================
