---------------------------- MODULE ReplayProofs ----------------------------
(***************************************************************************)
(* Proofs about ReplayStart: the chunks are a partition of the sessions,   *)
(* the preparation limit holds, nobody replays before all sessions of all  *)
(* processes have been prepared, what leaks is accounted for, and the      *)
(* decision to replay is one for all processes.                            *)
(***************************************************************************)
EXTENDS ReplayStart, TLAPS, FiniteSetTheorems, WellFoundedInduction

-----------------------------------------------------------------------------
(* _partition_sessions_and_offsets.                                         *)

\* The chunk arithmetic: quotient and remainder of the number of sessions.
LEMMA ChunkArithmetic ==
  /\ NProcs \in Nat \ {0} /\ NProcs <= Total /\ Total \in Nat
  /\ ChunkSize \in Nat /\ Longer \in Nat /\ Longer < NProcs
  /\ NProcs * ChunkSize + Longer = Total
<1> USE StartAssumption
<1>1. NProcs \in Nat \ {0} /\ NProcs <= Total /\ Total \in Nat
  BY DEF NProcs
<1>2. ASSUME NEW k \in Nat, NEW d \in Nat \ {0}
      PROVE  k \div d \in Nat /\ d * (k \div d) \in Nat
  OBVIOUS
<1>3. ASSUME NEW k \in Nat, NEW d \in Nat \ {0}
      PROVE  k - d * (k \div d) \in Nat
  OBVIOUS
<1>4. ASSUME NEW k \in Nat, NEW d \in Nat \ {0}
      PROVE  k - d * (k \div d) < d
  OBVIOUS
<1> QED BY <1>1, <1>2, <1>3, <1>4 DEF ChunkSize, Longer

\* A chunk starts where the one before ends, the first at 0, and the last ends
\* with the last session.
LEMMA ChunkStarts ==
  /\ ChunkStart(0) = 0
  /\ ChunkStart(NProcs) = Total
  /\ \A p \in 0..NProcs : ChunkStart(p) \in Nat
  /\ \A p, q \in 0..NProcs : p <= q => ChunkStart(p) <= ChunkStart(q)
<1> USE ChunkArithmetic
<1>1. ASSUME NEW p \in Nat, NEW c \in Nat PROVE p * c \in Nat
  OBVIOUS
<1>2. ASSUME NEW p \in Nat, NEW q \in Nat, NEW c \in Nat, p <= q PROVE p * c <= q * c
  <2>1. PICK r \in Nat : q = p + r
    <3>1. q - p \in Nat /\ q = p + (q - p)
      BY <1>2
    <3> QED BY <3>1
  <2>2. r * c \in Nat /\ p * c \in Nat
    OBVIOUS
  <2>3. (p + r) * c = p * c + r * c
    <3>1. ASSUME NEW x \in Nat, NEW y \in Nat PROVE (x + y) * c = x * c + y * c
      OBVIOUS
    <3> QED BY <3>1
  <2> QED BY <2>1, <2>2, <2>3
<1>3. ChunkStart(0) = 0
  BY DEF ChunkStart, LongerUpTo
<1>4. ChunkStart(NProcs) = Total
  BY DEF ChunkStart, LongerUpTo
<1>5. \A p \in 0..NProcs : ChunkStart(p) \in Nat
  BY <1>1 DEF ChunkStart, LongerUpTo
<1>6. ASSUME NEW p \in 0..NProcs, NEW q \in 0..NProcs, p <= q
      PROVE  ChunkStart(p) <= ChunkStart(q)
  <2>1. p * ChunkSize <= q * ChunkSize
    BY <1>2, <1>6
  <2>2. p * ChunkSize \in Nat /\ q * ChunkSize \in Nat
    BY <1>1
  <2>3. LongerUpTo(p) <= LongerUpTo(q) /\ LongerUpTo(p) \in Nat /\ LongerUpTo(q) \in Nat
    BY <1>6 DEF LongerUpTo
  <2> QED BY <2>1, <2>2, <2>3 DEF ChunkStart
<1> QED BY <1>3, <1>4, <1>5, <1>6

\* Every session is in the chunk of exactly one process, ProcOf(s).
LEMMA ChunksPartition ==
  /\ Main \in Procs
  /\ \A p \in Procs : SessionsOf(p) \subseteq Sessions
  /\ \A s \in Sessions : ProcOf(s) \in Procs /\ s \in SessionsOf(ProcOf(s))
  /\ \A p \in Procs : \A s \in SessionsOf(p) : ProcOf(s) = p
<1> USE ChunkArithmetic
<1>1. Main \in Procs
  BY DEF Main, Procs
<1>2. ASSUME NEW p \in Procs PROVE SessionsOf(p) \subseteq Sessions
  <2>1. p \in 0..NProcs /\ p + 1 \in 0..NProcs /\ NProcs \in 0..NProcs
    BY DEF Procs
  <2>2. /\ ChunkStart(p) \in Nat /\ ChunkStart(p + 1) \in Nat
        /\ ChunkStart(p + 1) <= Total
    BY <2>1, ChunkStarts
  <2> QED BY <2>2 DEF SessionsOf, Sessions
<1>3. ASSUME NEW s \in Sessions PROVE \E p \in Procs : s \in SessionsOf(p)
  <2> DEFINE T == {p \in Procs : s <= ChunkStart(p + 1)}
  <2>1. T \subseteq Nat
    BY DEF Procs
  <2>2. NProcs - 1 \in T
    BY ChunkStarts DEF Procs, Sessions
  <2>3. PICK p \in T : \A q \in T : p <= q
    <3>1. T \subseteq Nat /\ T # {}
      BY <2>1, <2>2
    <3> HIDE DEF T
    <3>2. \E p \in T : \A q \in T : ~(<<q, p>> \in OpToRel(<, Nat))
      BY <3>1, WFMin, NatLessThanWellFounded
    <3>3. PICK p \in T : \A q \in T : ~(q < p)
      BY <3>1, <3>2 DEF OpToRel
    <3> QED BY <3>1, <3>3
  <2>4. s > ChunkStart(p)
    <3>1. CASE p = 0
      BY <3>1, ChunkStarts DEF Sessions
    <3>2. CASE p # 0
      <4>1. p - 1 \in Procs /\ (p - 1) + 1 = p /\ p \in 0..NProcs
        BY <3>2 DEF Procs
      <4>2. p - 1 \notin T
        BY <2>1, <2>3, <4>1
      <4>3. ~(s <= ChunkStart(p))
        BY <4>1, <4>2
      <4> QED BY <4>1, <4>3, ChunkStarts DEF Sessions
    <3> QED BY <3>1, <3>2
  <2>5. ChunkStart(p) \in Nat /\ ChunkStart(p + 1) \in Nat
    BY ChunkStarts DEF Procs
  <2> QED BY <2>4, <2>5 DEF SessionsOf, Sessions
<1>4. ASSUME NEW p \in Procs, NEW q \in Procs, NEW s \in SessionsOf(p), s \in SessionsOf(q)
      PROVE  p = q
  <2>1. ASSUME NEW a \in Procs, NEW b \in Procs, a < b,
               s \in SessionsOf(a), s \in SessionsOf(b)
        PROVE  FALSE
    <3>1. a \in 0..NProcs /\ a + 1 \in 0..NProcs /\ b \in 0..NProcs /\ b + 1 \in 0..NProcs /\ a + 1 <= b
      BY <2>1 DEF Procs
    <3>2. /\ ChunkStart(a) \in Nat /\ ChunkStart(a + 1) \in Nat
          /\ ChunkStart(b) \in Nat /\ ChunkStart(b + 1) \in Nat
          /\ ChunkStart(a + 1) <= ChunkStart(b)
      BY <3>1, ChunkStarts
    <3> QED BY <2>1, <3>2 DEF SessionsOf
  <2>2. p \in Nat /\ q \in Nat
    BY DEF Procs
  <2> QED BY <1>4, <2>1, <2>2
<1>5. ASSUME NEW s \in Sessions PROVE ProcOf(s) \in Procs /\ s \in SessionsOf(ProcOf(s))
  BY <1>3 DEF ProcOf
<1>6. ASSUME NEW p \in Procs, NEW s \in SessionsOf(p) PROVE ProcOf(s) = p
  <2>1. s \in Sessions
    BY <1>2
  <2> QED BY <1>4, <1>5, <2>1
<1> QED BY <1>1, <1>2, <1>5, <1>6
-----------------------------------------------------------------------------
(* The invariant.                                                           *)

\* What the proofs need of the types.
Typed ==
  /\ at \in [Sessions -> Stages]
  /\ proc \in [Procs -> Parts]
  /\ result \in [Procs -> Ends]
  /\ permits \in Nat
  /\ arrived \subseteq Procs

\* A worker that still loads has prepared nothing.
Unloaded ==
  \A p \in Procs : proc[p] = "load" => \A s \in SessionsOf(p) : at[s] = "new"

\* Whoever goes to the barrier has prepared all it had to, and a session that
\* has been prepared is not prepared again.
ArrivedPrepared ==
  \A p \in Procs :
    p \in arrived \/ proc[p] = "barrier" =>
      \A s \in SessionsOf(p) : at[s] \in {"prepared", "removed"}

\* Nothing is decided about a process before the barrier.
Undecided ==
  \A p \in Procs :
    /\ proc[p] \in {"load", "prepare"} => p \notin arrived
    /\ proc[p] \in {"load", "prepare", "barrier"} => result[p] = "none"

\* Beyond the barrier, everyone has arrived.
BeyondBarrier ==
  /\ barrier = "draining" => arrived = Procs
  /\ \A p \in Procs :
       proc[p] \in {"stamp", "announce", "event"} \/ HasReplayed(p) => arrived = Procs

StartInv == Typed /\ Unloaded /\ ArrivedPrepared /\ Undecided /\ BeyondBarrier

\* The initial states satisfy the invariant.
LEMMA InitStartInv == Init => StartInv
<1> SUFFICES ASSUME Init PROVE StartInv
  OBVIOUS
<1> USE ChunksPartition DEF Init
<1>1. Typed
  BY StartAssumption DEF Typed, Stages, Permitted, Settled, Parts, Ends
<1>2. Unloaded
  <2> SUFFICES ASSUME NEW p \in Procs, proc[p] = "load", NEW s \in SessionsOf(p)
               PROVE  at[s] = "new"
    BY DEF Unloaded
  <2>1. p # Main /\ s \in Sessions /\ ProcOf(s) = p
    OBVIOUS
  <2>2. s \notin SessionsOf(Main)
    BY <2>1
  <2> QED BY <2>1, <2>2
<1>3. ArrivedPrepared /\ Undecided /\ BeyondBarrier
  BY DEF ArrivedPrepared, Undecided, BeyondBarrier, HasReplayed
<1> QED BY <1>1, <1>2, <1>3 DEF StartInv

\* Every step of a preparation moves one session that is in the middle of it,
\* and takes or returns a permit as the session gets or gives up its stage.
LEMMA PrepareShape ==
  ASSUME Typed, NEW s \in Sessions, Prepare(s)
  PROVE  /\ at[s] \notin {"new", "prepared", "removed"}
         /\ \E v \in Stages :
              /\ at' = [at EXCEPT ![s] = v]
              /\ permits' = CASE at[s] \in Permitted /\ v \notin Permitted -> permits + 1
                              [] at[s] \notin Permitted /\ v \in Permitted -> permits - 1
                              [] OTHER -> permits
              /\ at[s] \notin Permitted /\ v \in Permitted => permits > 0
         /\ UNCHANGED <<proc, startVars, result, watch>>
<1> USE DEF Typed, Stages, Permitted, Settled
<1>1. CASE Acquire(s)
  BY <1>1 DEF Acquire, Free
<1>2. CASE StartContainer(s)
  BY <1>2 DEF StartContainer, FailStart, Release
<1>3. CASE Probe(s)
  BY <1>3 DEF Probe, Release
<1>4. CASE Bootstrap(s)
  BY <1>4 DEF Bootstrap, StopFirst, Release
<1>5. CASE StartAgent(s)
  BY <1>5 DEF StartAgent, StopFirst, Release
<1>6. CASE StopContainer(s)
  BY <1>6 DEF StopContainer, Release
<1> QED BY <1>1, <1>2, <1>3, <1>4, <1>5, <1>6 DEF Prepare

\* Preparing a session disturbs nothing that has been prepared or not begun.
LEMMA PrepareStart ==
  ASSUME StartInv, NEW s \in Sessions, Prepare(s)
  PROVE  StartInv'
<1> USE DEF StartInv
<1>1. PICK v \in Stages : at' = [at EXCEPT ![s] = v] /\ permits' \in Nat
  BY PrepareShape DEF Typed
<1>2. at[s] \notin {"new", "prepared", "removed"} /\ UNCHANGED <<proc, startVars, result>>
  BY PrepareShape
<1>3. Typed'
  BY <1>1, <1>2 DEF Typed, startVars
<1>4. Unloaded'
  BY <1>1, <1>2, ChunksPartition DEF Unloaded, Typed
<1>5. ArrivedPrepared'
  BY <1>1, <1>2, ChunksPartition DEF ArrivedPrepared, Typed, startVars
<1>6. Undecided' /\ BeyondBarrier'
  BY <1>2 DEF Undecided, BeyondBarrier, HasReplayed, startVars
<1> QED BY <1>3, <1>4, <1>5, <1>6

\* A worker loads, or fails to.
LEMMA LoadStart ==
  ASSUME StartInv, NEW w \in WorkerProcs, Load(w)
  PROVE  StartInv'
<1> USE DEF StartInv, WorkerProcs
<1>1. CASE proc' = [proc EXCEPT ![w] = "prepare"] /\ UNCHANGED <<result, startVars>>
  <2>1. /\ at' = [s \in Sessions |-> IF s \in SessionsOf(w) THEN "permit" ELSE at[s]]
        /\ proc[w] = "load" /\ UNCHANGED permits
    BY <1>1 DEF Load, Typed
  <2>2. Typed'
    BY <1>1, <2>1 DEF Typed, startVars, Stages, Permitted, Settled, Parts
  <2>3. \A p \in Procs \ {w} : \A s \in SessionsOf(p) : at'[s] = at[s]
    BY <2>1, ChunksPartition
  <2>4. Unloaded'
    BY <1>1, <2>1, <2>3 DEF Unloaded, Typed
  <2>5. ArrivedPrepared'
    BY <1>1, <2>1, <2>3 DEF ArrivedPrepared, Undecided, Typed, startVars
  <2>6. Undecided' /\ BeyondBarrier'
    BY <1>1, <2>1 DEF Undecided, BeyondBarrier, HasReplayed, Typed, startVars
  <2> QED BY <2>2, <2>4, <2>5, <2>6
<1>2. CASE /\ proc' = [proc EXCEPT ![w] = "done"]
           /\ result' = [result EXCEPT ![w] = "failed"]
           /\ Abort
           /\ UNCHANGED <<at, jobs>>
  <2>1. proc[w] = "load" /\ UNCHANGED <<permits, arrived>>
    BY <1>2 DEF Load, Abort
  <2>2. w \notin arrived
    BY <2>1 DEF Undecided
  <2>3. Typed'
    BY <1>2, <2>1 DEF Typed, Parts, Ends
  <2>4. Unloaded' /\ ArrivedPrepared'
    BY <1>2, <2>1 DEF Unloaded, ArrivedPrepared, Typed
  <2>5. Undecided' /\ BeyondBarrier'
    BY <1>2, <2>1, <2>2 DEF Undecided, BeyondBarrier, HasReplayed, Typed, Abort
  <2> QED BY <2>3, <2>4, <2>5
<1> QED BY <1>1, <1>2 DEF Load

\* A process settles: it goes to the barrier with everything prepared, or fails
\* without having arrived.
LEMMA SettleStart ==
  ASSUME StartInv, NEW p \in Procs, Settle(p)
  PROVE  StartInv'
<1> USE DEF StartInv
<1>1. proc[p] = "prepare" /\ p \notin arrived /\ result[p] = "none" /\ UNCHANGED <<at, permits, arrived>>
  BY DEF Settle, Undecided, prepVars, startVars, Abort
<1>2. CASE AllPrepared(p) /\ proc' = [proc EXCEPT ![p] = "barrier"] /\ UNCHANGED <<startVars, result>>
  <2>1. Typed' /\ Unloaded' /\ Undecided' /\ BeyondBarrier'
    BY <1>1, <1>2 DEF Typed, Unloaded, Undecided, BeyondBarrier, HasReplayed, Parts, startVars
  <2>2. ArrivedPrepared'
    BY <1>1, <1>2 DEF ArrivedPrepared, AllPrepared, Typed
  <2> QED BY <2>1, <2>2
<1>3. CASE /\ proc' = [proc EXCEPT ![p] = "cleanup"]
           /\ result' = [result EXCEPT ![p] = "failed"]
           /\ Abort
  <2>1. Typed' /\ Unloaded' /\ ArrivedPrepared'
    BY <1>1, <1>3 DEF Typed, Unloaded, ArrivedPrepared, Parts, Ends
  <2>2. Undecided' /\ BeyondBarrier'
    BY <1>1, <1>3 DEF Undecided, BeyondBarrier, HasReplayed, Typed, Abort
  <2> QED BY <2>1, <2>2
<1> QED BY <1>2, <1>3 DEF Settle

\* The last arrival, and only the last, opens the barrier.
LEMMA ArriveStart ==
  ASSUME StartInv, NEW p \in Procs, Arrive(p)
  PROVE  StartInv'
<1> USE DEF StartInv
<1>1. /\ proc[p] = "barrier" /\ result[p] = "none" /\ arrived' = arrived \cup {p}
      /\ barrier' = (IF arrived' = Procs THEN "draining" ELSE "filling")
      /\ UNCHANGED <<at, permits, proc, result>>
  BY DEF Arrive, Undecided, prepVars
<1>2. Typed' /\ Unloaded' /\ ArrivedPrepared'
  BY <1>1 DEF Typed, Unloaded, ArrivedPrepared
<1>3. Undecided'
  BY <1>1 DEF Undecided
<1>4. ASSUME NEW q \in Procs, proc[q] \in {"stamp", "announce", "event"} \/ HasReplayed(q)'
      PROVE  arrived' = Procs
  <2>1. proc[q] \in {"stamp", "announce", "event"} \/ HasReplayed(q)
    BY <1>1, <1>4 DEF HasReplayed
  <2>2. arrived = Procs
    BY <2>1 DEF BeyondBarrier
  <2> QED BY <1>1, <2>2
<1>5. BeyondBarrier'
  BY <1>1, <1>4 DEF BeyondBarrier
<1> QED BY <1>2, <1>3, <1>5

\* The steps beyond the barrier, which change what one process does.
LEMMA BeyondStart ==
  ASSUME StartInv, NEW p \in Procs,
         \/ Pass(p) \/ Broken(p) \/ GetZero(p) \/ Replay(p)
         \/ p = Main /\ Coordinate
  PROVE  StartInv'
<1> USE DEF StartInv
<1>1. /\ UNCHANGED <<at, permits, arrived, barrier>>
      /\ proc[p] \notin {"load", "prepare"}
      /\ \E a \in Parts, r \in Ends :
           /\ a \notin {"load", "prepare", "barrier"}
           /\ proc' = [proc EXCEPT ![p] = a]
           /\ result' = [result EXCEPT ![p] = r]
           /\ a \in {"stamp", "announce", "event", "replay"} \/ r \in {"ok", "failed"}
                => arrived = Procs
  <2>1. CASE Pass(p)
    <3>1. result' = [result EXCEPT ![p] = result[p]] /\ result[p] \in Ends
      BY <2>1 DEF Pass, Typed
    <3> QED BY <2>1, <3>1 DEF Pass, BeyondBarrier, Parts, prepVars, startVars
  <2>2. CASE Broken(p)
    BY <2>2 DEF Broken, Parts, Ends, prepVars, startVars
  <2>3. CASE GetZero(p)
    <3>1. arrived = Procs
      BY <2>3 DEF GetZero, BeyondBarrier
    <3> QED BY <2>3, <3>1 DEF GetZero, Typed, Parts, Ends, prepVars, startVars
  <2>4. CASE Replay(p)
    <3>1. arrived = Procs
      BY <2>4 DEF Replay, BeyondBarrier, HasReplayed
    <3> QED BY <2>4, <3>1 DEF Replay, Typed, Parts, Ends, prepVars, startVars
  <2>5. CASE p = Main /\ Coordinate
    <3>1. arrived = Procs
      BY <2>5 DEF Coordinate, BeyondBarrier
    <3>2. result' = [result EXCEPT ![p] = result[p]] /\ result[p] \in Ends
      BY <2>5 DEF Coordinate, Typed
    <3>3. PICK a \in {"announce", "replay"} : proc' = [proc EXCEPT ![p] = a]
      BY <2>5 DEF Coordinate
    <3> QED BY <2>5, <3>1, <3>2, <3>3 DEF Coordinate, StampFirst, Parts, prepVars
  <2> QED BY <2>1, <2>2, <2>3, <2>4, <2>5
<1>2. PICK a \in Parts, r \in Ends :
        /\ a \notin {"load", "prepare", "barrier"}
        /\ proc' = [proc EXCEPT ![p] = a]
        /\ result' = [result EXCEPT ![p] = r]
        /\ a \in {"stamp", "announce", "event", "replay"} \/ r \in {"ok", "failed"}
             => arrived = Procs
  BY <1>1
<1>3. Typed' /\ Unloaded' /\ ArrivedPrepared'
  BY <1>1, <1>2 DEF Typed, Unloaded, ArrivedPrepared
<1>4. Undecided' /\ BeyondBarrier'
  BY <1>1, <1>2 DEF Undecided, BeyondBarrier, HasReplayed, Typed
<1> QED BY <1>3, <1>4

\* Tearing down, collecting results, watching and crashing.
LEMMA EndStart ==
  ASSUME StartInv,
         \/ \E s \in Sessions : TearDown(s)
         \/ \E p \in Procs : TornDown(p)
         \/ \E w \in WorkerProcs : Watch(w) \/ WatchAborts(w)
         \/ Gather \/ Crash
  PROVE  StartInv'
<1> USE DEF StartInv
<1>1. ASSUME NEW s \in Sessions, TearDown(s) PROVE StartInv'
  <2>1. at[s] = "prepared" /\ at' = [at EXCEPT ![s] = "removed"] /\ UNCHANGED <<permits, proc, startVars, result>>
    BY <1>1 DEF TearDown
  <2>2. Typed' /\ ArrivedPrepared'
    BY <2>1, ChunksPartition DEF Typed, ArrivedPrepared, startVars, Stages
  <2>3. Unloaded'
    BY <2>1, ChunksPartition DEF Unloaded, Typed
  <2> QED BY <2>1, <2>2, <2>3 DEF Undecided, BeyondBarrier, HasReplayed, startVars
<1>2. ASSUME NEW p \in Procs, TornDown(p) PROVE StartInv'
  <2>1. PICK a \in {"done", "gather", "over"} : proc' = [proc EXCEPT ![p] = a]
    BY <1>2 DEF TornDown
  <2>2. UNCHANGED <<at, permits, arrived, result>> /\ (barrier' = "draining" => barrier = "draining")
    BY <1>2 DEF TornDown, Abort, prepVars, startVars
  <2> QED BY <2>1, <2>2 DEF Typed, Unloaded, ArrivedPrepared, Undecided, BeyondBarrier, HasReplayed, Parts
<1>3. ASSUME NEW w \in WorkerProcs, Watch(w) \/ WatchAborts(w) PROVE StartInv'
  <2>1. UNCHANGED <<at, permits, arrived, result, proc>> /\ (barrier' = "draining" => barrier = "draining")
    BY <1>3 DEF Watch, WatchAborts, Abort, prepVars, startVars
  <2> QED BY <2>1 DEF Typed, Unloaded, ArrivedPrepared, Undecided, BeyondBarrier, HasReplayed
<1>4. ASSUME Gather PROVE StartInv'
  <2>1. /\ UNCHANGED <<at, permits, arrived, result>> /\ barrier' = "broken"
        /\ proc' = [proc EXCEPT ![Main] = "final"]
    BY <1>4 DEF Gather, Abort, prepVars
  <2> QED BY <2>1 DEF Typed, Unloaded, ArrivedPrepared, Undecided, BeyondBarrier, HasReplayed, Parts
<1>5. ASSUME Crash PROVE StartInv'
  <2>1. /\ UNCHANGED <<at, permits, arrived, barrier>>
        /\ proc' = [p \in Procs |-> IF p \in WorkerProcs /\ ~Ended(p) THEN "dead" ELSE proc[p]]
        /\ result' = [p \in Procs |-> IF p \in WorkerProcs /\ ~Ended(p) THEN "crashed" ELSE result[p]]
    BY <1>5 DEF Crash, startVars
  <2>2. Typed'
    BY <2>1 DEF Typed, Parts, Ends
  <2>3. Unloaded' /\ ArrivedPrepared' /\ Undecided'
    BY <2>1 DEF Unloaded, ArrivedPrepared, Undecided
  <2>4. BeyondBarrier'
    BY <2>1 DEF BeyondBarrier, HasReplayed
  <2> QED BY <2>2, <2>3, <2>4
<1> QED BY <1>1, <1>2, <1>3, <1>4, <1>5

\* Every step preserves the invariant.
LEMMA NextStartInv == StartInv /\ [Next]_vars => StartInv'
<1> SUFFICES ASSUME StartInv, [Next]_vars PROVE StartInv'
  OBVIOUS
<1>1. CASE \E s \in Sessions : Prepare(s)
  BY <1>1, PrepareStart
<1>2. CASE \E p \in Procs : Proceed(p)
  BY <1>2, SettleStart, ArriveStart, BeyondStart, EndStart DEF Proceed
<1>3. CASE \E w \in WorkerProcs : WorkerStep(w)
  <2>1. WorkerProcs \subseteq Procs
    BY DEF WorkerProcs
  <2> QED BY <1>3, <2>1, LoadStart, BeyondStart, EndStart DEF WorkerStep
<1>4. CASE Coordinate
  BY <1>4, BeyondStart, ChunksPartition
<1>5. CASE Gather \/ Crash \/ \E s \in Sessions : TearDown(s)
  BY <1>5, EndStart
<1>6. CASE UNCHANGED vars
  BY <1>6 DEF StartInv, Typed, Unloaded, ArrivedPrepared, Undecided, BeyondBarrier, HasReplayed, vars
<1> QED BY <1>1, <1>2, <1>3, <1>4, <1>5, <1>6 DEF Next

\* Nobody replays before every session of every process has been prepared,
\* whichever preparations fail and whichever workers die.
THEOREM NobodyReplaysEarly == Spec => []ReplayAfterAllPrepared
<1>1. StartInv => ReplayAfterAllPrepared
  BY ChunksPartition DEF StartInv, BeyondBarrier, ArrivedPrepared, ReplayAfterAllPrepared
<1> QED BY <1>1, InitStartInv, NextStartInv, PTL DEF Spec

-----------------------------------------------------------------------------
(* The preparation limit.                                                   *)

\* Permits and holders add up.
PermitInv == IsFiniteSet(Holders) /\ permits + Cardinality(Holders) = PrepLimit

\* No session holds a permit at the start.
LEMMA InitPermitInv == Init => PermitInv
<1> SUFFICES ASSUME Init PROVE PermitInv
  OBVIOUS
<1>1. Holders = {}
  BY DEF Init, Holders, Permitted
<1> QED BY <1>1, FS_EmptySet, StartAssumption DEF Init, PermitInv

\* A step keeps the sum: what leaves the semaphore is held and what is given up
\* returns.
LEMMA NextPermitInv == StartInv /\ PermitInv /\ [Next]_vars => PermitInv'
<1> SUFFICES ASSUME StartInv, PermitInv, [Next]_vars PROVE PermitInv'
  OBVIOUS
<1> USE DEF StartInv
<1>1. ASSUME NEW s \in Sessions, Prepare(s) PROVE PermitInv'
  <2>1. PICK v \in Stages :
          /\ at' = [at EXCEPT ![s] = v]
          /\ permits' = CASE at[s] \in Permitted /\ v \notin Permitted -> permits + 1
                          [] at[s] \notin Permitted /\ v \in Permitted -> permits - 1
                          [] OTHER -> permits
          /\ at[s] \notin Permitted /\ v \in Permitted => permits > 0
    BY <1>1, PrepareShape
  <2> USE DEF PermitInv, Typed
  <2>2. PrepLimit \in Nat /\ Cardinality(Holders) \in Nat
    BY StartAssumption, FS_CardinalityType
  <2>3. CASE at[s] \in Permitted /\ v \notin Permitted
    <3>1. Holders' = Holders \ {s} /\ s \in Holders
      BY <2>1, <2>3 DEF Holders
    <3> DEFINE H == Holders
               K == Holders'
    <3>2. K = H \ {s} /\ s \in H /\ IsFiniteSet(H)
      BY <3>1
    <3> HIDE DEF H, K
    <3>3. IsFiniteSet(K) /\ Cardinality(K) = Cardinality(H) - 1
      BY <3>2, FS_RemoveElement, Zenon
    <3>4. permits' = permits + 1 /\ permits \in Nat
      BY <2>1, <2>3
    <3> QED BY <2>2, <3>3, <3>4 DEF H, K
  <2>4. CASE at[s] \notin Permitted /\ v \in Permitted
    <3>1. Holders' = Holders \cup {s} /\ s \notin Holders
      BY <2>1, <2>4 DEF Holders
    <3> DEFINE H == Holders
               K == Holders'
    <3>2. K = H \cup {s} /\ s \notin H /\ IsFiniteSet(H)
      BY <3>1
    <3> HIDE DEF H, K
    <3>3. IsFiniteSet(K) /\ Cardinality(K) = Cardinality(H) + 1
      BY <3>2, FS_AddElement, Zenon
    <3>4. permits' = permits - 1 /\ permits \in Nat /\ permits > 0
      BY <2>1, <2>4
    <3> QED BY <2>2, <3>3, <3>4 DEF H, K
  <2>5. CASE at[s] \in Permitted <=> v \in Permitted
    <3>1. Holders' = Holders
      BY <2>1, <2>5 DEF Holders
    <3> QED BY <2>1, <2>5, <3>1
  <2> QED BY <2>3, <2>4, <2>5
<1>2. ASSUME NEW w \in WorkerProcs, Load(w) PROVE PermitInv'
  <2>1. proc[w] = "load" /\ w \in Procs /\ UNCHANGED permits
    BY <1>2 DEF Load, WorkerProcs
  <2>2. \A s \in SessionsOf(w) : at[s] = "new"
    BY <2>1 DEF Unloaded
  <2>3. \A s \in Sessions : at'[s] \in Permitted <=> at[s] \in Permitted
    BY <1>2, <2>2 DEF Load, Permitted
  <2>4. Holders' = Holders
    BY <2>3 DEF Holders
  <2> QED BY <2>1, <2>4 DEF PermitInv
<1>3. ASSUME NEW s \in Sessions, TearDown(s) PROVE PermitInv'
  <2>1. UNCHANGED permits /\ \A t \in Sessions : at'[t] \in Permitted <=> at[t] \in Permitted
    BY <1>3 DEF TearDown, Typed, Permitted
  <2>2. Holders' = Holders
    BY <2>1 DEF Holders
  <2> QED BY <2>1, <2>2 DEF PermitInv
<1>4. ASSUME UNCHANGED <<at, permits>> PROVE PermitInv'
  BY <1>4 DEF PermitInv, Holders
<1>5. ASSUME NEW p \in Procs, Proceed(p) PROVE PermitInv'
  <2>1. UNCHANGED <<at, permits>>
    BY <1>5 DEF Proceed, Settle, Arrive, Pass, Broken, Replay, TornDown, prepVars
  <2> QED BY <1>4, <2>1
<1>6. ASSUME NEW w \in WorkerProcs, GetZero(w) \/ Watch(w) \/ WatchAborts(w) PROVE PermitInv'
  <2>1. UNCHANGED <<at, permits>>
    BY <1>6 DEF GetZero, Watch, WatchAborts, prepVars
  <2> QED BY <1>4, <2>1
<1>7. ASSUME Coordinate \/ Gather \/ Crash \/ UNCHANGED vars PROVE PermitInv'
  <2>1. UNCHANGED <<at, permits>>
    BY <1>7 DEF Coordinate, Gather, Crash, prepVars, vars
  <2> QED BY <1>4, <2>1
<1> QED BY <1>1, <1>2, <1>3, <1>5, <1>6, <1>7 DEF Next, WorkerStep

\* However many processes there are, no more than PrepLimit containers are being
\* prepared at once, and a permit is missing only while its holder has it.
THEOREM PreparationIsLimited == Spec => []PrepLimited
<1>1. StartInv /\ PermitInv => PrepLimited
  <2> SUFFICES ASSUME StartInv, PermitInv PROVE PrepLimited
    OBVIOUS
  <2>1. Cardinality(Holders) \in Nat /\ permits \in Nat /\ PrepLimit \in Nat
    BY FS_CardinalityType, StartAssumption DEF PermitInv, StartInv, Typed
  <2> QED BY <2>1 DEF PermitInv, PrepLimited
<1> QED BY <1>1, InitStartInv, NextStartInv, InitPermitInv, NextPermitInv, PTL DEF Spec
-----------------------------------------------------------------------------
(* What is left running.                                                    *)

\* A running container belongs to a session that is somewhere in between.
UpStages ==
  up \subseteq {s \in Sessions :
    at[s] \in {"probe", "bootstrap", "agent", "stop", "discard", "prepared", "leaked"}}

\* Whoever has settled prepares nothing any more, and whoever is through has
\* torn down what it had prepared.
Through ==
  \A p \in Procs : \A s \in SessionsOf(p) :
    /\ proc[p] \in {"barrier", "stamp", "announce", "event", "replay", "cleanup", "gather", "final"}
         => at[s] \in Settled \cup {"new", "removed"}
    /\ proc[p] \in {"done", "over"} => at[s] \in {"new", "failed", "leaked", "removed"}

\* The main process ends after its workers.
LastOut == proc[Main] \in {"final", "over"} => \A w \in WorkerProcs : Ended(w)

LeakInv == Typed /\ UpStages /\ Through /\ LastOut

\* Nothing runs at the start.
LEMMA InitLeakInv == Init => LeakInv
<1> SUFFICES ASSUME Init PROVE LeakInv
  OBVIOUS
<1>1. Typed
  BY InitStartInv DEF StartInv
<1>2. UpStages /\ Through /\ LastOut
  BY ChunksPartition DEF Init, UpStages, Through, LastOut
<1> QED BY <1>1, <1>2 DEF LeakInv

\* A step of a preparation: its process has not settled, or is dead.
LEMMA PrepareLeak ==
  ASSUME LeakInv, NEW s \in Sessions, Prepare(s)
  PROVE  UpStages' /\ Through' /\ LastOut'
<1> USE DEF LeakInv
<1>1. at[s] \notin {"new", "prepared", "removed"} /\ UNCHANGED proc
  BY PrepareShape
<1>2. PICK v \in Stages : at' = [at EXCEPT ![s] = v]
  BY PrepareShape
<1>3. at[s] \notin Settled
  <2>1. CASE Acquire(s) \/ StartContainer(s) \/ Probe(s) \/ Bootstrap(s)
    BY <2>1 DEF Acquire, StartContainer, Probe, Bootstrap, Settled
  <2>2. CASE StartAgent(s) \/ StopContainer(s)
    BY <2>2 DEF StartAgent, StopContainer, Settled
  <2> QED BY <2>1, <2>2 DEF Prepare
<1>4. /\ up' \subseteq up \cup {s}
      /\ s \in up' => at'[s] \in {"probe", "bootstrap", "agent", "stop", "discard", "prepared", "leaked"}
  <2> USE DEF Typed, UpStages
  <2>1. CASE Acquire(s)
    BY <2>1 DEF Acquire
  <2>2. CASE StartContainer(s)
    BY <2>2 DEF StartContainer, FailStart
  <2>3. CASE Probe(s) \/ Bootstrap(s)
    BY <2>3 DEF Probe, Bootstrap, StopFirst
  <2>4. CASE StartAgent(s)
    BY <2>4 DEF StartAgent, StopFirst
  <2>5. CASE StopContainer(s)
    BY <2>5 DEF StopContainer
  <2> QED BY <2>1, <2>2, <2>3, <2>4, <2>5 DEF Prepare
<1>5. UpStages'
  BY <1>2, <1>4 DEF UpStages, Typed
<1>6. Through'
  <2> SUFFICES ASSUME NEW p \in Procs, NEW t \in SessionsOf(p)
               PROVE  /\ proc[p] \in {"barrier", "stamp", "announce", "event", "replay",
                                      "cleanup", "gather", "final"}
                           => at'[t] \in Settled \cup {"new", "removed"}
                      /\ proc[p] \in {"done", "over"} => at'[t] \in {"new", "failed", "leaked", "removed"}
    BY <1>1 DEF Through
  <2>1. CASE t = s
    BY <1>1, <1>3, <2>1 DEF Through, Settled
  <2>2. CASE t # s
    <3>1. at'[t] = at[t]
      BY <1>2, <2>2, ChunksPartition DEF Typed
    <3> QED BY <3>1 DEF Through
  <2> QED BY <2>1, <2>2
<1>7. LastOut'
  BY <1>1 DEF LastOut, Ended
<1> QED BY <1>5, <1>6, <1>7

\* A process goes on, with its sessions where they are.
LEMMA ProceedLeak ==
  ASSUME LeakInv, UNCHANGED <<at, up>>,
         \/ \E p \in Procs : Proceed(p)
         \/ \E w \in WorkerProcs : GetZero(w) \/ Watch(w) \/ WatchAborts(w)
         \/ Coordinate \/ Gather \/ Crash \/ UNCHANGED vars
  PROVE  UpStages' /\ Through' /\ LastOut'
<1> USE DEF LeakInv
<1>1. UpStages'
  BY DEF UpStages
<1>2. ASSUME NEW p \in Procs, NEW a, proc' = [proc EXCEPT ![p] = a],
             \A s \in SessionsOf(p) :
               /\ a \in {"barrier", "stamp", "announce", "event", "replay", "cleanup", "gather", "final"}
                    => at[s] \in Settled \cup {"new", "removed"}
               /\ a \in {"done", "over"} => at[s] \in {"new", "failed", "leaked", "removed"}
      PROVE  Through'
  <2>1. \A q \in Procs : proc'[q] = IF q = p THEN a ELSE proc[q]
    BY <1>2 DEF Typed
  <2> QED BY <1>2, <2>1, Zenon DEF Through
<1>3. ASSUME NEW p \in Procs, Settle(p) PROVE Through'
  <2>1. \A s \in SessionsOf(p) : at[s] \in Settled
    BY <1>3 DEF Settle
  <2>2. proc' = [proc EXCEPT ![p] = "barrier"] \/ proc' = [proc EXCEPT ![p] = "cleanup"]
    BY <1>3 DEF Settle
  <2> QED BY <1>2, <2>1, <2>2
<1>4. ASSUME NEW p \in Procs, Pass(p) \/ Broken(p) \/ Replay(p) \/ TornDown(p) \/ GetZero(p)
                              \/ (p = Main /\ (Coordinate \/ Gather))
      PROVE  Through'
  <2>1. CASE TornDown(p)
    <3>1. \A s \in SessionsOf(p) : at[s] # "prepared"
      BY <2>1 DEF TornDown
    <3>2. proc[p] \in {"cleanup", "final"}
      BY <2>1 DEF TornDown
    <3>3. \A s \in SessionsOf(p) : at[s] \in {"new", "failed", "leaked", "removed"}
      BY <3>1, <3>2 DEF Through, Settled
    <3>4. PICK a \in {"done", "gather", "over"} : proc' = [proc EXCEPT ![p] = a]
      BY <2>1 DEF TornDown
    <3> QED BY <1>2, <3>3, <3>4 DEF Settled
  <2>2. CASE Pass(p) \/ Broken(p) \/ Replay(p) \/ GetZero(p) \/ (p = Main /\ (Coordinate \/ Gather))
    <3>1. proc[p] \in {"barrier", "stamp", "announce", "event", "replay", "cleanup", "gather", "final"}
      BY <2>2 DEF Pass, Broken, Replay, GetZero, Coordinate, Gather
    <3>2. \A s \in SessionsOf(p) : at[s] \in Settled \cup {"new", "removed"}
      BY <3>1 DEF Through
    <3>3. PICK a \in {"stamp", "announce", "event", "replay", "cleanup", "gather", "final"} :
            proc' = [proc EXCEPT ![p] = a]
      BY <2>2 DEF Pass, Broken, Replay, GetZero, Coordinate, Gather
    <3> QED BY <1>2, <3>2, <3>3
  <2> QED BY <1>4, <2>1, <2>2
<1>5. ASSUME UNCHANGED proc PROVE Through' /\ LastOut'
  BY <1>5 DEF Through, LastOut, Ended
<1>6. ASSUME Crash PROVE Through' /\ LastOut'
  <2>1. proc' = [p \in Procs |-> IF p \in WorkerProcs /\ ~Ended(p) THEN "dead" ELSE proc[p]]
    BY <1>6 DEF Crash
  <2>2. \A p \in Procs : proc'[p] = proc[p] \/ proc'[p] = "dead"
    BY <2>1
  <2>3. Through'
    BY <2>2 DEF Through
  <2>4. Main \in Procs /\ Main \notin WorkerProcs /\ WorkerProcs \subseteq Procs
    BY ChunksPartition DEF WorkerProcs
  <2>5. LastOut'
    BY <2>1, <2>4 DEF LastOut, Ended
  <2> QED BY <2>3, <2>5
<1>7. ASSUME Gather PROVE LastOut'
  BY <1>7 DEF Gather, LastOut, Ended, WorkerProcs, Typed
<1>8. ASSUME NEW p \in Procs, Settle(p) \/ Pass(p) \/ Broken(p) \/ Replay(p) \/ TornDown(p) \/ GetZero(p)
                              \/ (p = Main /\ Coordinate)
      PROVE  LastOut'
  <2>1. proc[p] \notin {"done", "dead"}
    BY <1>8 DEF Settle, Pass, Broken, Replay, TornDown, GetZero, Coordinate
  <2>2. PICK a : proc' = [proc EXCEPT ![p] = a] /\ (a \in {"final", "over"} => proc[p] = "final")
    BY <1>8 DEF Settle, Pass, Broken, Replay, TornDown, GetZero, Coordinate
  <2>3. \A q \in Procs : proc'[q] = IF q = p THEN a ELSE proc[q]
    BY <2>2 DEF Typed
  <2>4. Main \in Procs /\ Main \notin WorkerProcs /\ WorkerProcs \subseteq Procs
    BY ChunksPartition DEF WorkerProcs
  <2>5. CASE p = Main
    BY <2>2, <2>3, <2>4, <2>5 DEF LastOut, Ended
  <2>6. CASE p # Main
    <3>1. ~Ended(p) /\ p \in WorkerProcs
      BY <2>1, <2>6 DEF Ended, WorkerProcs
    <3>2. proc[Main] \notin {"final", "over"}
      BY <3>1 DEF LastOut
    <3> QED BY <2>3, <2>4, <2>6, <3>2 DEF LastOut
  <2> QED BY <2>5, <2>6
<1>9. CASE \E p \in Procs : Proceed(p)
  <2>1. PICK p \in Procs : Proceed(p)
    BY <1>9
  <2>2. CASE Arrive(p)
    BY <1>1, <1>5, <2>2 DEF Arrive
  <2> QED BY <1>1, <1>3, <1>4, <1>8, <2>1, <2>2 DEF Proceed
<1>10. CASE \E w \in WorkerProcs : GetZero(w) \/ Watch(w) \/ WatchAborts(w)
  <2>1. PICK w \in WorkerProcs : GetZero(w) \/ Watch(w) \/ WatchAborts(w)
    BY <1>10
  <2>2. w \in Procs
    BY DEF WorkerProcs
  <2>3. CASE Watch(w) \/ WatchAborts(w)
    BY <1>1, <1>5, <2>3 DEF Watch, WatchAborts
  <2> QED BY <1>1, <1>4, <1>8, <2>1, <2>2, <2>3
<1>11. CASE Coordinate \/ Gather
  BY <1>1, <1>4, <1>7, <1>8, <1>11, ChunksPartition
<1>12. CASE Crash \/ UNCHANGED vars
  BY <1>1, <1>5, <1>6, <1>12 DEF vars
<1> QED BY <1>9, <1>10, <1>11, <1>12

\* A worker loads, or a session is torn down.
LEMMA SessionsLeak ==
  ASSUME LeakInv, Unloaded,
         \/ \E w \in WorkerProcs : Load(w)
         \/ \E s \in Sessions : TearDown(s)
  PROVE  UpStages' /\ Through' /\ LastOut'
<1> USE DEF LeakInv
<1>1. ASSUME NEW w \in WorkerProcs, Load(w) PROVE UpStages' /\ Through' /\ LastOut'
  <2>1. /\ w \in Procs /\ proc[w] = "load" /\ up' = up /\ w # Main /\ Main \in Procs
        /\ \A s \in SessionsOf(w) : at[s] = "new"
    BY <1>1, ChunksPartition DEF Load, WorkerProcs, Unloaded
  <2>2. LastOut'
    BY <1>1, <2>1 DEF Load, LastOut, Ended, Typed, WorkerProcs
  <2>3. CASE proc' = [proc EXCEPT ![w] = "prepare"]
    <3>1. at' = [s \in Sessions |-> IF s \in SessionsOf(w) THEN "permit" ELSE at[s]]
      <4>1. proc[w] = "load" /\ proc'[w] = "prepare"
        BY <2>1, <2>3 DEF Typed
      <4>2. proc' # [proc EXCEPT ![w] = "done"]
        BY <2>1, <4>1 DEF Typed
      <4> QED BY <1>1, <4>2 DEF Load
    <3>2. UpStages'
      BY <2>1, <3>1 DEF UpStages
    <3>3. \A p \in Procs : p # w => proc'[p] = proc[p] /\ \A s \in SessionsOf(p) : at'[s] = at[s]
      BY <2>1, <2>3, <3>1, ChunksPartition DEF Typed
    <3>4. proc'[w] = "prepare"
      BY <2>1, <2>3 DEF Typed
    <3>5. Through'
      BY <3>3, <3>4 DEF Through
    <3> QED BY <2>2, <3>2, <3>5
  <2>4. CASE proc' = [proc EXCEPT ![w] = "done"] /\ UNCHANGED at
    <3>1. UpStages'
      BY <2>1, <2>4 DEF UpStages
    <3>2. Through'
      BY <2>1, <2>4 DEF Through, Typed
    <3> QED BY <2>2, <3>1, <3>2
  <2> QED BY <1>1, <2>3, <2>4 DEF Load
<1>2. ASSUME NEW s \in Sessions, TearDown(s) PROVE UpStages' /\ Through' /\ LastOut'
  <2>1. /\ at[s] = "prepared" /\ at' = [at EXCEPT ![s] = "removed"] /\ up' = up \ {s}
        /\ UNCHANGED proc
    BY <1>2 DEF TearDown
  <2>2. UpStages' /\ LastOut'
    BY <2>1 DEF UpStages, LastOut, Ended, Typed
  <2>3. \A t \in Sessions : at'[t] = at[t] \/ at'[t] = "removed"
    BY <2>1 DEF Typed
  <2>4. Through'
    BY <2>1, <2>3, ChunksPartition DEF Through
  <2> QED BY <2>2, <2>4
<1> QED BY <1>1, <1>2

\* Every step preserves the invariant.
LEMMA NextLeakInv == StartInv /\ LeakInv /\ [Next]_vars => LeakInv'
<1> SUFFICES ASSUME StartInv, LeakInv, [Next]_vars PROVE LeakInv'
  OBVIOUS
<1>1. Typed'
  BY NextStartInv DEF StartInv
<1>2. Unloaded
  BY DEF StartInv
<1>3. CASE \E s \in Sessions : Prepare(s)
  BY <1>1, <1>3, PrepareLeak DEF LeakInv
<1>4. CASE (\E w \in WorkerProcs : Load(w)) \/ (\E s \in Sessions : TearDown(s))
  BY <1>1, <1>2, <1>4, SessionsLeak DEF LeakInv
<1>5. CASE \/ \E p \in Procs : Proceed(p)
           \/ \E w \in WorkerProcs : GetZero(w) \/ Watch(w) \/ WatchAborts(w)
           \/ Coordinate \/ Gather \/ Crash \/ UNCHANGED vars
  <2>1. UNCHANGED <<at, up>>
    <3>1. CASE \E p \in Procs : Proceed(p)
      BY <3>1 DEF Proceed, Settle, Arrive, Pass, Broken, Replay, TornDown, prepVars
    <3>2. CASE \E w \in WorkerProcs : GetZero(w) \/ Watch(w) \/ WatchAborts(w)
      BY <3>2 DEF GetZero, Watch, WatchAborts, prepVars
    <3>3. CASE Coordinate \/ Gather \/ Crash \/ UNCHANGED vars
      BY <3>3 DEF Coordinate, Gather, Crash, prepVars, vars
    <3> QED BY <1>5, <3>1, <3>2, <3>3
  <2> QED BY <1>1, <1>5, <2>1, ProceedLeak DEF LeakInv
<1> QED BY <1>3, <1>4, <1>5 DEF Next, WorkerStep

\* However many sessions fail to be prepared and whichever workers die, the only
\* containers that outlive the simulation are those without an interpreter and
\* those of dead workers.
THEOREM OnlyKnownOnesLeak == Spec => []OnlyKnownLeaks
<1>1. LeakInv => OnlyKnownLeaks
  <2> SUFFICES ASSUME LeakInv, proc[Main] = "over", NEW s \in up
               PROVE  at[s] = "leaked" \/ proc[ProcOf(s)] = "dead"
    BY DEF OnlyKnownLeaks
  <2>1. /\ s \in Sessions
        /\ at[s] \in {"probe", "bootstrap", "agent", "stop", "discard", "prepared", "leaked"}
    BY DEF LeakInv, UpStages
  <2>2. ProcOf(s) \in Procs /\ s \in SessionsOf(ProcOf(s))
    BY <2>1, ChunksPartition
  <2>3. CASE ProcOf(s) = Main
    BY <2>1, <2>2, <2>3 DEF LeakInv, Through
  <2>4. CASE ProcOf(s) # Main
    <3>1. Ended(ProcOf(s))
      BY <2>2, <2>4 DEF LeakInv, LastOut, WorkerProcs
    <3> QED BY <2>1, <2>2, <3>1 DEF LeakInv, Through, Ended
  <2> QED BY <2>3, <2>4
<1> QED BY <1>1, InitStartInv, NextStartInv, InitLeakInv, NextLeakInv, PTL DEF Spec

-----------------------------------------------------------------------------
(* The start of a replay is global: whatever breaks the barrier or sets the *)
(* event to release the peers cannot, once everyone has arrived, make one   *)
(* process give up while another replays.                                   *)

\* A worker has been killed; nothing that excuses a partial start has happened.
Crashed == \E w \in WorkerProcs : result[w] = "crashed"
Sound == result[Main] # "failed" /\ ~Crashed

Early == {"load", "prepare", "barrier"}

\* What the main process and its workers may be doing.
Roles ==
  /\ proc[Main] \in {"prepare", "barrier", "stamp", "announce", "replay",
                     "cleanup", "gather", "final", "over"}
  /\ \A w \in WorkerProcs :
       proc[w] \in {"load", "prepare", "barrier", "event", "replay", "cleanup",
                    "done", "dead"}
  /\ watch \in [WorkerProcs -> {"waits", "aborts", "over"}]
  /\ barrier \in {"filling", "draining", "broken"}

\* A result is final, and the main process cleans up only after a failure.
ResultsFinal ==
  /\ \A p \in Procs :
       proc[p] \in Early \cup {"stamp", "announce", "event", "replay"} => result[p] = "none"
  /\ \A w \in WorkerProcs : result[w] = "crashed" <=> proc[w] = "dead"
  /\ proc[Main] = "cleanup" => result[Main] \in {"failed", "aborted"}

\* While the barrier fills, nobody has been released from it, for good or bad.
Filling ==
  barrier = "filling" =>
    /\ arrived # Procs
    /\ ~Crashed =>
         /\ \A p \in Procs : proc[p] \in Early
         /\ \A w \in WorkerProcs : watch[w] = "waits"
         /\ ~event

\* When everyone has arrived, and until a worker dies or the main process fails,
\* the barrier is broken and the event set only when that harms no one.
Released ==
  arrived = Procs /\ Sound =>
    /\ \A p \in Procs : result[p] # "aborted"
    /\ \/ barrier = "draining"
       \/ proc[Main] \in {"gather", "final", "over"} /\ \A w \in WorkerProcs : Ended(w)
    /\ event => zero
    /\ proc[Main] \notin {"barrier", "stamp"} => zero
    /\ \A w \in WorkerProcs :
         /\ watch[w] # "aborts"
         /\ proc[w] \in {"replay", "cleanup", "done"} => event

GlobalInv == Roles /\ ResultsFinal /\ Filling /\ Released

-----------------------------------------------------------------------------
(* The steps.                                                               *)

\* The main process is no worker.
LEMMA MainWorkers ==
  /\ Main \in Procs /\ WorkerProcs \subseteq Procs /\ Main \notin WorkerProcs
  /\ Procs = WorkerProcs \cup {Main}
BY ChunksPartition DEF WorkerProcs

\* Initially the barrier fills.
LEMMA InitGlobal == Init => GlobalInv
<1> SUFFICES ASSUME Init PROVE GlobalInv
  OBVIOUS
<1> USE MainWorkers DEF Init
<1>1. Roles /\ ResultsFinal
  BY DEF Roles, ResultsFinal, Early
<1>2. Filling /\ Released
  BY <1>1 DEF Filling, Released, Early
<1> QED BY <1>1, <1>2 DEF GlobalInv

\* Preparing and tearing down sessions leave all this alone.
LEMMA FrameGlobal ==
  ASSUME GlobalInv, UNCHANGED <<proc, result, watch, arrived, barrier, event, zero>>
  PROVE  GlobalInv'
BY DEF GlobalInv, Roles, ResultsFinal, Filling, Released, Sound, Crashed, Ended

\* One process moves: its result becomes final once, and deaths stay.
LEMMA SoundStays ==
  ASSUME StartInv, GlobalInv, NEW p \in Procs, NEW a, NEW r,
         proc' = [proc EXCEPT ![p] = a], result' = [result EXCEPT ![p] = r],
         proc[p] # "dead", r # result[p] => result[p] = "none"
  PROVE  Sound' => Sound
<1> USE MainWorkers DEF StartInv, Typed
<1>1. Crashed => Crashed'
  <2> SUFFICES ASSUME NEW w \in WorkerProcs, result[w] = "crashed" PROVE result'[w] = "crashed"
    BY DEF Crashed
  <2>1. proc[w] = "dead"
    BY DEF GlobalInv, ResultsFinal
  <2> QED BY <2>1
<1>2. result[Main] = "failed" => result'[Main] = "failed"
  BY <1>1
<1> QED BY <1>1, <1>2 DEF Sound

\* A process that fails before the barrier breaks it for all.
LEMMA FailGlobal ==
  ASSUME StartInv, GlobalInv, NEW p \in Procs, NEW a \in {"cleanup", "done"},
         proc[p] \in {"load", "prepare"}, p = Main => a = "cleanup",
         proc' = [proc EXCEPT ![p] = a], result' = [result EXCEPT ![p] = "failed"],
         Abort, UNCHANGED watch
  PROVE  GlobalInv'
<1> USE MainWorkers DEF StartInv, Typed
<1>1. p \notin arrived /\ arrived' = arrived /\ barrier' = "broken"
  BY DEF Undecided, Abort
<1>2. Roles' /\ ResultsFinal'
  BY <1>1 DEF GlobalInv, Roles, ResultsFinal, Early
<1>3. Filling' /\ Released'
  BY <1>1 DEF Filling, Released
<1> QED BY <1>2, <1>3 DEF GlobalInv

\* A process goes on before the barrier.
LEMMA EarlyGlobal ==
  ASSUME StartInv, GlobalInv, NEW p \in Procs, NEW a \in {"prepare", "barrier"},
         proc[p] \in {"load", "prepare"},
         proc' = [proc EXCEPT ![p] = a],
         UNCHANGED <<result, watch, arrived, barrier, event, zero>>
  PROVE  GlobalInv'
<1> USE MainWorkers DEF StartInv, Typed
<1>1. p \notin arrived
  BY DEF Undecided
<1>2. Roles' /\ ResultsFinal'
  BY DEF GlobalInv, Roles, ResultsFinal, Early
<1>3. Filling' /\ Released'
  BY <1>1 DEF GlobalInv, Filling, Released, Crashed, Early
<1> QED BY <1>2, <1>3 DEF GlobalInv

\* The last arrival: nothing has been released or aborted before it.
LEMMA ArriveGlobal ==
  ASSUME StartInv, GlobalInv, NEW p \in Procs, Arrive(p)
  PROVE  GlobalInv'
<1> USE MainWorkers DEF StartInv, Typed
<1>1. /\ barrier = "filling" /\ arrived' = arrived \cup {p}
      /\ barrier' = (IF arrived' = Procs THEN "draining" ELSE "filling")
      /\ UNCHANGED <<proc, result, watch, event, zero>>
  BY DEF Arrive
<1>2. Roles' /\ ResultsFinal'
  BY <1>1 DEF GlobalInv, Roles, ResultsFinal
<1>3. Filling'
  BY <1>1 DEF GlobalInv, Filling, Crashed
<1>4. Released'
  <2> SUFFICES ASSUME arrived' = Procs, Sound' PROVE Released'
    BY DEF Released
  <2>1. ~Crashed
    BY <1>1 DEF Sound, Crashed
  <2>2. (\A q \in Procs : proc[q] \in Early) /\ (\A w \in WorkerProcs : watch[w] = "waits") /\ ~event
    BY <1>1, <2>1 DEF GlobalInv, Filling
  <2>3. \A q \in Procs : result[q] = "none"
    BY <2>2 DEF GlobalInv, ResultsFinal
  <2>4. proc[Main] = "barrier"
    <3>1. Main \in arrived \/ p = Main
      BY <1>1
    <3>2. proc[Main] \notin {"load", "prepare"}
      BY <3>1 DEF Undecided, Arrive
    <3> QED BY <2>2, <3>2 DEF Early
  <2> QED BY <1>1, <2>2, <2>3, <2>4 DEF Released, Early
<1> QED BY <1>2, <1>3, <1>4 DEF GlobalInv

\* Whoever passes the barrier.
LEMMA PassGlobal ==
  ASSUME StartInv, GlobalInv, NEW p \in Procs, Pass(p)
  PROVE  GlobalInv'
<1> USE MainWorkers DEF StartInv, Typed
<1>1. /\ proc[p] = "barrier" /\ barrier = "draining"
      /\ proc' = [proc EXCEPT ![p] = IF p = Main THEN "stamp" ELSE "event"]
      /\ UNCHANGED <<result, watch, arrived, barrier, event, zero>>
  BY DEF Pass, startVars
<1>2. Roles' /\ ResultsFinal'
  BY <1>1 DEF GlobalInv, Roles, ResultsFinal, Early
<1>3. Filling' /\ Released'
  BY <1>1 DEF GlobalInv, Filling, Released, Sound, Crashed
<1> QED BY <1>2, <1>3 DEF GlobalInv

\* Whoever finds the barrier broken: not everyone had arrived, or a worker died
\* or the main process failed.
LEMMA BrokenGlobal ==
  ASSUME StartInv, GlobalInv, NEW p \in Procs, Broken(p)
  PROVE  GlobalInv'
<1> USE MainWorkers DEF StartInv, Typed
<1>1. /\ proc[p] = "barrier" /\ barrier = "broken"
      /\ proc' = [proc EXCEPT ![p] = "cleanup"]
      /\ result' = [result EXCEPT ![p] = "aborted"]
      /\ UNCHANGED <<watch, arrived, barrier, event, zero>>
  BY DEF Broken, startVars
<1>2. Roles' /\ ResultsFinal'
  BY <1>1 DEF GlobalInv, Roles, ResultsFinal, Early
<1>3. Sound' => Sound
  BY <1>1, SoundStays DEF Undecided
<1>4. ~(arrived = Procs /\ Sound)
  BY <1>1 DEF GlobalInv, Released, Ended
<1>5. Filling' /\ Released'
  BY <1>1, <1>3, <1>4 DEF Filling, Released
<1> QED BY <1>2, <1>5 DEF GlobalInv

\* A worker reads the time zero.
LEMMA GetZeroGlobal ==
  ASSUME StartInv, GlobalInv, NEW w \in WorkerProcs, GetZero(w)
  PROVE  GlobalInv'
<1> USE MainWorkers DEF StartInv, Typed
<1>1. /\ proc[w] = "event" /\ event
      /\ proc' = [proc EXCEPT ![w] = IF zero THEN "replay" ELSE "cleanup"]
      /\ result' = [result EXCEPT ![w] = IF zero THEN result[w] ELSE "aborted"]
      /\ UNCHANGED <<watch, arrived, barrier, event, zero>>
  BY DEF GetZero, startVars
<1>2. result[w] = "none" /\ arrived = Procs
  BY <1>1 DEF GlobalInv, ResultsFinal, BeyondBarrier
<1>3. Roles' /\ ResultsFinal'
  BY <1>1, <1>2 DEF GlobalInv, Roles, ResultsFinal, Early
<1>4. Sound' => Sound
  BY <1>1, <1>2, SoundStays
<1>5. Filling'
  BY <1>1, <1>2 DEF GlobalInv, Filling
<1>6. Released'
  BY <1>1, <1>2, <1>4 DEF GlobalInv, Released, Ended
<1> QED BY <1>3, <1>5, <1>6 DEF GlobalInv

\* A process has replayed.
LEMMA ReplayGlobal ==
  ASSUME StartInv, GlobalInv, NEW p \in Procs, Replay(p)
  PROVE  GlobalInv'
<1> USE MainWorkers DEF StartInv, Typed
<1>1. PICK r \in {"ok", "failed"} :
        /\ proc[p] = "replay"
        /\ result' = [result EXCEPT ![p] = r]
        /\ proc' = [proc EXCEPT ![p] = IF p = Main /\ r = "ok" THEN "gather" ELSE "cleanup"]
        /\ UNCHANGED <<watch, arrived, barrier, event, zero>>
  BY DEF Replay, startVars
<1>2. result[p] = "none" /\ arrived = Procs
  BY <1>1 DEF GlobalInv, ResultsFinal, BeyondBarrier, HasReplayed
<1>3. Roles' /\ ResultsFinal'
  BY <1>1, <1>2 DEF GlobalInv, Roles, ResultsFinal, Early
<1>4. Sound' => Sound
  BY <1>1, <1>2, SoundStays
<1>5. Filling'
  BY <1>1, <1>2 DEF GlobalInv, Filling
<1>6. Released'
  BY <1>1, <1>2, <1>4 DEF GlobalInv, Released, Ended, Sound
<1> QED BY <1>3, <1>5, <1>6 DEF GlobalInv

\* A process has torn down its sessions.
LEMMA TornDownGlobal ==
  ASSUME StartInv, GlobalInv, NEW p \in Procs, TornDown(p)
  PROVE  GlobalInv'
<1> USE MainWorkers DEF StartInv, Typed
<1>1. UNCHANGED <<result, watch, arrived, zero>>
  BY DEF TornDown, Abort, startVars
<1>2. CASE p # Main /\ proc[p] = "cleanup" /\ proc' = [proc EXCEPT ![p] = "done"] /\ UNCHANGED startVars
  <2>1. Roles' /\ ResultsFinal'
    BY <1>1, <1>2 DEF GlobalInv, Roles, ResultsFinal, Early, startVars
  <2>2. Filling' /\ Released'
    BY <1>1, <1>2 DEF GlobalInv, Filling, Released, Sound, Crashed, Ended, Early, startVars
  <2> QED BY <2>1, <2>2 DEF GlobalInv
<1>3. CASE p = Main /\ proc[p] = "cleanup" /\ proc' = [proc EXCEPT ![p] = "gather"] /\ Abort
  <2>1. ~(arrived = Procs /\ Sound)
    BY <1>3 DEF GlobalInv, ResultsFinal, Released, Sound
  <2>2. Roles' /\ ResultsFinal'
    BY <1>1, <1>3 DEF GlobalInv, Roles, ResultsFinal, Early, Abort
  <2>3. Filling' /\ Released'
    BY <1>1, <1>3, <2>1 DEF Filling, Released, Sound, Crashed, Abort
  <2> QED BY <2>2, <2>3 DEF GlobalInv
<1>4. CASE proc[p] = "final" /\ proc' = [proc EXCEPT ![p] = "over"] /\ UNCHANGED startVars
  <2>1. p = Main
    BY <1>4 DEF GlobalInv, Roles
  <2>2. Roles' /\ ResultsFinal'
    BY <1>1, <1>4, <2>1 DEF GlobalInv, Roles, ResultsFinal, Early, startVars
  <2>3. Filling' /\ Released'
    BY <1>1, <1>4, <2>1 DEF GlobalInv, Filling, Released, Sound, Crashed, Ended, Early, startVars
  <2> QED BY <2>2, <2>3 DEF GlobalInv
<1> QED BY <1>2, <1>3, <1>4 DEF TornDown

\* The coordinator writes the time zero before it sets the event.
LEMMA CoordinateGlobal ==
  ASSUME StartInv, GlobalInv, Coordinate
  PROVE  GlobalInv'
<1> USE MainWorkers DEF StartInv, Typed
<1>1. /\ proc[Main] \in {"stamp", "announce"}
      /\ proc' = [proc EXCEPT ![Main] = IF proc[Main] = "stamp" THEN "announce" ELSE "replay"]
      /\ IF proc[Main] = "stamp" THEN zero' = TRUE /\ event' = event
                                 ELSE event' = TRUE /\ zero' = zero
      /\ UNCHANGED <<result, watch, arrived, barrier>>
  BY DEF Coordinate, StampFirst
<1>2. arrived = Procs
  BY <1>1 DEF BeyondBarrier
<1>3. Roles' /\ ResultsFinal'
  BY <1>1 DEF GlobalInv, Roles, ResultsFinal, Early
<1>4. Filling'
  BY <1>1, <1>2 DEF GlobalInv, Filling
<1>5. Released'
  BY <1>1, <1>2 DEF GlobalInv, Released, Sound, Crashed, Ended
<1> QED BY <1>3, <1>4, <1>5 DEF GlobalInv

\* The main process breaks the barrier when all workers have ended.
LEMMA GatherGlobal ==
  ASSUME StartInv, GlobalInv, Gather
  PROVE  GlobalInv'
<1> USE MainWorkers DEF StartInv, Typed
<1>1. /\ proc[Main] = "gather" /\ \A w \in WorkerProcs : Ended(w)
      /\ proc' = [proc EXCEPT ![Main] = "final"]
      /\ barrier' = "broken" /\ event' = TRUE /\ UNCHANGED <<result, watch, arrived, zero>>
  BY DEF Gather, Abort
<1>2. Roles' /\ ResultsFinal'
  BY <1>1 DEF GlobalInv, Roles, ResultsFinal, Early
<1>3. Filling'
  BY <1>1 DEF Filling
<1>4. Released'
  <2> SUFFICES ASSUME arrived' = Procs, Sound' PROVE Released'
    BY DEF Released
  <2>1. arrived = Procs /\ Sound
    BY <1>1 DEF Sound, Crashed
  <2>2. /\ zero /\ \A w \in WorkerProcs : watch[w] # "aborts"
        /\ \A p \in Procs : result[p] # "aborted"
    BY <1>1, <2>1 DEF GlobalInv, Released
  <2>3. \A w \in WorkerProcs : proc'[w] = proc[w]
    BY <1>1
  <2>4. \A w \in WorkerProcs : Ended(w)'
    BY <1>1, <2>3 DEF Ended
  <2> QED BY <1>1, <2>2, <2>4 DEF Released
<1> QED BY <1>2, <1>3, <1>4 DEF GlobalInv

\* A done callback aborts nothing once everyone has arrived: a worker that ends
\* then has seen the event, unless it has been killed.
LEMMA WatchGlobal ==
  ASSUME StartInv, GlobalInv, NEW w \in WorkerProcs, Watch(w) \/ WatchAborts(w)
  PROVE  GlobalInv'
<1> USE MainWorkers DEF StartInv, Typed
<1>1. CASE Watch(w)
  <2>1. /\ Ended(w) /\ watch' = [watch EXCEPT ![w] = IF event THEN "over" ELSE "aborts"]
        /\ UNCHANGED <<proc, result, arrived, barrier, event, zero>>
    BY <1>1 DEF Watch, Started, startVars
  <2>2. Roles' /\ ResultsFinal'
    BY <2>1 DEF GlobalInv, Roles, ResultsFinal
  <2>3. Filling'
    BY <2>1 DEF GlobalInv, Filling, Crashed, Ended, Early
  <2>4. Released'
    <3>1. ~Crashed => proc[w] = "done"
      BY <2>1 DEF GlobalInv, ResultsFinal, Crashed, Ended
    <3> QED BY <2>1, <3>1 DEF GlobalInv, Roles, Released, Sound, Crashed, Ended
  <2> QED BY <2>2, <2>3, <2>4 DEF GlobalInv
<1>2. CASE WatchAborts(w)
  <2>1. /\ watch[w] = "aborts" /\ watch' = [watch EXCEPT ![w] = "over"]
        /\ barrier' = "broken" /\ UNCHANGED <<proc, result, arrived, zero>>
    BY <1>2 DEF WatchAborts, Abort
  <2>2. Roles' /\ ResultsFinal'
    BY <2>1 DEF GlobalInv, Roles, ResultsFinal
  <2>3. Filling' /\ Released'
    BY <2>1 DEF GlobalInv, Filling, Released, Sound, Crashed
  <2> QED BY <2>2, <2>3 DEF GlobalInv
<1> QED BY <1>1, <1>2

\* A crash excuses everything.
LEMMA CrashGlobal ==
  ASSUME StartInv, GlobalInv, Crash
  PROVE  GlobalInv'
<1> USE MainWorkers DEF StartInv, Typed
<1>1. /\ \E w \in WorkerProcs : ~Ended(w)
      /\ proc' = [p \in Procs |-> IF p \in WorkerProcs /\ ~Ended(p) THEN "dead" ELSE proc[p]]
      /\ result' = [p \in Procs |-> IF p \in WorkerProcs /\ ~Ended(p) THEN "crashed" ELSE result[p]]
      /\ UNCHANGED <<watch, arrived, barrier, event, zero>>
  BY DEF Crash, startVars
<1>2. Crashed'
  BY <1>1 DEF Crashed
<1>3. Roles' /\ ResultsFinal'
  BY <1>1 DEF GlobalInv, Roles, ResultsFinal, Early, Ended
<1>4. Filling' /\ Released'
  BY <1>1, <1>2 DEF GlobalInv, Filling, Released, Sound
<1> QED BY <1>3, <1>4 DEF GlobalInv

\* Every step preserves the invariant.
LEMMA NextGlobal == StartInv /\ GlobalInv /\ [Next]_vars => GlobalInv'
<1> SUFFICES ASSUME StartInv, GlobalInv, [Next]_vars PROVE GlobalInv'
  OBVIOUS
<1>1. ASSUME UNCHANGED <<proc, result, watch, arrived, barrier, event, zero>> PROVE GlobalInv'
  BY <1>1, FrameGlobal
<1>2. ASSUME NEW s \in Sessions, Prepare(s) \/ TearDown(s) PROVE GlobalInv'
  BY <1>1, <1>2 DEF Prepare, Acquire, StartContainer, Probe, Bootstrap, StartAgent,
                    StopContainer, TearDown, startVars
<1>3. ASSUME NEW w \in WorkerProcs, Load(w) PROVE GlobalInv'
  <2>1. w \in Procs /\ w # Main
    BY MainWorkers
  <2>2. CASE proc' = [proc EXCEPT ![w] = "prepare"] /\ UNCHANGED <<result, startVars>>
    BY <1>3, <2>1, <2>2, EarlyGlobal DEF Load, startVars
  <2>3. CASE /\ proc' = [proc EXCEPT ![w] = "done"]
             /\ result' = [result EXCEPT ![w] = "failed"] /\ Abort
    <3>1. proc[w] = "load" /\ UNCHANGED watch
      BY <1>3 DEF Load
    <3> QED BY <2>1, <2>3, <3>1, FailGlobal
  <2> QED BY <1>3, <2>2, <2>3 DEF Load
<1>4. ASSUME NEW p \in Procs, Settle(p) PROVE GlobalInv'
  <2>1. CASE proc' = [proc EXCEPT ![p] = "barrier"] /\ UNCHANGED <<startVars, result>>
    BY <1>4, <2>1, EarlyGlobal DEF Settle, startVars
  <2>2. CASE /\ proc' = [proc EXCEPT ![p] = "cleanup"]
             /\ result' = [result EXCEPT ![p] = "failed"] /\ Abort
    <3>1. proc[p] = "prepare" /\ UNCHANGED watch
      BY <1>4 DEF Settle
    <3> QED BY <2>2, <3>1, FailGlobal
  <2> QED BY <1>4, <2>1, <2>2 DEF Settle
<1>5. ASSUME NEW p \in Procs, Proceed(p) PROVE GlobalInv'
  BY <1>4, <1>5, ArriveGlobal, PassGlobal, BrokenGlobal, ReplayGlobal, TornDownGlobal DEF Proceed
<1>6. ASSUME NEW w \in WorkerProcs, WorkerStep(w) PROVE GlobalInv'
  BY <1>3, <1>6, GetZeroGlobal, WatchGlobal DEF WorkerStep
<1>7. CASE Coordinate \/ Gather \/ Crash
  BY <1>7, CoordinateGlobal, GatherGlobal, CrashGlobal
<1>8. CASE UNCHANGED vars
  BY <1>1, <1>8 DEF vars
<1> QED BY <1>2, <1>5, <1>6, <1>7, <1>8 DEF Next

\* If one process replays, none has been turned away, unless a worker was killed
\* or the main process failed.
THEOREM NobodyReplaysAlone == Spec => []StartIsGlobal
<1>1. StartInv /\ GlobalInv => StartIsGlobal
  BY DEF StartInv, BeyondBarrier, GlobalInv, Released, Sound, Crashed, StartIsGlobal
<1> QED BY <1>1, InitStartInv, NextStartInv, InitGlobal, NextGlobal, PTL DEF Spec
=============================================================================
