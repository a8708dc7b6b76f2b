---------------------------- MODULE StoresProofs ----------------------------
(***************************************************************************)
(* Proofs about what concurrent attempts share on the host's disk.  The    *)
(* lock file of the runtime history excludes every other container as long *)
(* as nobody's lock is taken for stale, and until then no install is lost  *)
(* or counted twice; the Personal KB, which has no lock, loses one only in *)
(* a race.  The lock of the package cache keeps the installation scripts   *)
(* apart, a container is ready only with all of its packages, and nothing  *)
(* is installed under an agent that runs.                                  *)
(* For any containers, workers, sets of requirements and bounds.  At the   *)
(* end, the stores together: each is what it is alone.                     *)
(***************************************************************************)
EXTENDS MCStores, MemoryProofs, CacheProofs, TLAPS, FiniteSetTheorems, SequenceTheorems

StepNames ==
  {"new", "want", "break", "load", "write", "unlock", "kbload", "kbopen", "kbput",
   "kbreplace", "row", "idle", "over", "raised", "killed"}

LockTypes ==
  /\ lock \in Containers \cup {Nobody}
  /\ old \in BOOLEAN /\ stale \in BOOLEAN
  /\ step \in [Containers -> StepNames]
  /\ robbed \subseteq Containers

\* Whoever is inside has the lock file, or had it unlinked by somebody else.
InsideHolds == \A p \in Containers : Inside(p) => lock = p \/ p \in robbed

\* A lock file is old, about to be unlinked or has been, only after it was left
\* or held for too long.
StaleFirst ==
  /\ old => stale
  /\ \A p \in Containers : step[p] = "break" => stale
  /\ robbed # {} => stale

LockInv == LockTypes /\ InsideHolds /\ StaleFirst

\* Initially nobody is inside.
LEMMA InitLock == HistInit => LockInv
<1> SUFFICES ASSUME HistInit PROVE LockInv
  OBVIOUS
<1>1. LockTypes
  BY DEF HistInit, LockTypes, StepNames, Nobody
<1>2. InsideHolds /\ StaleFirst
  BY DEF HistInit, InsideHolds, StaleFirst, Inside
<1> QED BY <1>1, <1>2 DEF LockInv

\* A step of one container that leaves the lock file alone, takes nobody inside
\* and goes for no stale lock.
LEMMA FramedStep ==
  ASSUME LockInv, LockFrame, NEW p \in Containers, NEW to \in StepNames \ {"break"},
         step' = [step EXCEPT ![p] = to],
         to \in {"load", "write", "unlock"} => Inside(p)
  PROVE  LockInv'
BY DEF LockInv, LockTypes, InsideHolds, StaleFirst, LockFrame, Inside

\* The steps of a container that leave the lock file alone.
LEMMA QuietStep ==
  ASSUME LockInv, NEW p \in Containers,
         \/ Seed(p) \/ LockTimesOut(p) \/ Load(p) \/ Write(p) \/ WriteFails(p)
         \/ KbLoad(p) \/ KbOpen(p) \/ KbPut(p) \/ KbPutFails(p)
         \/ KbReplace(p) \/ KbReplaceFails(p) \/ AppendRow(p)
         \/ \E how \in {"failed", "kept"} : Install(p, how)
         \/ Merge(p) \/ Kill(p)
  PROVE  LockInv'
<1>1. LockFrame
  BY DEF Seed, LockTimesOut, Load, Write, WriteFails, KbLoad, KbOpen, KbPut, KbPutFails,
         KbReplace, KbReplaceFails, AppendRow, Install, Merge, Kill
<1>2. \E to \in StepNames \ {"break"} :
        /\ step' = [step EXCEPT ![p] = to]
        /\ to \in {"load", "write", "unlock"} => Inside(p)
  BY DEF Seed, LockTimesOut, Load, Write, WriteFails, KbLoad, KbOpen, KbPut, KbPutFails,
         KbReplace, KbReplaceFails, AppendRow, Install, Merge, Kill, Moves,
         PutErrorRaised, Inside, StepNames
<1> QED
  BY <1>1, <1>2, FramedStep

\* Unlinking the lock file by its name, on leaving or for its age.
LEMMA UnlinkStep ==
  ASSUME LockInv, NEW p \in Containers, Unlink(p), NEW to \in StepNames,
         to \notin {"load", "write", "unlock", "break"},
         step' = [step EXCEPT ![p] = to],
         \/ Inside(p)
         \/ step[p] = "break"
  PROVE  LockInv'
<1>1. LockTypes'
  BY DEF LockInv, LockTypes, Unlink
<1>2. InsideHolds'
  BY HistoryAssumption
  DEF LockInv, LockTypes, InsideHolds, Unlink, Inside, Nobody
<1>3. robbed' # {} => stale'
  BY DEF LockInv, LockTypes, InsideHolds, StaleFirst, Unlink, Inside
<1>4. StaleFirst'
  BY <1>3 DEF LockInv, LockTypes, StaleFirst, Unlink
<1> QED
  BY <1>1, <1>2, <1>4 DEF LockInv

\* Every step keeps the lock invariant.
LEMMA NextLock == LockInv /\ [HistNext]_histVars => LockInv'
<1> SUFFICES ASSUME LockInv, [HistNext]_histVars PROVE LockInv'
  OBVIOUS
<1>1. ASSUME NEW p \in Containers, LockTaken(p) PROVE LockInv'
  <2>1. \A q \in Containers : Inside(q) => q \in robbed
    BY <1>1, HistoryAssumption DEF LockInv, InsideHolds, LockTaken, NoLockFile, Nobody
  <2> QED
    BY <1>1, <2>1
    DEF LockInv, LockTypes, InsideHolds, StaleFirst, LockTaken, Moves, Inside, StepNames
<1>2. ASSUME NEW p \in Containers, StaleSeen(p) PROVE LockInv'
  BY <1>2
  DEF LockInv, LockTypes, InsideHolds, StaleFirst, StaleSeen, TooOld, LockFrame, Moves,
      Inside, StepNames
<1>3. ASSUME NEW p \in Containers, StaleBroken(p) PROVE LockInv'
  BY <1>3, UnlinkStep DEF StaleBroken, Moves, StepNames
<1>4. ASSUME NEW p \in Containers, Unlock(p) PROVE LockInv'
  <2>1. PICK to \in StepNames \ {"load", "write", "unlock", "break"} :
          step' = [step EXCEPT ![p] = to]
    <3> DEFINE after == CASE job[p] = "seed" -> "idle" [] job[p] = "finalize" -> "kbload"
                          [] job[p] = "merge" -> "over" [] OTHER -> "raised"
    <3>1. step' = [step EXCEPT ![p] = after]
      BY <1>4 DEF Unlock, Moves
    <3> QED
      BY <1>4, <3>1 DEF Unlock, StepNames
  <2> QED
    BY <1>4, <2>1, UnlinkStep DEF Unlock, Moves, Inside
<1>5. CASE LockAges
  BY <1>5 DEF LockInv, LockTypes, InsideHolds, StaleFirst, LockAges, Inside
<1>6. CASE UNCHANGED histVars
  BY <1>6 DEF LockInv, LockTypes, InsideHolds, StaleFirst, histVars, Inside
<1> QED
  BY <1>1, <1>2, <1>3, <1>4, <1>5, <1>6, QuietStep DEF HistNext, ContainerStep

-----------------------------------------------------------------------------
(* What the rows say.                                                       *)

Observations == Containers \X Nat

RowTypes ==
  /\ call \in [Containers -> Nat]
  /\ result \in [Containers -> {"failed", "kept", "lost"}]
  /\ step \in [Containers -> StepNames]
  /\ log \in Seq(Observations)
  /\ rows \in [Containers -> Seq(Observations \X BOOLEAN \X {"shared"})]
  /\ job \in [Containers -> {"seed", "finalize", "merge", "failed"}]

Logged(o) == \E j \in 1..Len(log) : log[j] = o

\* The steps of a finalize behind its write.
Behind(p) ==
  \/ step[p] = "unlock" /\ job[p] = "finalize"
  \/ step[p] \in {"kbload", "kbopen", "kbput", "kbreplace", "row"}

\* An install that counts as kept has been written.
KeptIsLogged ==
  \A p \in Containers : Behind(p) /\ result[p] = "kept" => Logged(<<p, call[p]>>)

RowInv == RowTypes /\ KeptIsLogged /\ UpdatedWasWritten

\* Initially there are no rows.
LEMMA InitRows == HistInit => RowInv
BY DEF HistInit, RowInv, RowTypes, KeptIsLogged, UpdatedWasWritten, Behind, StepNames

\* What has been logged stays.
LEMMA LogGrows ==
  ASSUME log \in Seq(Observations), NEW s \in Seq(Observations), log' = log \o s, NEW o
  PROVE  /\ log' \in Seq(Observations)
         /\ Logged(o) => Logged(o)'
<1>1. log' \in Seq(Observations) /\ Len(log') = Len(log) + Len(s)
  OBVIOUS
<1>2. \A j \in 1..Len(log) : j \in 1..Len(log') /\ log'[j] = log[j]
  OBVIOUS
<1> QED
  BY <1>1, <1>2 DEF Logged

\* A step that touches neither the log nor the rows and takes nobody behind the
\* write with a kept result.
LEMMA RowFrame ==
  ASSUME RowInv, RowTypes', UNCHANGED <<log, rows>>,
         \A p \in Containers : (Behind(p) /\ result[p] = "kept")' =>
           Behind(p) /\ result[p] = "kept" /\ call'[p] = call[p]
  PROVE  RowInv'
<1>1. \A o : Logged(o)' <=> Logged(o)
  BY DEF Logged
<1>2. KeptIsLogged'
  BY <1>1 DEF RowInv, KeptIsLogged
<1>3. UpdatedWasWritten'
  BY DEF RowInv, UpdatedWasWritten
<1> QED
  BY <1>2, <1>3 DEF RowInv

\* The steps of a container that neither write nor append a row.
LEMMA RowQuiet ==
  ASSUME RowInv, NEW p \in Containers,
         \/ Seed(p) \/ LockTaken(p) \/ StaleSeen(p) \/ StaleBroken(p) \/ LockTimesOut(p)
         \/ Load(p) \/ WriteFails(p) \/ Unlock(p)
         \/ KbLoad(p) \/ KbOpen(p) \/ KbPut(p) \/ KbPutFails(p)
         \/ KbReplace(p) \/ KbReplaceFails(p)
         \/ \E how \in {"failed", "kept"} : Install(p, how)
         \/ Merge(p) \/ Kill(p)
  PROVE  RowInv'
<1> USE DEF RowInv, RowTypes
<1>1. ASSUME Seed(p) \/ LockTaken(p) \/ StaleSeen(p) \/ StaleBroken(p) \/ Load(p)
      PROVE  RowInv'
  <2>1. /\ UNCHANGED <<log, rows, call, result, job>>
        /\ \E to \in {"want", "load", "break", "unlock", "write"} :
             /\ step' = [step EXCEPT ![p] = to]
             /\ to = "unlock" => job[p] = "seed"
    BY <1>1 DEF Seed, LockTaken, StaleSeen, StaleBroken, Load, Moves, CallFrame, HistFrame
  <2>2. RowTypes'
    BY <2>1 DEF StepNames
  <2> QED
    BY <2>1, <2>2, RowFrame DEF Behind
<1>2. CASE LockTimesOut(p)
  <2>1. /\ UNCHANGED <<log, rows, call, job>>
        /\ result' = [result EXCEPT ![p] = IF @ = "kept" THEN "lost" ELSE @]
        /\ \E to \in {"kbload", "raised"} : step' = [step EXCEPT ![p] = to]
    BY <1>2 DEF LockTimesOut, HistFrame, NotUpdated
  <2>2. RowTypes'
    BY <2>1 DEF StepNames
  <2> QED
    BY <2>1, <2>2, RowFrame DEF Behind
<1>3. CASE WriteFails(p)
  <2>1. /\ UNCHANGED <<log, rows, call>>
        /\ result' = [result EXCEPT ![p] = IF @ = "kept" THEN "lost" ELSE @]
        /\ job' = [job EXCEPT ![p] = IF @ = "merge" THEN "failed" ELSE @]
        /\ step' = [step EXCEPT ![p] = "unlock"]
    BY <1>3 DEF WriteFails, HistFrame, NotUpdated, Moves
  <2>2. RowTypes'
    BY <2>1 DEF StepNames
  <2> QED
    BY <2>1, <2>2, RowFrame DEF Behind
<1>4. CASE Unlock(p)
  <2>1. /\ UNCHANGED <<log, rows, call, result, job>>
        /\ step[p] = "unlock"
        /\ \E to \in {"idle", "kbload", "over", "raised"} :
             /\ step' = [step EXCEPT ![p] = to]
             /\ to = "kbload" => job[p] = "finalize"
    BY <1>4 DEF Unlock, Moves, CallFrame, HistFrame
  <2>2. RowTypes'
    BY <2>1 DEF StepNames
  <2> QED
    BY <2>1, <2>2, RowFrame DEF Behind
<1>5. ASSUME \/ KbLoad(p) \/ KbOpen(p) \/ KbPut(p) \/ KbPutFails(p)
             \/ KbReplace(p) \/ KbReplaceFails(p)
      PROVE  RowInv'
  <2>1. /\ UNCHANGED <<log, rows, call, result, job>>
        /\ step[p] \in {"kbload", "kbopen", "kbput", "kbreplace"}
        /\ \E to \in {"kbopen", "kbput", "kbreplace", "row"} : step' = [step EXCEPT ![p] = to]
    BY <1>5 DEF KbLoad, KbOpen, KbPut, KbPutFails, KbReplace, KbReplaceFails, Moves,
      PutErrorRaised, CallFrame, HistFrame
  <2>2. RowTypes'
    BY <2>1 DEF StepNames
  <2> QED
    BY <2>1, <2>2, RowFrame DEF Behind
<1>6. ASSUME NEW how \in {"failed", "kept"}, Install(p, how) PROVE RowInv'
  <2>1. /\ UNCHANGED <<log, rows>>
        /\ call' = [call EXCEPT ![p] = @ + 1]
        /\ result' = [result EXCEPT ![p] = how]
        /\ job' = [job EXCEPT ![p] = "finalize"]
        /\ step' = [step EXCEPT ![p] = "want"]
    BY <1>6 DEF Install, HistFrame, Moves
  <2>2. RowTypes'
    BY <2>1 DEF StepNames
  <2> QED
    BY <2>1, <2>2, RowFrame DEF Behind
<1>7. CASE Merge(p)
  <2>1. /\ UNCHANGED <<log, rows, call, result>>
        /\ job' = [job EXCEPT ![p] = "merge"]
        /\ \E to \in {"over", "want"} : step' = [step EXCEPT ![p] = to]
    BY <1>7 DEF Merge, HistFrame, Moves
  <2>2. RowTypes'
    BY <2>1 DEF StepNames
  <2> QED
    BY <2>1, <2>2, RowFrame DEF Behind
<1>8. CASE Kill(p)
  <2>1. /\ UNCHANGED <<log, rows, call, result, job>>
        /\ step' = [step EXCEPT ![p] = "killed"]
    BY <1>8 DEF Kill, CallFrame, HistFrame
  <2>2. RowTypes'
    BY <2>1 DEF StepNames
  <2> QED
    BY <2>1, <2>2, RowFrame DEF Behind
<1> QED
  BY <1>1, <1>2, <1>3, <1>4, <1>5, <1>6, <1>7, <1>8

\* The write of a finalize logs its install.
LEMMA RowWrite == ASSUME RowInv, NEW p \in Containers, Write(p) PROVE RowInv'
<1> DEFINE s == IF job[p] = "merge" THEN <<>> ELSE Observed(p)
<1> USE DEF RowInv, RowTypes
<1>1. /\ UNCHANGED <<rows, call, result, job>> /\ log' = log \o s
      /\ step' = [step EXCEPT ![p] = "unlock"]
  BY DEF Write, Moves, CallFrame
<1>2. s \in Seq(Observations)
  <2>1. <<p, call[p]>> \in Observations
    BY DEF Observations
  <2>2. s = <<>> \/ s = <<<<p, call[p]>>>>
    BY DEF Observed
  <2> DEFINE o == <<p, call[p]>>
  <2> HIDE DEF s, o
  <2>3. <<o>> \in Seq(Observations) /\ <<>> \in Seq(Observations)
    BY <2>1 DEF o
  <2> QED
    BY <2>2, <2>3 DEF o
<1>3. /\ log' \in Seq(Observations)
      /\ \A o : Logged(o) => Logged(o)'
  BY <1>1, <1>2, LogGrows
<1>4. result[p] = "kept" /\ job[p] = "finalize" => Logged(<<p, call[p]>>)'
  <2> SUFFICES ASSUME result[p] = "kept", job[p] = "finalize"
               PROVE  Logged(<<p, call[p]>>)'
    OBVIOUS
  <2> DEFINE o == <<p, call[p]>>
  <2>1. s = <<o>> /\ o \in Observations
    BY DEF Observed, Observations
  <2> HIDE DEF o, s
  <2>2. Len(log') = Len(log) + 1 /\ log'[Len(log) + 1] = o
    BY <1>1, <2>1
  <2>3. Len(log) + 1 \in 1..Len(log')
    BY <2>2
  <2>4. \E j \in 1..Len(log') : log'[j] = o
    BY <2>2, <2>3
  <2> QED
    BY <1>1, <2>4 DEF Logged, o
<1>5. RowTypes'
  BY <1>1, <1>3 DEF StepNames
<1>6. KeptIsLogged'
  BY <1>1, <1>3, <1>4 DEF KeptIsLogged, Behind
<1>7. UpdatedWasWritten'
  BY <1>1, <1>3 DEF UpdatedWasWritten, Logged
<1> QED
  BY <1>5, <1>6, <1>7

\* A row is appended behind the write.
LEMMA RowAppend == ASSUME RowInv, NEW p \in Containers, AppendRow(p) PROVE RowInv'
<1> USE DEF RowInv, RowTypes
<1> DEFINE r == <<<<p, call[p]>>, result[p] = "kept", "shared">>
<1>1. /\ UNCHANGED <<log, call, result, job>>
      /\ step[p] = "row" /\ step' = [step EXCEPT ![p] = "idle"]
      /\ rows' = [rows EXCEPT ![p] = Append(@, r)]
  BY DEF AppendRow, Moves, HistFrame
<1>2. r \in Observations \X BOOLEAN \X {"shared"}
  BY DEF Observations
<1>3. r[1] = <<p, call[p]>> /\ (r[2] => result[p] = "kept")
  OBVIOUS
<1> HIDE DEF r
<1>4. RowTypes'
  BY <1>1, <1>2 DEF StepNames
<1>5. KeptIsLogged'
  BY <1>1 DEF KeptIsLogged, Behind, Logged
<1>6. r[2] => Logged(r[1])
  BY <1>1, <1>3 DEF KeptIsLogged, Behind
<1>7. ASSUME NEW q \in Containers, NEW i \in 1..Len(rows'[q]), rows'[q][i][2]
      PROVE  Logged(rows'[q][i][1])
  <2>1. CASE q # p
    BY <1>1, <1>7, <2>1 DEF UpdatedWasWritten, Logged
  <2>2. CASE q = p
    <3>1. rows'[p] = Append(rows[p], r) /\ rows[p] \in Seq(Observations \X BOOLEAN \X {"shared"})
      BY <1>1
    <3>2. CASE i = Len(rows[p]) + 1
      BY <1>2, <1>6, <1>7, <2>2, <3>1, <3>2
    <3>3. CASE i # Len(rows[p]) + 1
      <4>1. i \in 1..Len(rows[p]) /\ rows'[p][i] = rows[p][i]
        BY <1>2, <1>7, <2>2, <3>1, <3>3
      <4> QED
        BY <1>7, <2>2, <4>1 DEF UpdatedWasWritten, Logged
    <3> QED
      BY <3>2, <3>3
  <2> QED
    BY <2>1, <2>2
<1>8. UpdatedWasWritten'
  BY <1>1, <1>7 DEF UpdatedWasWritten, Logged
<1> QED
  BY <1>4, <1>5, <1>8

\* Every step keeps the rows true.
LEMMA NextRow == RowInv /\ [HistNext]_histVars => RowInv'
<1> SUFFICES ASSUME RowInv, [HistNext]_histVars PROVE RowInv'
  OBVIOUS
<1>1. CASE LockAges
  BY <1>1, RowFrame DEF LockAges, RowInv, RowTypes, CallFrame, HistFrame, Behind
<1>2. CASE UNCHANGED histVars
  BY <1>2, RowFrame DEF histVars, RowInv, RowTypes, Behind
<1> QED
  BY <1>1, <1>2, RowQuiet, RowWrite, RowAppend DEF HistNext, ContainerStep

-----------------------------------------------------------------------------
(* What the history holds.                                                  *)

\* The last entries of a sequence, in their order (_bounded_append).
LEMMA BoundedLasts ==
  ASSUME NEW S, NEW s \in Seq(S)
  PROVE  /\ Bounded(s) \in Seq(S)
         /\ Len(Bounded(s)) = IF Len(s) > Limit THEN Limit ELSE Len(s)
         /\ \A i \in 1..Len(Bounded(s)) : Bounded(s)[i] = s[Len(s) - Len(Bounded(s)) + i]
<1> DEFINE m == IF Len(s) > Limit THEN Len(s) - Limit + 1 ELSE 1
<1>1. m \in Nat \ {0} /\ Len(s) \in Nat /\ Limit \in Nat
  BY HistoryAssumption
<1>2. \A i \in m..Len(s) : s[i] \in S
  BY <1>1
<1>3. Bounded(s) = SubSeq(s, m, Len(s))
  BY DEF Bounded
<1> HIDE DEF m
<1>4. /\ Bounded(s) \in Seq(S)
      /\ Len(Bounded(s)) = IF m <= Len(s) THEN Len(s) - m + 1 ELSE 0
      /\ \A i \in 1..(Len(s) - m + 1) : Bounded(s)[i] = s[m + i - 1]
  BY <1>1, <1>2, <1>3, SubSeqProperties
<1>5. Len(Bounded(s)) = Len(s) - m + 1
  <2>1. m <= Len(s) \/ m = Len(s) + 1
    BY <1>1 DEF m
  <2> QED
    BY <1>1, <1>4, <2>1
<1>6. Len(Bounded(s)) = IF Len(s) > Limit THEN Limit ELSE Len(s)
  BY <1>1, <1>5 DEF m
<1>7. \A i \in 1..Len(Bounded(s)) : Bounded(s)[i] = s[Len(s) - Len(Bounded(s)) + i]
  <2> TAKE i \in 1..Len(Bounded(s))
  <2>1. m + i - 1 = Len(s) - Len(Bounded(s)) + i
    BY <1>1, <1>5
  <2> QED
    BY <1>4, <1>5, <2>1
<1> QED
  BY <1>4, <1>6, <1>7

\* Bounding before and after an append is bounding after all of it.
LEMMA BoundedTwice ==
  ASSUME NEW S, NEW s \in Seq(S), NEW t \in Seq(S)
  PROVE  Bounded(Bounded(s) \o t) = Bounded(s \o t)
<1> DEFINE b == Bounded(s)
           c == b \o t
           d == s \o t
           x == Bounded(c)
           y == Bounded(d)
<1>1. /\ b \in Seq(S) /\ Len(b) = IF Len(s) > Limit THEN Limit ELSE Len(s)
      /\ \A i \in 1..Len(b) : b[i] = s[Len(s) - Len(b) + i]
  BY BoundedLasts
<1> HIDE DEF b
<1>2. /\ c \in Seq(S) /\ Len(c) = Len(b) + Len(t)
      /\ \A i \in 1..(Len(b) + Len(t)) : c[i] = IF i <= Len(b) THEN b[i] ELSE t[i - Len(b)]
  BY <1>1, ConcatProperties
<1>3. /\ d \in Seq(S) /\ Len(d) = Len(s) + Len(t)
      /\ \A i \in 1..(Len(s) + Len(t)) : d[i] = IF i <= Len(s) THEN s[i] ELSE t[i - Len(s)]
  BY ConcatProperties
<1> HIDE DEF c, d
<1>4. /\ x \in Seq(S) /\ Len(x) = IF Len(c) > Limit THEN Limit ELSE Len(c)
      /\ \A i \in 1..Len(x) : x[i] = c[Len(c) - Len(x) + i]
  BY <1>2, BoundedLasts
<1>5. /\ y \in Seq(S) /\ Len(y) = IF Len(d) > Limit THEN Limit ELSE Len(d)
      /\ \A i \in 1..Len(y) : y[i] = d[Len(d) - Len(y) + i]
  BY <1>3, BoundedLasts
<1> HIDE DEF x, y
<1>6. Limit \in Nat /\ Len(s) \in Nat /\ Len(t) \in Nat /\ Len(b) \in Nat /\ Len(x) \in Nat
  BY <1>1, <1>4, HistoryAssumption
<1>7. Len(x) = Len(y) /\ Len(x) <= Len(b) + Len(t) /\ Len(b) <= Len(s)
  <2>1. /\ Len(b) = IF Len(s) > Limit THEN Limit ELSE Len(s)
        /\ Len(x) = IF Len(b) + Len(t) > Limit THEN Limit ELSE Len(b) + Len(t)
        /\ Len(y) = IF Len(s) + Len(t) > Limit THEN Limit ELSE Len(s) + Len(t)
    BY <1>1, <1>2, <1>3, <1>4, <1>5
  <2> QED
    BY <1>6, <2>1
<1>8. ASSUME NEW i \in 1..Len(x) PROVE x[i] = y[i]
  <2> DEFINE j == Len(b) + Len(t) - Len(x) + i
             k == Len(s) + Len(t) - Len(x) + i
  <2>1. j \in 1..(Len(b) + Len(t)) /\ k \in 1..(Len(s) + Len(t)) /\ k - j = Len(s) - Len(b)
    BY <1>6, <1>7
  <2>2. x[i] = c[j] /\ y[i] = d[k]
    <3>1. x[i] = c[Len(c) - Len(x) + i] /\ y[i] = d[Len(d) - Len(y) + i]
      BY <1>4, <1>5, <1>7
    <3> QED
      BY <1>2, <1>3, <1>7, <3>1
  <2> HIDE DEF j, k
  <2>3. CASE j <= Len(b)
    <3>1. j \in 1..Len(b) /\ k <= Len(s) /\ k = Len(s) - Len(b) + j
      BY <1>6, <2>1, <2>3
    <3>2. c[j] = b[j] /\ d[k] = s[k]
      BY <1>2, <1>3, <2>1, <2>3, <3>1
    <3> QED
      BY <1>1, <2>2, <3>1, <3>2
  <2>4. CASE j > Len(b)
    <3>1. k > Len(s) /\ k - Len(s) = j - Len(b)
      BY <1>6, <2>1, <2>4
    <3> QED
      <4>1. k - Len(s) \in 1..Len(t) /\ j - Len(b) \in 1..Len(t) /\ ~(j <= Len(b))
            /\ ~(k <= Len(s))
        BY <1>6, <2>1, <2>4, <3>1
      <4>2. c[j] = t[j - Len(b)]
        BY <1>2, <2>1, <4>1
      <4>3. d[k] = t[k - Len(s)]
        BY <1>3, <2>1, <4>1
      <4> QED
        BY <2>2, <3>1, <4>2, <4>3
  <2> QED
    BY <1>6, <2>1, <2>3, <2>4
<1>9. x = y
  BY <1>4, <1>5, <1>7, <1>8, SeqEqual
<1> QED
  BY <1>9 DEF x, y, c, d, b

\* What a history or a KB file may hold.
Contents == {s \in Seq(Observations) : Len(s) <= Limit}
Files == [st : {"none", "empty", "torn", "whole"}, durations : Contents]
TmpNames == {0} \cup UNION {{m[p] : p \in Containers} : m \in PidMaps}

ShelfTypes ==
  /\ pid \in PidMaps
  /\ hist \in Contents /\ kb \in Files /\ tmp \in [TmpNames -> Files]
  /\ mem \in [Containers -> Contents]
  /\ fd \in [Containers -> {"closed", "tmp", "kb", "gone"}]
  /\ kblog \in Seq(Observations)
  /\ kbRaces \in BOOLEAN
  /\ call \in [Containers -> 0..MaxCalls]

\* Until a lock is taken for stale, the history is the end of the log, and so is
\* what has been read of it by the container that is going to write it.
ReadIsHistory ==
  robbed = {} =>
    /\ hist = Bounded(log)
    /\ \A p \in Containers : step[p] = "write" => mem[p] = hist

\* Agents that name their temporary files differently.
OwnNames == \A p, q \in Containers : p # q => pid[p] # pid[q]

\* Nobody has a KB file open but to write it.
OpenToPut == \A p \in Containers : fd[p] # "closed" => step[p] = "kbput"

\* Without a race one container at a time is between load and replace, and the KB
\* is the end of the log, and so is what that one has read of it.
OneUpdates ==
  ~kbRaces =>
    /\ \A p, q \in Containers : p # q => ~BetweenLoadAndReplace(p) \/ ~BetweenLoadAndReplace(q)
    /\ kb = Whole(Bounded(kblog))
    /\ \A p \in Containers : BetweenLoadAndReplace(p) => mem[p] = kb.durations

\* Without a race or with names of their own, containers find in the temporary
\* file what they have put there.
OwnFile ==
  ~kbRaces \/ OwnNames => \A p \in Containers :
    /\ step[p] = "kbput" => fd[p] = "tmp" /\ tmp[pid[p]] = Truncated
    /\ step[p] = "kbreplace" => tmp[pid[p]] = Whole(Bounded(mem[p] \o Observed(p)))

KbWhole == OwnNames => kb.st = "whole"

ShelfInv ==
  ShelfTypes /\ ReadIsHistory /\ OpenToPut /\ OneUpdates /\ OwnFile /\ KbWhole

\* A bounded sequence fits into a file.
LEMMA BoundedFits ==
  ASSUME NEW s \in Seq(Observations)
  PROVE  Bounded(s) \in Contents /\ Whole(Bounded(s)) \in Files
<1>1. Bounded(s) \in Seq(Observations) /\ Len(Bounded(s)) <= Limit
  BY BoundedLasts, HistoryAssumption
<1> QED
  BY <1>1 DEF Contents, Files, Whole, File

\* The other files.
LEMMA OtherFiles ==
  /\ <<>> \in Contents /\ Bounded(<<>>) = <<>>
  /\ None \in Files /\ Truncated \in Files /\ Torn \in Files
<1> DEFINE e == <<>>
<1>1. e \in Seq(Observations) /\ Len(e) = 0
  OBVIOUS
<1>2. \A s \in Seq(Observations) : Len(s) = 0 => s = e
  OBVIOUS
<1> HIDE DEF e
<1>3. e \in Contents
  BY <1>1, HistoryAssumption DEF Contents
<1>4. Bounded(e) \in Seq(Observations) /\ Len(Bounded(e)) = 0
  <2>1. /\ Bounded(e) \in Seq(Observations)
        /\ Len(Bounded(e)) = IF Len(e) > Limit THEN Limit ELSE Len(e)
    BY <1>1, BoundedLasts
  <2> QED
    BY <1>1, <2>1, HistoryAssumption
<1>5. Bounded(e) = e
  BY <1>2, <1>4
<1>6. /\ [st |-> "none", durations |-> e] \in Files
      /\ [st |-> "empty", durations |-> e] \in Files
      /\ [st |-> "torn", durations |-> e] \in Files
  BY <1>3 DEF Files
<1> QED
  BY <1>3, <1>5, <1>6 DEF e, None, Truncated, Torn, File

\* What a container adds to a history.
LEMMA Additions ==
  ASSUME RowTypes, NEW p \in Containers
  PROVE  /\ Observed(p) \in Seq(Observations)
         /\ Merged(p) = <<>>
<1>1. Observed(p) \in Seq(Observations)
  <2> DEFINE o == <<p, call[p]>>
  <2>1. o \in Observations
    BY DEF Observations, RowTypes
  <2>2. Observed(p) = <<>> \/ Observed(p) = <<o>>
    BY DEF Observed
  <2> HIDE DEF o
  <2>3. <<o>> \in Seq(Observations) /\ <<>> \in Seq(Observations)
    BY <2>1
  <2> QED
    BY <2>2, <2>3
<1>2. {i \in 1..Len(rows[p]) : ToMerge(rows[p][i])} = {}
  BY DEF RowTypes, ToMerge
<1>3. Cardinality({}) = 0
  BY FS_EmptySet
<1> DEFINE at == {i \in 1..Len(rows[p]) : ToMerge(rows[p][i])}
           f(n) == rows[p][CHOOSE i \in at : Cardinality({j \in at : j <= i}) = n][1]
<1>4. Merged(p) = [n \in 1..Cardinality(at) |-> f(n)]
  BY DEF Merged
<1> HIDE DEF f
<1>5. Merged(p) = [n \in 1..0 |-> f(n)]
  BY <1>2, <1>3, <1>4
<1>6. Merged(p) = <<>>
  BY <1>5
<1> QED
  BY <1>1, <1>6

\* Initially everything is empty.
LEMMA InitShelf == HistInit => ShelfInv
<1> SUFFICES ASSUME HistInit PROVE ShelfInv
  OBVIOUS
<1> USE HistoryAssumption DEF HistInit
<1>1. ShelfTypes
  <2>1. Whole(<<>>) \in Files
    BY OtherFiles DEF Files, Whole, File
  <2>2. tmp \in [TmpNames -> Files]
    BY OtherFiles DEF TmpNames
  <2>3. kblog \in Seq(Observations) /\ call \in [Containers -> 0..MaxCalls]
    OBVIOUS
  <2> QED
    BY <2>1, <2>2, <2>3, OtherFiles DEF ShelfTypes
<1>2. ReadIsHistory /\ OpenToPut /\ OneUpdates /\ OwnFile /\ KbWhole
  BY OtherFiles
  DEF ReadIsHistory, OpenToPut, OneUpdates, OwnFile, KbWhole, BetweenLoadAndReplace, Whole, File
<1> QED
  BY <1>1, <1>2 DEF ShelfInv

\* A step that changes no file and nothing that was read, and takes nobody to a
\* write.
LEMMA ShelfFrame ==
  ASSUME ShelfInv, UNCHANGED <<hist, log, mem, pid, kb, tmp, fd, kblog, kbRaces>>,
         call' \in [Containers -> 0..MaxCalls],
         robbed' = {} => robbed = {},
         \A q \in Containers :
           /\ step'[q] \in {"write", "kbopen", "kbput", "kbreplace"} =>
                step'[q] = step[q] /\ result'[q] = result[q] /\ call'[q] = call[q]
           /\ step[q] = "kbput" => step'[q] = "kbput"
  PROVE  ShelfInv'
<1> USE DEF ShelfInv
<1>1. ShelfTypes'
  BY DEF ShelfTypes
<1>2. ReadIsHistory'
  BY DEF ReadIsHistory, Bounded
<1>3. OpenToPut' /\ KbWhole'
  BY DEF OpenToPut, KbWhole, OwnNames
<1>4. OneUpdates'
  BY DEF OneUpdates, BetweenLoadAndReplace, Bounded
<1>5. \A q \in Containers : step'[q] = "kbreplace" => Observed(q)' = Observed(q)
  BY DEF Observed
<1>6. OwnFile'
  BY <1>5 DEF OwnFile, OwnNames, Bounded
<1> QED
  BY <1>1, <1>2, <1>3, <1>4, <1>6

\* The steps that change no file and nothing that was read.
LEMMA ShelfQuiet ==
  ASSUME ShelfInv, RowTypes, NEW p \in Containers,
         \/ Seed(p) \/ LockTaken(p) \/ StaleSeen(p) \/ StaleBroken(p) \/ LockTimesOut(p)
         \/ WriteFails(p) \/ Unlock(p) \/ KbReplaceFails(p) \/ AppendRow(p)
         \/ \E how \in {"failed", "kept"} : Install(p, how)
         \/ Merge(p)
  PROVE  ShelfInv'
<1>1. UNCHANGED <<hist, log, mem, pid, kb, tmp, fd, kblog, kbRaces>>
  BY DEF Seed, LockTaken, StaleSeen, StaleBroken, LockTimesOut, WriteFails, Unlock,
         KbReplaceFails, AppendRow, Install, Merge, HistFrame, KbFrame
<1>2. robbed' = {} => robbed = {}
  BY DEF Seed, LockTaken, StaleSeen, StaleBroken, LockTimesOut, WriteFails, Unlock,
         KbReplaceFails, AppendRow, Install, Merge, LockFrame, Unlink
<1>3. call' \in [Containers -> 0..MaxCalls]
  <2>1. ASSUME NEW how, Install(p, how) PROVE call' \in [Containers -> 0..MaxCalls]
    BY <2>1, HistoryAssumption DEF Install, ShelfInv, ShelfTypes
  <2>2. CASE ~\E how : Install(p, how)
    <3>1. UNCHANGED call
      BY <2>2
      DEF Seed, LockTaken, StaleSeen, StaleBroken, LockTimesOut, WriteFails, Unlock,
          KbReplaceFails, AppendRow, Merge, CallFrame
    <3> QED
      BY <3>1 DEF ShelfInv, ShelfTypes
  <2> QED
    BY <2>1, <2>2
<1>4. /\ step[p] # "kbput"
      /\ \E to \in StepNames \ {"write", "kbopen", "kbput", "kbreplace"} :
           step' = [step EXCEPT ![p] = to]
  <2>1. CASE Unlock(p)
    <3> DEFINE after == CASE job[p] = "seed" -> "idle" [] job[p] = "finalize" -> "kbload"
                          [] job[p] = "merge" -> "over" [] OTHER -> "raised"
    <3>1. step[p] = "unlock" /\ step' = [step EXCEPT ![p] = after]
      BY <2>1 DEF Unlock, Moves
    <3>2. after \in StepNames \ {"write", "kbopen", "kbput", "kbreplace"}
      BY DEF StepNames
    <3> QED
      BY <3>1, <3>2
  <2>2. CASE ~Unlock(p)
    BY <2>2
    DEF Seed, LockTaken, StaleSeen, StaleBroken, LockTimesOut, WriteFails,
        KbReplaceFails, AppendRow, Install, Merge, Moves, StepNames, DeadlinePasses
  <2> QED
    BY <2>1, <2>2
<1>5. \A q \in Containers \ {p} : result'[q] = result[q] /\ call'[q] = call[q]
  BY DEF Seed, LockTaken, StaleSeen, StaleBroken, LockTimesOut, WriteFails, Unlock,
         KbReplaceFails, AppendRow, Install, Merge, CallFrame, NotUpdated, RowTypes
<1>6. \A q \in Containers :
        /\ step'[q] \in {"write", "kbopen", "kbput", "kbreplace"} =>
             step'[q] = step[q] /\ result'[q] = result[q] /\ call'[q] = call[q]
        /\ step[q] = "kbput" => step'[q] = "kbput"
  BY <1>4, <1>5 DEF RowTypes
<1> QED
  BY <1>1, <1>2, <1>3, <1>6, ShelfFrame

\* A container reads the history.
LEMMA ShelfLoad == ASSUME ShelfInv, RowTypes, NEW p \in Containers, Load(p) PROVE ShelfInv'
<1> USE DEF ShelfInv
<1>1. /\ UNCHANGED <<hist, log, pid, kb, tmp, fd, kblog, kbRaces, call, result, robbed>>
      /\ step[p] = "load"
      /\ \E to \in {"unlock", "write"} : step' = [step EXCEPT ![p] = to]
      /\ mem' = [mem EXCEPT ![p] = hist]
  BY DEF Load, Moves, LockFrame, CallFrame, HistFrame, KbFrame
<1> USE DEF RowTypes
<1>2. ShelfTypes'
  BY <1>1 DEF ShelfTypes
<1>3. ReadIsHistory'
  BY <1>1 DEF ReadIsHistory, ShelfTypes, Bounded
<1>4. OpenToPut' /\ KbWhole'
  BY <1>1 DEF OpenToPut, KbWhole, OwnNames
<1>5. OneUpdates'
  BY <1>1 DEF OneUpdates, BetweenLoadAndReplace, Bounded, ShelfTypes
<1>6. \A q \in Containers : step'[q] = "kbreplace" =>
        step[q] = "kbreplace" /\ Observed(q)' = Observed(q) /\ mem'[q] = mem[q]
  BY <1>1 DEF Observed, ShelfTypes
<1>7. OwnFile'
  <2> SUFFICES ASSUME ~kbRaces' \/ OwnNames', NEW q \in Containers
               PROVE  /\ step'[q] = "kbput" => fd'[q] = "tmp" /\ tmp'[pid'[q]] = Truncated
                      /\ step'[q] = "kbreplace" =>
                           tmp'[pid'[q]] = Whole(Bounded(mem'[q] \o Observed(q)'))
    BY DEF OwnFile, Whole, File, Bounded
  <2>1. ~kbRaces \/ OwnNames
    BY <1>1 DEF OwnNames
  <2>2. step'[q] = "kbput" => step[q] = "kbput"
    BY <1>1
  <2> QED
    BY <1>1, <1>6, <2>1, <2>2 DEF OwnFile
<1> QED
  BY <1>2, <1>3, <1>4, <1>5, <1>7

\* The container with the lock writes it: nobody else is about to.
LEMMA ShelfWrite ==
  ASSUME ShelfInv, RowTypes, LockInv, NEW p \in Containers, Write(p) PROVE ShelfInv'
<1> USE DEF ShelfInv, RowTypes
<1> DEFINE t == IF job[p] = "merge" THEN <<>> ELSE Observed(p)
<1>1. /\ UNCHANGED <<pid, mem, kb, tmp, fd, kblog, kbRaces, call, result, robbed>>
      /\ step[p] = "write" /\ step' = [step EXCEPT ![p] = "unlock"]
      /\ hist' = Bounded(mem[p] \o t) /\ log' = log \o t
  BY Additions DEF Write, Moves, LockFrame, CallFrame, KbFrame
<1>2. t \in Seq(Observations)
  <2>1. <<>> \in Seq(Observations)
    OBVIOUS
  <2> QED
    BY <2>1, Additions
<1> HIDE DEF t
<1>3. ShelfTypes'
  <2>1. mem[p] \in Seq(Observations)
    BY DEF ShelfTypes, Contents
  <2>2. mem[p] \o t \in Seq(Observations)
    BY <1>2, <2>1, ConcatProperties
  <2>3. hist' \in Contents
    BY <1>1, <2>2, BoundedFits
  <2> QED
    BY <1>1, <2>3 DEF ShelfTypes
<1>4. ReadIsHistory'
  <2> SUFFICES ASSUME robbed = {}
               PROVE  /\ hist' = Bounded(log')
                      /\ \A q \in Containers : step'[q] # "write"
    BY <1>1 DEF ReadIsHistory, Bounded
  <2>1. hist' = Bounded(Bounded(log) \o t)
    BY <1>1 DEF ReadIsHistory
  <2>2. hist' = Bounded(log')
    BY <1>1, <1>2, <2>1, BoundedTwice
  <2>3. \A q \in Containers : step[q] = "write" => q = p
    BY <1>1 DEF LockInv, InsideHolds, Inside
  <2> QED
    BY <1>1, <2>2, <2>3
<1>5. OpenToPut' /\ KbWhole'
  BY <1>1 DEF OpenToPut, KbWhole, OwnNames
<1>6. OneUpdates'
  BY <1>1 DEF OneUpdates, BetweenLoadAndReplace, Bounded, ShelfTypes
<1>7. \A q \in Containers : step'[q] = "kbreplace" =>
        step[q] = "kbreplace" /\ Observed(q)' = Observed(q)
  BY <1>1 DEF Observed
<1>8. OwnFile'
  BY <1>1, <1>7 DEF OwnFile, OwnNames, Bounded
<1> QED
  BY <1>3, <1>4, <1>5, <1>6, <1>8

\* A container at the KB leaves the history alone.
LEMMA KbLeavesHistory ==
  ASSUME ReadIsHistory, RowTypes, NEW p \in Containers, HistFrame, LockFrame,
         \A q \in Containers \ {p} : mem'[q] = mem[q],
         NEW to \in StepNames \ {"write"}, step' = [step EXCEPT ![p] = to]
  PROVE  ReadIsHistory'
<1>1. UNCHANGED <<hist, log, robbed>>
  BY DEF HistFrame, LockFrame
<1>2. \A q \in Containers : step'[q] = "write" => step[q] = "write" /\ mem'[q] = mem[q]
  BY DEF RowTypes
<1> QED
  BY <1>1, <1>2 DEF ReadIsHistory, Bounded

\* A container reads the KB.
LEMMA ShelfKbLoad == ASSUME ShelfInv, RowTypes, NEW p \in Containers, KbLoad(p) PROVE ShelfInv'
<1> USE DEF ShelfInv
<1>1. /\ UNCHANGED <<hist, log, pid, kb, tmp, fd, kblog, call, result>>
      /\ step[p] = "kbload" /\ step' = [step EXCEPT ![p] = "kbopen"]
      /\ mem' = [mem EXCEPT ![p] = kb.durations]
      /\ kbRaces' = (kbRaces \/ \E q \in Containers \ {p} : BetweenLoadAndReplace(q))
  BY DEF KbLoad, Moves, HistFrame, CallFrame
<1> USE DEF RowTypes
<1>2. ShelfTypes'
  BY <1>1 DEF ShelfTypes, Files
<1>3. ReadIsHistory'
  BY <1>1, KbLeavesHistory DEF KbLoad, StepNames, ShelfTypes
<1>4. OpenToPut' /\ KbWhole'
  BY <1>1 DEF OpenToPut, KbWhole, OwnNames
<1>5. OneUpdates'
  <2> SUFFICES ASSUME ~kbRaces'
               PROVE  /\ \A q \in Containers \ {p} :
                           step'[q] \notin {"kbopen", "kbput", "kbreplace"}
                      /\ kb = Whole(Bounded(kblog))
                      /\ mem'[p] = kb.durations
    BY <1>1 DEF OneUpdates, BetweenLoadAndReplace, Whole, File, Bounded
  <2>1. ~kbRaces /\ \A q \in Containers \ {p} : ~BetweenLoadAndReplace(q)
    BY <1>1
  <2> QED
    BY <1>1, <2>1 DEF OneUpdates, BetweenLoadAndReplace, ShelfTypes
<1>6. \A q \in Containers : step'[q] = "kbreplace" =>
        step[q] = "kbreplace" /\ Observed(q)' = Observed(q) /\ mem'[q] = mem[q]
  BY <1>1 DEF Observed, ShelfTypes
<1>7. OwnFile'
  <2> SUFFICES ASSUME ~kbRaces' \/ OwnNames', NEW q \in Containers
               PROVE  /\ step'[q] = "kbput" => fd'[q] = "tmp" /\ tmp'[pid'[q]] = Truncated
                      /\ step'[q] = "kbreplace" =>
                           tmp'[pid'[q]] = Whole(Bounded(mem'[q] \o Observed(q)'))
    BY DEF OwnFile, Whole, File, Bounded
  <2>1. ~kbRaces \/ OwnNames
    BY <1>1 DEF OwnNames
  <2>2. step'[q] = "kbput" => step[q] = "kbput"
    BY <1>1
  <2> QED
    BY <1>1, <1>6, <2>1, <2>2 DEF OwnFile
<1> QED
  BY <1>2, <1>3, <1>4, <1>5, <1>7

\* The temporary file of a container.
LEMMA OwnTmp ==
  ASSUME ShelfTypes, NEW p \in Containers
  PROVE  TmpName(p) = pid[p] /\ pid[p] \in TmpNames
BY DEF ShelfTypes, TmpNames, TmpName

\* A container opens its temporary file; whoever has one of the same name races.
LEMMA ShelfKbOpen == ASSUME ShelfInv, RowTypes, NEW p \in Containers, KbOpen(p) PROVE ShelfInv'
<1> USE DEF ShelfInv, RowTypes
<1>1. /\ UNCHANGED <<hist, log, pid, kb, mem, kblog, kbRaces, call, result>>
      /\ step[p] = "kbopen" /\ step' = [step EXCEPT ![p] = "kbput"]
      /\ tmp' = [tmp EXCEPT ![pid[p]] = Truncated]
      /\ fd' = [fd EXCEPT ![p] = "tmp"]
  BY OwnTmp DEF KbOpen, Moves, HistFrame, CallFrame
<1>2. ShelfTypes'
  BY <1>1, OtherFiles, OwnTmp DEF ShelfTypes
<1>3. ReadIsHistory'
  BY <1>1, KbLeavesHistory DEF KbOpen, StepNames
<1>4. OpenToPut' /\ KbWhole'
  BY <1>1 DEF OpenToPut, KbWhole, OwnNames, ShelfTypes
<1>5. OneUpdates'
  BY <1>1 DEF OneUpdates, BetweenLoadAndReplace, Bounded
<1>6. ASSUME ~kbRaces \/ OwnNames, NEW q \in Containers, q # p,
             step[q] \in {"kbput", "kbreplace"}
      PROVE  pid[q] # pid[p]
  BY <1>1, <1>6 DEF OwnNames, OneUpdates, BetweenLoadAndReplace
<1>7. ASSUME ~kbRaces \/ OwnNames, NEW q \in Containers
      PROVE  /\ step'[q] = "kbput" => fd'[q] = "tmp" /\ tmp'[pid[q]] = Truncated
             /\ step'[q] = "kbreplace" =>
                  tmp'[pid[q]] = Whole(Bounded(mem[q] \o Observed(q)))
  <2>1. CASE q = p
    BY <1>1, <2>1, OwnTmp DEF ShelfTypes
  <2>2. CASE q # p
    <3>1. step'[q] = step[q] /\ fd'[q] = fd[q]
      BY <1>1, <2>2
    <3>2. step[q] \in {"kbput", "kbreplace"} => tmp'[pid[q]] = tmp[pid[q]]
      BY <1>1, <1>6, <1>7, <2>2
    <3> QED
      BY <1>7, <3>1, <3>2 DEF OwnFile
  <2> QED
    BY <2>1, <2>2
<1>8. OwnFile'
  <2> SUFFICES ASSUME ~kbRaces' \/ OwnNames', NEW q \in Containers
               PROVE  /\ step'[q] = "kbput" => fd'[q] = "tmp" /\ tmp'[pid'[q]] = Truncated
                      /\ step'[q] = "kbreplace" =>
                           tmp'[pid'[q]] = Whole(Bounded(mem'[q] \o Observed(q)'))
    BY DEF OwnFile, Whole, File, Bounded
  <2>1. Observed(q)' = Observed(q)
    BY <1>1 DEF Observed
  <2>2. ~kbRaces \/ OwnNames
    BY <1>1 DEF OwnNames
  <2> QED
    BY <1>1, <1>7, <2>1, <2>2
<1> QED
  BY <1>2, <1>3, <1>4, <1>5, <1>8

\* A container writes its temporary file.
LEMMA ShelfKbPut == ASSUME ShelfInv, RowTypes, NEW p \in Containers, KbPut(p) PROVE ShelfInv'
<1> USE DEF ShelfInv, RowTypes
<1> DEFINE w == Whole(Bounded(mem[p] \o Observed(p)))
<1>1. /\ UNCHANGED <<hist, log, pid, mem, kblog, kbRaces, call, result>>
      /\ step[p] = "kbput" /\ step' = [step EXCEPT ![p] = "kbreplace"]
      /\ fd' = [fd EXCEPT ![p] = "closed"]
  BY DEF KbPut, Moves, HistFrame, CallFrame
<1>2. PICK c : /\ c \in {w, Torn}
               /\ (IF fd[p] = "kb" THEN kb ELSE tmp[pid[p]]) = Truncated => c = w
               /\ kb' = IF fd[p] = "kb" THEN c ELSE kb
               /\ tmp' = [tmp EXCEPT ![pid[p]] = IF fd[p] = "tmp" THEN c ELSE @]
  BY OwnTmp DEF KbPut, Put
<1>3. w \in Files /\ Torn \in Files
  <2>1. mem[p] \in Seq(Observations)
    BY DEF ShelfTypes, Contents
  <2>2. mem[p] \o Observed(p) \in Seq(Observations)
    BY <2>1, Additions, ConcatProperties
  <2> QED
    BY <2>2, BoundedFits, OtherFiles
<1> HIDE DEF w
<1>4. ShelfTypes'
  BY <1>1, <1>2, <1>3 DEF ShelfTypes
<1>5. ReadIsHistory'
  BY <1>1, KbLeavesHistory DEF KbPut, StepNames
<1>6. OpenToPut'
  BY <1>1 DEF OpenToPut, ShelfTypes
<1>7. ASSUME ~kbRaces \/ OwnNames
      PROVE  kb' = kb /\ tmp' = [tmp EXCEPT ![pid[p]] = w]
  <2>1. fd[p] = "tmp" /\ tmp[pid[p]] = Truncated
    BY <1>1, <1>7 DEF OwnFile
  <2> QED
    BY <1>2, <2>1
<1>8. KbWhole'
  BY <1>1, <1>7 DEF KbWhole, OwnNames
<1>9. OneUpdates'
  BY <1>1, <1>7 DEF OneUpdates, BetweenLoadAndReplace, Whole, File, Bounded
<1>10. OwnFile'
  <2> SUFFICES ASSUME ~kbRaces' \/ OwnNames', NEW q \in Containers
               PROVE  /\ step'[q] = "kbput" => fd'[q] = "tmp" /\ tmp'[pid'[q]] = Truncated
                      /\ step'[q] = "kbreplace" =>
                           tmp'[pid'[q]] = Whole(Bounded(mem'[q] \o Observed(q)'))
    BY DEF OwnFile, Whole, File, Bounded
  <2>1. Observed(q)' = Observed(q)
    BY <1>1 DEF Observed
  <2>2. ~kbRaces \/ OwnNames
    BY <1>1 DEF OwnNames
  <2>3. CASE q = p
    BY <1>1, <1>7, <2>1, <2>2, <2>3, OwnTmp DEF w, ShelfTypes
  <2>4. CASE q # p
    <3>1. step'[q] = step[q] /\ fd'[q] = fd[q]
      BY <1>1, <2>4
    <3>2. step[q] \in {"kbput", "kbreplace"} => pid[q] # pid[p]
      BY <1>1, <2>2, <2>4 DEF OwnNames, OneUpdates, BetweenLoadAndReplace
    <3>3. step[q] \in {"kbput", "kbreplace"} => tmp'[pid[q]] = tmp[pid[q]]
      <4>1. pid[q] \in TmpNames /\ tmp \in [TmpNames -> Files]
        BY OwnTmp DEF ShelfTypes
      <4> QED
        BY <1>7, <2>2, <3>2, <4>1
    <3> QED
      BY <1>1, <2>1, <2>2, <3>1, <3>3 DEF OwnFile
  <2> QED
    BY <2>3, <2>4
<1> QED
  BY <1>4, <1>5, <1>6, <1>8, <1>9, <1>10

\* A container leaves its temporary file as it is.
LEMMA ShelfGivesUp ==
  ASSUME ShelfInv, RowTypes, NEW p \in Containers, KbPutFails(p) \/ Kill(p) PROVE ShelfInv'
<1> USE DEF ShelfInv, RowTypes
<1>1. /\ UNCHANGED <<hist, log, pid, mem, kb, tmp, kblog, kbRaces, call, result>>
      /\ \E to \in {"row", "killed"} : step' = [step EXCEPT ![p] = to]
      /\ fd' = [fd EXCEPT ![p] = "closed"]
  BY DEF KbPutFails, PutErrorRaised, Kill, Moves, HistFrame, CallFrame
<1>2. ShelfTypes'
  BY <1>1 DEF ShelfTypes
<1>3. ReadIsHistory'
  BY <1>1, KbLeavesHistory DEF KbPutFails, Kill, StepNames
<1>4. OpenToPut' /\ KbWhole'
  BY <1>1 DEF OpenToPut, KbWhole, OwnNames, ShelfTypes
<1>5. OneUpdates'
  BY <1>1 DEF OneUpdates, BetweenLoadAndReplace, Whole, File, Bounded
<1>6. OwnFile'
  <2> SUFFICES ASSUME ~kbRaces' \/ OwnNames', NEW q \in Containers
               PROVE  /\ step'[q] = "kbput" => fd'[q] = "tmp" /\ tmp'[pid'[q]] = Truncated
                      /\ step'[q] = "kbreplace" =>
                           tmp'[pid'[q]] = Whole(Bounded(mem'[q] \o Observed(q)'))
    BY DEF OwnFile, Whole, File, Bounded
  <2>1. Observed(q)' = Observed(q)
    BY <1>1 DEF Observed
  <2>2. ~kbRaces \/ OwnNames
    BY <1>1 DEF OwnNames
  <2>3. step'[q] \in {"kbput", "kbreplace"} => step'[q] = step[q] /\ fd'[q] = fd[q]
    BY <1>1
  <2> QED
    BY <1>1, <2>1, <2>2, <2>3 DEF OwnFile
<1> QED
  BY <1>2, <1>3, <1>4, <1>5, <1>6

\* A container renames its temporary file to the KB.
LEMMA ShelfKbReplace ==
  ASSUME ShelfInv, RowTypes, NEW p \in Containers, KbReplace(p) PROVE ShelfInv'
<1> USE DEF ShelfInv, RowTypes
<1>1. /\ UNCHANGED <<hist, log, pid, mem, kbRaces, call, result>>
      /\ step[p] = "kbreplace" /\ step' = [step EXCEPT ![p] = "row"]
      /\ kb' = tmp[pid[p]] /\ tmp' = [tmp EXCEPT ![pid[p]] = None]
      /\ kblog' = kblog \o Observed(p)
  BY OwnTmp DEF KbReplace, Moves, HistFrame, CallFrame
<1>2. fd' = [q \in Containers |-> IF fd[q] = "kb" THEN "gone"
                                 ELSE IF fd[q] = "tmp" /\ pid[q] = pid[p] THEN "kb"
                                 ELSE fd[q]]
  BY OwnTmp DEF KbReplace, TmpName
<1>3. ShelfTypes'
  <2>1. kblog' \in Seq(Observations)
    BY <1>1, Additions, ConcatProperties DEF ShelfTypes
  <2>2. fd' \in [Containers -> {"closed", "tmp", "kb", "gone"}]
    BY <1>2 DEF ShelfTypes
  <2> QED
    BY <1>1, <2>1, <2>2, OtherFiles, OwnTmp DEF ShelfTypes
<1>4. ReadIsHistory'
  BY <1>1, KbLeavesHistory DEF KbReplace, StepNames
<1>5. OpenToPut'
  BY <1>1, <1>2 DEF OpenToPut, ShelfTypes
<1>6. ASSUME ~kbRaces \/ OwnNames
      PROVE  kb' = Whole(Bounded(mem[p] \o Observed(p)))
  BY <1>1, <1>6 DEF OwnFile
<1>7. KbWhole'
  BY <1>1, <1>6 DEF KbWhole, OwnNames, Whole, File
<1>8. OneUpdates'
  <2> SUFFICES ASSUME ~kbRaces
               PROVE  /\ \A q \in Containers : step'[q] \notin {"kbopen", "kbput", "kbreplace"}
                      /\ kb' = Whole(Bounded(kblog'))
    BY <1>1 DEF OneUpdates, BetweenLoadAndReplace, Whole, File, Bounded
  <2>1. \A q \in Containers \ {p} : ~BetweenLoadAndReplace(q)
    BY <1>1 DEF OneUpdates, BetweenLoadAndReplace
  <2>2. mem[p] = Bounded(kblog)
    BY <1>1 DEF OneUpdates, BetweenLoadAndReplace, Whole, File
  <2>3. kblog \in Seq(Observations) /\ Observed(p) \in Seq(Observations)
    BY Additions DEF ShelfTypes
  <2>4. Bounded(mem[p] \o Observed(p)) = Bounded(kblog')
    BY <1>1, <2>2, <2>3, BoundedTwice
  <2> QED
    BY <1>1, <1>6, <2>1, <2>4 DEF BetweenLoadAndReplace
<1>9. OwnFile'
  <2> SUFFICES ASSUME ~kbRaces' \/ OwnNames', NEW q \in Containers
               PROVE  /\ step'[q] = "kbput" => fd'[q] = "tmp" /\ tmp'[pid'[q]] = Truncated
                      /\ step'[q] = "kbreplace" =>
                           tmp'[pid'[q]] = Whole(Bounded(mem'[q] \o Observed(q)'))
    BY DEF OwnFile, Whole, File, Bounded
  <2>1. Observed(q)' = Observed(q)
    BY <1>1 DEF Observed
  <2>2. ~kbRaces \/ OwnNames
    BY <1>1 DEF OwnNames
  <2>3. step'[q] \in {"kbput", "kbreplace"} => q # p /\ step'[q] = step[q]
    BY <1>1
  <2>4. step'[q] \in {"kbput", "kbreplace"} => pid[q] # pid[p]
    BY <1>1, <2>2, <2>3 DEF OwnNames, OneUpdates, BetweenLoadAndReplace
  <2>5. step'[q] \in {"kbput", "kbreplace"} => tmp'[pid[q]] = tmp[pid[q]]
    BY <1>1, <2>4
  <2>6. step'[q] = "kbput" => fd[q] = "tmp" /\ fd'[q] = fd[q]
    BY <1>2, <2>2, <2>3, <2>4 DEF OwnFile
  <2> QED
    BY <1>1, <2>1, <2>2, <2>3, <2>5, <2>6 DEF OwnFile
<1> QED
  BY <1>3, <1>4, <1>5, <1>7, <1>8, <1>9

\* Every step keeps the shelf.
LEMMA NextShelf == ShelfInv /\ RowInv /\ LockInv /\ [HistNext]_histVars => ShelfInv'
<1> SUFFICES ASSUME ShelfInv, RowInv, LockInv, [HistNext]_histVars PROVE ShelfInv'
  OBVIOUS
<1>1. CASE LockAges
  <2>1. /\ UNCHANGED <<hist, log, mem, pid, kb, tmp, fd, kblog, kbRaces, call, result, step>>
        /\ robbed' = robbed
    BY <1>1 DEF LockAges, CallFrame, HistFrame, KbFrame
  <2> QED
    BY <2>1, ShelfFrame DEF ShelfInv, ShelfTypes
<1>2. CASE UNCHANGED histVars
  <2>1. /\ UNCHANGED <<hist, log, mem, pid, kb, tmp, fd, kblog, kbRaces, call, result, step>>
        /\ robbed' = robbed
    BY <1>2 DEF histVars
  <2> QED
    BY <2>1, ShelfFrame DEF ShelfInv, ShelfTypes
<1> QED
  BY <1>1, <1>2, ShelfQuiet, ShelfLoad, ShelfWrite, ShelfKbLoad, ShelfKbOpen, ShelfKbPut,
     ShelfGivesUp, ShelfKbReplace DEF HistNext, ContainerStep, RowInv

-----------------------------------------------------------------------------
(* The theorems.                                                            *)

\* Two containers rewrite the history at the same time only after the lock of
\* one of them was taken for stale while it held it, and that takes a lock left
\* behind or held for more than LOCK_STALE_AFTER_S (_history_lock).
THEOREM Exclusion == HistSpec => []LockKept
<1>1. LockInv => LockKept
  BY DEF LockInv, InsideHolds, StaleFirst, LockKept
<1> QED
  BY InitLock, NextLock, <1>1, PTL DEF HistSpec

\* A row says history_updated only of an install that was written, timeouts of
\* the lock and failed writes included (finalize_pip_runtime_prediction).
THEOREM Updated == HistSpec => []UpdatedWasWritten
<1>1. RowInv => UpdatedWasWritten
  BY DEF RowInv
<1> QED
  BY InitRows, NextRow, <1>1, PTL DEF HistSpec

\* Every variable of the shared history keeps to its domain, and the files to
\* their bound (_bounded_append).
THEOREM HistoryTypes == HistSpec => []HistTypeOK
<1>1. LockInv /\ RowInv /\ ShelfInv => HistTypeOK
  BY DEF LockInv, LockTypes, RowInv, RowTypes, ShelfInv, ShelfTypes, Contents, Files, StepNames,
         HistTypeOK
<1> QED
  BY InitLock, NextLock, InitRows, NextRow, InitShelf, NextShelf, <1>1, PTL DEF HistSpec

\* Until a lock is taken for stale while it is held, the shared history is the
\* end of all the installs written, in order, each of them once
\* (finalize_pip_runtime_prediction, merge_pip_predictions_into_shared_history).
THEOREM NoInstallLost == HistSpec => []HistoryExact
<1>1. ShelfInv => HistoryExact
  BY DEF ShelfInv, ReadIsHistory, HistoryExact
<1> QED
  BY InitLock, NextLock, InitRows, NextRow, InitShelf, NextShelf, <1>1, PTL DEF HistSpec

\* The Personal KB loses an install only in a race of two containers, and is a
\* whole file even then unless their agents have the same process id
\* (runtime_knowledge.py, the temporary file and its rename).
THEOREM KbIsKept == HistSpec => []KbKept
<1>1. ShelfInv => KbKept
  BY DEF ShelfInv, OneUpdates, KbWhole, OwnNames, KbKept
<1> QED
  BY InitLock, NextLock, InitRows, NextRow, InitShelf, NextShelf, <1>1, PTL DEF HistSpec

-----------------------------------------------------------------------------
(* The packages: the lock and the scripts.                                 *)

\* The worker in its script has the lock.
LockHeld == \A w \in Preparers : pc[w] = "script" <=> flock = w

\* A script that runs has its worker waiting for it, or outlived it.
WaitedFor == \A w \in Preparers : script[w] \in Running => pc[w] = "script" \/ w \in overtime

\* What a script has installed is there; a marker stands for everything.
Installed ==
  /\ \A w \in Preparers :
       /\ script[w] # "none" => dir[w] \in Dirs
       /\ script[w] = "rest" => "some" \in site[dir[w]]
       /\ script[w] \in {"check", "ok"} => Complete \subseteq site[dir[w]]
  /\ \A d \in Dirs : marker[d].there => Complete \subseteq site[d]

\* No script has begun before the worker left the queue.
NotBegun == \A w \in Preparers : pc[w] \in {"start", "queue"} => script[w] = "none"

BootInv ==
  BootTypeOK /\ overtime \subseteq Preparers /\ needs \in [Preparers -> Reqs]
  /\ LockHeld /\ WaitedFor /\ Installed /\ NotBegun

\* The directories of a worker.
LEMMA OwnDirs ==
  ASSUME NEW r \in Reqs, NEW w \in Preparers
  PROVE  Standard(r) \in Dirs /\ Isolated(r, w) \in Dirs
BY DEF Standard, Isolated, Dirs

\* Initially nothing is there.
LEMMA InitBoot == BootInit => BootInv
BY BootstrapAssumption
DEF BootInit, BootInv, BootTypeOK, LockHeld, WaitedFor, Installed, NotBegun, Running,
    NoMarker, Unheld, Complete

\* A match is a directory that is complete.
LEMMA MatchIsComplete ==
  ASSUME NEW d, NEW base, Matches(d, base)
  PROVE  Complete \subseteq site[d]
BY DEF Matches

\* The steps of a worker with the lock and without.
LEMMA WorkerStep ==
  ASSUME BootInv, NEW w \in Preparers, Begin(w) \/ Prepare(w) PROVE BootInv'
<1> USE BootstrapAssumption DEF BootInv
<1>1. ASSUME Begin(w) \/ HitAfterLock(w) PROVE BootInv'
  <2>1. /\ UNCHANGED <<needs, site, marker, userbase, flock, script, overtime>>
        /\ \/ dir' = dir
           \/ dir' = [dir EXCEPT ![w] = Standard(needs[w])]
        /\ pc[w] \in {"start", "queue"}
        /\ pc' = [pc EXCEPT ![w] = "queue"] \/ pc' = [pc EXCEPT ![w] = "ready"]
    BY <1>1 DEF Begin, HitAfterLock, Goes, DiskFrame
  <2>2. Standard(needs[w]) \in Dirs
    BY OwnDirs
  <2>3. BootTypeOK'
    BY <2>1, <2>2 DEF BootTypeOK, Unheld
  <2>4. LockHeld' /\ WaitedFor'
    BY <2>1 DEF LockHeld, WaitedFor, BootTypeOK
  <2>5. Installed' /\ NotBegun'
    BY <2>1, <2>2 DEF Installed, NotBegun, BootTypeOK
  <2> QED
    BY <2>1, <2>3, <2>4, <2>5
<1>2. CASE StartScript(w)
  <2>1. Target(w) \in Dirs
    BY OwnDirs DEF Target
  <2>2. BootTypeOK'
    BY <1>2, <2>1 DEF BootTypeOK, StartScript, Goes, Running
  <2>3. LockHeld'
    BY <1>2 DEF LockHeld, StartScript, Goes, FlockFree, BootTypeOK, Unheld
  <2>4. WaitedFor'
    BY <1>2 DEF WaitedFor, StartScript, Goes, BootTypeOK
  <2>5. Installed' /\ NotBegun'
    BY <1>2, <2>1 DEF Installed, NotBegun, StartScript, Goes, BootTypeOK
  <2> QED
    BY <1>2, <2>2, <2>3, <2>4, <2>5 DEF StartScript
<1>3. ASSUME ScriptEnded(w) \/ TimesOut(w) PROVE BootInv'
  <2>1. /\ UNCHANGED <<needs, site, marker, userbase, dir, script>>
        /\ flock' = Unheld /\ pc[w] = "script"
        /\ pc' = [pc EXCEPT ![w] = "ready"] \/ pc' = [pc EXCEPT ![w] = "failed"]
        /\ overtime' \in {overtime, overtime \cup {w}}
        /\ script[w] \in Running => w \in overtime'
    BY <1>3 DEF ScriptEnded, TimesOut, Goes, DiskFrame, FlockReleased, Running
  <2>2. flock = w
    BY <2>1 DEF LockHeld
  <2>3. BootTypeOK'
    BY <2>1 DEF BootTypeOK
  <2>4. LockHeld' /\ WaitedFor'
    BY <2>1, <2>2 DEF LockHeld, WaitedFor, BootTypeOK, Unheld
  <2>5. Installed' /\ NotBegun'
    BY <2>1 DEF Installed, NotBegun, BootTypeOK
  <2> QED
    BY <2>1, <2>3, <2>4, <2>5
<1> QED
  BY <1>1, <1>2, <1>3 DEF Prepare

\* Adding packages to one directory keeps the function and only adds.
LEMMA SiteGrows ==
  ASSUME NEW P, NEW s, s \in [Dirs -> SUBSET P], NEW d, NEW X, X \subseteq P,
         NEW t, t = [s EXCEPT ![d] = @ \cup X]
  PROVE  t \in [Dirs -> SUBSET P] /\ \A e \in Dirs : s[e] \subseteq t[e]
<1>1. ASSUME NEW e \in Dirs PROVE t[e] \in SUBSET P /\ s[e] \subseteq t[e]
  <2>1. CASE e = d
    BY <2>1
  <2>2. CASE e # d
    BY <2>2
  <2> QED
    BY <2>1, <2>2
<1> QED
  BY <1>1

\* The steps of a script.
LEMMA ScriptStep ==
  ASSUME BootInv, NEW w \in Preparers, Script(w) PROVE BootInv'
<1> USE DEF BootInv
<1>1. /\ UNCHANGED <<needs, flock, pc, dir, overtime>>
      /\ script[w] \in Running
      /\ \E to \in Running \cup {"ok", "failed"} : script' = [script EXCEPT ![w] = to]
  BY DEF Script, ScriptBegins, GetPip, InstallSome, InstallRest, WriteMarker, ScriptFails,
         ScriptGoes, MarkerLast, Running
<1>2. dir[w] \in Dirs
  BY <1>1 DEF Installed, Running
<1>3. /\ site' \in [Dirs -> SUBSET (Complete \cup {"made", "extra"})]
      /\ userbase' \subseteq {"pip", "extra"}
      /\ \A d \in Dirs : site[d] \subseteq site'[d]
  <2>1. userbase' \subseteq {"pip", "extra"}
    BY DEF Script, ScriptBegins, GetPip, InstallSome, InstallRest, WriteMarker,
           ScriptFails, DiskFrame, BootTypeOK
  <2>2. \/ UNCHANGED site
        \/ \E X \in SUBSET (Complete \cup {"made", "extra"}) :
             site' = [site EXCEPT ![dir[w]] = @ \cup X]
    <3>1. CASE ScriptBegins(w)
      <4>1. {"made"} \subseteq Complete \cup {"made", "extra"}
        OBVIOUS
      <4> QED
        BY <3>1, <4>1 DEF ScriptBegins
    <3>2. CASE InstallSome(w)
      <4>1. (IF "pip" \in userbase THEN {"some"} ELSE {}) \subseteq Complete \cup {"made", "extra"}
        BY DEF Complete
      <4> QED
        BY <3>2, <4>1 DEF InstallSome
    <3>3. CASE InstallRest(w)
      <4>1. {"rest"} \subseteq Complete \cup {"made", "extra"}
        BY DEF Complete
      <4> QED
        BY <3>3, <4>1 DEF InstallRest
    <3>4. CASE GetPip(w) \/ WriteMarker(w) \/ ScriptFails(w)
      BY <3>4 DEF GetPip, WriteMarker, ScriptFails, DiskFrame
    <3> QED
      BY <3>1, <3>2, <3>3, <3>4 DEF Script
  <2>3. site \in [Dirs -> SUBSET (Complete \cup {"made", "extra"})]
    BY DEF BootTypeOK
  <2> QED
    BY <2>1, <2>2, <2>3, SiteGrows
<1>4. BootTypeOK' /\ LockHeld' /\ WaitedFor' /\ NotBegun'
  BY <1>1, <1>3 DEF BootTypeOK, LockHeld, WaitedFor, NotBegun, Running
<1>5. \A d \in Dirs : marker'[d].there => Complete \subseteq site'[d]
  <2>1. CASE WriteMarker(w)
    BY <1>2, <1>3, <2>1
    DEF WriteMarker, MarkerLast, ScriptGoes, Record, Installed
  <2>2. CASE ~WriteMarker(w)
    <3>1. UNCHANGED marker
      BY <2>2 DEF Script, ScriptBegins, GetPip, InstallSome, InstallRest, ScriptFails, DiskFrame
    <3> QED
      BY <1>3, <3>1 DEF Installed
  <2> QED
    BY <2>1, <2>2
<1>6. /\ script'[w] = "rest" => "some" \in site'[dir[w]]
      /\ script'[w] \in {"check", "ok"} => Complete \subseteq site'[dir[w]]
  <2> USE <1>2 DEF ScriptGoes, BootTypeOK
  <2>1. CASE ScriptBegins(w)
    BY <1>3, <2>1 DEF ScriptBegins, Installed
  <2>2. CASE GetPip(w)
    BY <2>2 DEF GetPip
  <2>3. CASE InstallSome(w)
    BY <2>3 DEF InstallSome
  <2>4. CASE InstallRest(w)
    BY <2>4 DEF InstallRest, Installed, Complete
  <2>5. CASE WriteMarker(w)
    BY <2>5 DEF WriteMarker, MarkerLast, Installed
  <2>6. CASE ScriptFails(w)
    BY <2>6 DEF ScriptFails
  <2> QED
    BY <2>1, <2>2, <2>3, <2>4, <2>5, <2>6 DEF Script
<1>7. Installed'
  <2>1. ASSUME NEW v \in Preparers
        PROVE  /\ script'[v] # "none" => dir'[v] \in Dirs
               /\ script'[v] = "rest" => "some" \in site'[dir'[v]]
               /\ script'[v] \in {"check", "ok"} => Complete \subseteq site'[dir'[v]]
    <3>1. CASE v = w
      BY <1>1, <1>2, <1>6, <3>1
    <3>2. CASE v # w
      <4>1. script'[v] = script[v] /\ dir'[v] = dir[v]
        BY <1>1, <3>2 DEF BootTypeOK
      <4> QED
        BY <1>3, <4>1 DEF Installed
    <3> QED
      BY <3>1, <3>2
  <2> QED
    BY <1>5, <2>1 DEF Installed
<1> QED
  BY <1>1, <1>4, <1>7

\* Every step keeps the invariant.
LEMMA NextBoot == BootInv /\ [BootNext]_bootVars => BootInv'
<1> SUFFICES ASSUME BootInv, [BootNext]_bootVars PROVE BootInv'
  OBVIOUS
<1>1. ASSUME NEW w \in Preparers, Contaminate(w) PROVE BootInv'
  <2> USE <1>1 DEF BootInv
  <2>1. /\ UNCHANGED <<needs, marker, flock, pc, dir, script, overtime>>
        /\ site' \in [Dirs -> SUBSET (Complete \cup {"made", "extra"})]
        /\ userbase' \subseteq {"pip", "extra"}
        /\ \A d \in Dirs : site[d] \subseteq site'[d]
    <3>1. /\ UNCHANGED <<needs, marker, flock, pc, dir, script, overtime>>
          /\ userbase' \subseteq {"pip", "extra"}
      BY DEF Contaminate, BootTypeOK
    <3>2. UNCHANGED site \/ site' = [site EXCEPT ![dir[w]] = @ \cup {"extra"}]
      BY DEF Contaminate
    <3>3. site \in [Dirs -> SUBSET (Complete \cup {"made", "extra"})]
      BY DEF BootTypeOK
    <3>4. {"extra"} \subseteq Complete \cup {"made", "extra"}
      OBVIOUS
    <3> QED
      BY <3>1, <3>2, <3>3, <3>4, SiteGrows
  <2>2. BootTypeOK' /\ LockHeld' /\ WaitedFor' /\ NotBegun'
    BY <2>1 DEF BootTypeOK, LockHeld, WaitedFor, NotBegun
  <2>3. Installed'
    BY <2>1 DEF Installed
  <2> QED
    BY <2>1, <2>2, <2>3
<1>2. CASE UNCHANGED bootVars
  BY <1>2
  DEF bootVars, BootInv, BootTypeOK, LockHeld, WaitedFor, Installed, NotBegun
<1> QED
  BY <1>1, <1>2, WorkerStep, ScriptStep DEF BootNext

-----------------------------------------------------------------------------
(* The theorems.                                                            *)

\* Every variable keeps to its domain; whoever has the lock is in its script.
THEOREM BootTypes == BootSpec => []BootTypeOK
<1>1. BootInv => BootTypeOK
  BY DEF BootInv
<1> QED
  BY InitBoot, NextBoot, <1>1, PTL DEF BootSpec

\* The lock keeps the scripts of all workers apart, except one that runs on in
\* its container after its worker gave up (_bootstrap_lock).
THEOREM Apart == BootSpec => []ScriptsApart
<1>1. BootInv => ScriptsApart
  BY DEF BootInv, LockHeld, WaitedFor, ScriptsApart
<1> QED
  BY InitBoot, NextBoot, <1>1, PTL DEF BootSpec

\* A container is ready with a complete set of packages, wherever an earlier
\* installation was interrupted (bootstrap_task_container_python).
THEOREM Ready == BootSpec => ReadyIsComplete
<1>1. ASSUME BootInv, [BootNext]_bootVars, NEW w \in Preparers,
             pc'[w] = "ready", pc[w] # "ready"
      PROVE  Complete \subseteq site'[dir'[w]]
  <2>1. Begin(w) \/ HitAfterLock(w) \/ ScriptEnded(w)
    BY <1>1
    DEF BootInv, BootTypeOK, BootNext, bootVars, Begin, Prepare, Script, HitAfterLock, StartScript,
        ScriptEnded, TimesOut, Goes, ScriptBegins, GetPip, InstallSome, InstallRest,
        WriteMarker, MarkerLast, ScriptGoes, ScriptFails, Contaminate
  <2>2. ASSUME Begin(w) \/ HitAfterLock(w) PROVE Complete \subseteq site'[dir'[w]]
    <3>1. /\ UNCHANGED site /\ dir'[w] = Standard(needs[w])
          /\ \E base : Matches(Standard(needs[w]), base)
      BY <1>1, <2>2 DEF Begin, HitAfterLock, Goes, DiskFrame, BootInv, BootTypeOK
    <3> QED
      BY <3>1, MatchIsComplete
  <2>3. CASE ScriptEnded(w)
    BY <1>1, <2>3 DEF ScriptEnded, BootInv, BootTypeOK, Installed, DiskFrame
  <2> QED
    BY <2>1, <2>2, <2>3
<1>2. BootInv /\ [BootNext]_bootVars =>
        [\A w \in Preparers : pc'[w] = "ready" /\ pc[w] # "ready"
           => Complete \subseteq site'[dir'[w]]]_bootVars
  BY <1>1
<1> QED
  BY InitBoot, NextBoot, <1>2, PTL DEF BootSpec, ReadyIsComplete

-----------------------------------------------------------------------------
(* The packages: where the agents are.                                     *)

Marked(d) == marker[d].there

\* A marker is in the directory of every worker that is ready or about to be.
ReadyMarked ==
  \A v \in Preparers :
    pc[v] = "ready" \/ script[v] = "ok" => dir[v] \in Dirs /\ Marked(dir[v])

\* An isolated directory is used and marked by its own worker alone.
OwnIsolated ==
  \A w \in Preparers : \A r \in Reqs :
    /\ \A v \in Preparers : dir[v] = Isolated(r, w) => v = w /\ script[w] # "none"
    /\ Marked(Isolated(r, w)) => script[w] # "none"

\* A script that its worker waits for fills a directory without a marker, unless
\* one that outlived its worker shared it.
FillsUnmarked ==
  \A w \in Preparers :
    script[w] \in Running /\ w \notin overtime /\ Marked(dir[w]) =>
      \E u \in overtime : dir[u] = dir[w]

PlaceInv ==
  /\ marker \in [Dirs -> [there : BOOLEAN, packages : SUBSET (Complete \cup {"made", "extra"}),
                         userbase : SUBSET {"pip", "extra"}]]
  /\ \A w \in Preparers : w \in overtime => pc[w] = "failed"
  /\ ReadyMarked /\ OwnIsolated /\ FillsUnmarked

\* The directories of a worker are nobody else's.
LEMMA DirsDiffer ==
  ASSUME NEW r \in Reqs, NEW w \in Preparers, NEW s \in Reqs, NEW v \in Preparers
  PROVE  /\ Standard(r) # Isolated(s, v)
         /\ Isolated(r, w) = Isolated(s, v) => w = v
         /\ NoDir # Isolated(r, w)
<1>1. Len(NoDir) = 1 /\ Len(Isolated(r, w)) = 2
  BY DEF NoDir, Isolated
<1> QED
  BY <1>1, BootstrapAssumption DEF Standard, Isolated

\* Initially nobody has a directory.
LEMMA InitPlace == BootInit => PlaceInv
<1> SUFFICES ASSUME BootInit PROVE PlaceInv
  OBVIOUS
<1>1. marker \in [Dirs -> [there : BOOLEAN, packages : SUBSET (Complete \cup {"made", "extra"}),
                          userbase : SUBSET {"pip", "extra"}]]
  BY DEF BootInit, NoMarker
<1>2. \A r \in Reqs, w \in Preparers : ~Marked(Isolated(r, w)) /\ NoDir # Isolated(r, w)
  BY OwnDirs, DirsDiffer DEF BootInit, Marked, NoMarker
<1>3. OwnIsolated
  BY <1>2 DEF OwnIsolated, BootInit
<1> QED
  BY <1>1, <1>3 DEF BootInit, PlaceInv, ReadyMarked, FillsUnmarked, Running

\* The steps of a worker with the lock and without.
LEMMA WorkerPlace ==
  ASSUME BootInv, PlaceInv, NEW w \in Preparers, Begin(w) \/ Prepare(w) PROVE PlaceInv'
<1> USE BootstrapAssumption DEF BootInv, PlaceInv
<1>1. ASSUME Begin(w) \/ HitAfterLock(w) PROVE PlaceInv'
  <2>1. /\ UNCHANGED <<marker, script, overtime>>
        /\ pc[w] \in {"start", "queue"}
        /\ \/ dir' = dir /\ pc' = [pc EXCEPT ![w] = "queue"]
           \/ /\ dir' = [dir EXCEPT ![w] = Standard(needs[w])]
              /\ Marked(Standard(needs[w]))
              /\ pc' = [pc EXCEPT ![w] = "ready"]
    BY <1>1 DEF Begin, HitAfterLock, Goes, DiskFrame, Matches, Marked
  <2>2. script[w] = "none" /\ w \notin overtime
    BY <2>1 DEF NotBegun
  <2>3. ReadyMarked'
    BY <2>1, <2>2, OwnDirs DEF ReadyMarked, BootTypeOK, Marked
  <2>4. OwnIsolated'
    BY <2>1, <2>2, DirsDiffer DEF OwnIsolated, BootTypeOK, Marked
  <2>5. FillsUnmarked'
    BY <2>1, <2>2 DEF FillsUnmarked, BootTypeOK, Marked, Running
  <2> QED
    BY <2>1, <2>2, <2>3, <2>4, <2>5 DEF BootTypeOK
<1>2. CASE StartScript(w)
  <2>1. /\ UNCHANGED <<marker, overtime>>
        /\ pc[w] = "queue" /\ pc' = [pc EXCEPT ![w] = "script"]
        /\ dir' = [dir EXCEPT ![w] = Target(w)]
        /\ script' = [script EXCEPT ![w] = "begin"]
    BY <1>2 DEF StartScript, Goes
  <2>2. script[w] = "none" /\ w \notin overtime
    BY <2>1 DEF NotBegun
  <2>3. ~Marked(Target(w)) /\ Target(w) \in {Standard(needs[w]), Isolated(needs[w], w)}
    BY <2>2 DEF Target, OwnIsolated, Marked
  <2>4. ReadyMarked'
    BY <2>1 DEF ReadyMarked, BootTypeOK, Marked
  <2>5. OwnIsolated'
    BY <2>1, <2>3, DirsDiffer DEF OwnIsolated, BootTypeOK, Marked
  <2>6. FillsUnmarked'
    BY <2>1, <2>2, <2>3 DEF FillsUnmarked, BootTypeOK, Marked
  <2> QED
    BY <2>1, <2>2, <2>4, <2>5, <2>6 DEF BootTypeOK
<1>3. CASE ScriptEnded(w)
  BY <1>3 DEF ScriptEnded, DiskFrame, ReadyMarked, OwnIsolated, FillsUnmarked, Marked, BootTypeOK
<1>4. CASE TimesOut(w)
  BY <1>4 DEF TimesOut, Goes, DiskFrame, ReadyMarked, OwnIsolated, FillsUnmarked, Marked, BootTypeOK
<1> QED
  BY <1>1, <1>2, <1>3, <1>4 DEF Prepare

\* The steps of a script.
LEMMA ScriptPlace ==
  ASSUME BootInv, PlaceInv, NEW w \in Preparers, Script(w) PROVE PlaceInv'
<1> USE DEF BootInv, PlaceInv
<1>1. CASE WriteMarker(w)
  <2>1. /\ UNCHANGED <<pc, dir, overtime>>
        /\ script[w] = "check" /\ script' = [script EXCEPT ![w] = "ok"]
        /\ marker' = [marker EXCEPT ![dir[w]] = Record(site[dir[w]], userbase)]
    BY <1>1 DEF WriteMarker, MarkerLast, ScriptGoes
  <2>2. dir[w] \in Dirs
    BY <2>1 DEF Installed
  <2>3. /\ marker' \in [Dirs -> [there : BOOLEAN,
                                packages : SUBSET (Complete \cup {"made", "extra"}),
                                userbase : SUBSET {"pip", "extra"}]]
        /\ \A d \in Dirs : Marked(d)' <=> Marked(d) \/ d = dir[w]
    BY <2>1, <2>2 DEF Marked, Record, BootTypeOK
  <2>4. ReadyMarked'
    BY <2>1, <2>2, <2>3 DEF ReadyMarked, BootTypeOK
  <2>5. OwnIsolated'
    BY <2>1, <2>3, OwnDirs DEF OwnIsolated, BootTypeOK
  <2>6. ASSUME NEW x \in Preparers, script'[x] \in Running, x \notin overtime, dir[x] = dir[w]
        PROVE  w \in overtime
    <3>1. x # w /\ script[x] \in Running /\ script[w] \in Running
      BY <2>1, <2>6 DEF Running, BootTypeOK
    <3> QED
      BY <2>6, <3>1 DEF WaitedFor, LockHeld
  <2>7. FillsUnmarked'
    <3> SUFFICES ASSUME NEW x \in Preparers, script'[x] \in Running, x \notin overtime,
                        Marked(dir[x])'
                 PROVE  \E u \in overtime : dir[u] = dir[x]
      BY <2>1 DEF FillsUnmarked
    <3>1. CASE dir[x] = dir[w]
      BY <2>6, <3>1
    <3>2. CASE dir[x] # dir[w]
      <4>1. script[x] = script'[x] /\ dir[x] \in Dirs
        BY <2>1, <3>2 DEF BootTypeOK, Installed, Running
      <4> QED
        BY <2>1, <2>3, <3>2, <4>1 DEF FillsUnmarked
    <3> QED
      BY <3>1, <3>2
  <2> QED
    BY <2>1, <2>3, <2>4, <2>5, <2>7
<1>2. CASE ~WriteMarker(w)
  <2>1. /\ UNCHANGED <<marker, pc, dir, overtime>>
        /\ script[w] \in Running
        /\ \E to \in Running \cup {"ok", "failed"} :
             /\ script' = [script EXCEPT ![w] = to]
             /\ to = "ok" => Marked(dir[w])
    BY <1>2
    DEF Script, ScriptBegins, GetPip, InstallSome, InstallRest, ScriptFails,
        ScriptGoes, DiskFrame, Running, Marked
  <2>2. dir[w] \in Dirs
    BY <2>1 DEF Installed, Running
  <2> QED
    BY <2>1, <2>2 DEF ReadyMarked, OwnIsolated, FillsUnmarked, Marked, BootTypeOK, Running
<1> QED
  BY <1>1, <1>2

\* Every step keeps the places.
LEMMA NextPlace == BootInv /\ PlaceInv /\ [BootNext]_bootVars => PlaceInv'
<1> SUFFICES ASSUME BootInv, PlaceInv, [BootNext]_bootVars PROVE PlaceInv'
  OBVIOUS
<1>1. ASSUME UNCHANGED <<marker, pc, dir, script, overtime>> PROVE PlaceInv'
  BY <1>1 DEF PlaceInv, ReadyMarked, OwnIsolated, FillsUnmarked, Marked
<1> QED
  BY <1>1, WorkerPlace, ScriptPlace DEF BootNext, bootVars, Contaminate

\* What an agent already uses is not installed into any more, except where a
\* script that outlived its worker shared the directory with a later one
\* (bootstrap_task_container_python, the .rebuild- directories).
THEOREM Undisturbed == BootSpec => []NotUnderAnAgent
<1>1. BootInv /\ PlaceInv => NotUnderAnAgent
  BY DEF BootInv, PlaceInv, ReadyMarked, FillsUnmarked, NotUnderAnAgent
<1> QED
  BY InitBoot, NextBoot, InitPlace, NextPlace, <1>1, PTL DEF BootSpec

-----------------------------------------------------------------------------
(* The stores together: a behaviour of MCStores is one of each of them.    *)

\* They begin where each of them begins.
LEMMA StoresBegin == Init => HistInit /\ MemInit /\ BootInit /\ CacheInit
  BY DEF Init

\* A step of one of them leaves the variables of the others alone.
LEMMA StoresStep ==
  [Next]_storeVars =>
    /\ [HistNext]_histVars /\ [MemNext]_memVars
    /\ [BootNext]_bootVars /\ [CacheNext]_cacheVars
<1> SUFFICES ASSUME [Next]_storeVars
             PROVE  /\ [HistNext]_histVars /\ [MemNext]_memVars
                    /\ [BootNext]_bootVars /\ [CacheNext]_cacheVars
  OBVIOUS
<1>1. CASE HistOnly(HistNext)
  BY <1>1 DEF HistOnly
<1>2. CASE MemOnly(MemNext)
  BY <1>2 DEF MemOnly
<1>3. CASE BootOnly(BootNext)
  BY <1>3 DEF BootOnly
<1>4. CASE CacheOnly(CacheNext)
  BY <1>4 DEF CacheOnly
<1>5. CASE UNCHANGED storeVars
  BY <1>5 DEF storeVars
<1> QED
  BY <1>1, <1>2, <1>3, <1>4, <1>5 DEF Next

\* Whatever part a behaviour of the stores begins with, it is a behaviour of the runtime
\* history, of the sessions and their memory, of the container packages and of the cache.
THEOREM StoresImplement == FairSpec => HistSpec /\ MemSpec /\ BootSpec /\ CacheSpec
  BY StoresBegin, StoresStep, PTL DEF FairSpec, HistSpec, MemSpec, BootSpec, CacheSpec

\* Every variable of the four stores keeps to its domain, and their files to their bounds,
\* for any containers, sessions, scripts, policies and bounds.
THEOREM StoresTyped == FairSpec => []StoreTypes
<1>1. HistTypeOK /\ MemTypeOK /\ BootTypeOK /\ CacheTypeOK => StoreTypes
  BY DEF StoreTypes
<1> QED
  BY <1>1, StoresImplement, HistoryTypes, MemoryTypes, BootTypes, CacheKeepsTypes, PTL
=============================================================================
