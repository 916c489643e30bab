-------------------------- MODULE EnginePool_proofs --------------------------
(***************************************************************************)
(* Theorems about the engine pool, for any threads, any closers among      *)
(* them, any configurations and any size of the pool.                      *)
(***************************************************************************)
EXTENDS EnginePool, FiniteSetTheorems, WellFoundedInduction, TLAPS

USE PoolAssumption

(* What the proofs carry from step to step. *)
PoolIInv == PoolInv /\ RunningEnginesTick

(* What a step of a run leaves alone. *)
PoolSame == UNCHANGED <<entries, older, built, blocked, closed>>

------------------------------------------------------------------------------
LEMMA HoldersFinite ==
    ASSUME NEW e
    PROVE  /\ IsFiniteSet(Holders(e))
           /\ Cardinality(Holders(e)) \in Nat
<1>1. Holders(e) \in SUBSET Threads
  BY DEF Holders
<1>2. IsFiniteSet(Holders(e))
  BY <1>1, FS_Subset
<1>3. QED
  BY <1>2, FS_CardinalityType

(* A run that counts itself on a pooled engine keeps it live. *)
LEMMA HolderMeansLive ==
    ASSUME PoolInv, NEW t \in Threads, pc[t] \in Holding, Managed(lease[t])
    PROVE  /\ Live(lease[t])
           /\ entry[lease[t]].refcount = Cardinality(Holders(lease[t]))
           /\ lease[t] \in Engines
<1> DEFINE e == lease[t]
<1>1. e \in Engines /\ entry[e].refcount = Cardinality(Holders(e))
  BY DEF PoolInv, TypeOK, RefcountTracksRuns, Managed
<1>2. t \in Holders(e)
  BY DEF Holders
<1>3. Cardinality(Holders(e)) # 0
  BY <1>2, HoldersFinite, FS_EmptySet
<1>4. QED
  BY <1>1, <1>3, HoldersFinite DEF Live

(* An eviction never drops an engine a run counts itself on. *)
LEMMA EvictionsAreIdle ==
    /\ Evictions \subseteq entries
    /\ \A e \in Evictions : ~Live(e)
BY DEF Evictions, Idle

(* Making an engine the most recently used leaves the use ordered. *)
LEMMA LastUsedOrdered ==
    ASSUME PoolInv, NEW kept \in SUBSET entries, NEW e, e \in entries => e \in kept
    PROVE  LET pool == kept \cup {e}
               order == LastUsed(e, kept)
           IN  /\ order \subseteq pool \X pool
               /\ \A d \in pool : <<d, d>> \notin order
               /\ \A b, c, d \in pool :
                     <<b, c>> \in order /\ <<c, d>> \in order => <<b, d>> \in order
<1> DEFINE order == LastUsed(e, kept)
<1>1. /\ older \subseteq entries \X entries
      /\ \A d \in entries : <<d, d>> \notin older
      /\ \A b, c, d \in entries :
            <<b, c>> \in older /\ <<c, d>> \in older => <<b, d>> \in older
  BY DEF PoolInv, TypeOK, UseIsOrdered
<1>2. ASSUME NEW c, NEW d
      PROVE  <<c, d>> \in order <=>
                \/ <<c, d>> \in older /\ c \in kept \ {e} /\ d \in kept \ {e}
                \/ c \in kept \ {e} /\ d = e
  BY DEF LastUsed
<1>3. order \subseteq (kept \cup {e}) \X (kept \cup {e})
  BY <1>1 DEF LastUsed
<1>4. \A d \in kept \cup {e} : <<d, d>> \notin order
  BY <1>1, <1>2
<1>5. ASSUME NEW b \in kept \cup {e}, NEW c \in kept \cup {e}, NEW d \in kept \cup {e},
             <<b, c>> \in order, <<c, d>> \in order
      PROVE  <<b, d>> \in order
  <2>1. c # e /\ c \in kept \ {e} /\ b \in kept \ {e} /\ <<b, c>> \in older
    BY <1>2, <1>5
  <2>2. CASE d = e
    BY <1>2, <2>1, <2>2
  <2>3. CASE d # e
    <3>1. <<c, d>> \in older /\ d \in kept \ {e}
      BY <1>2, <1>5, <2>3
    <3>2. <<b, d>> \in older
      BY <1>1, <2>1, <3>1
    <3>3. QED
      BY <1>2, <2>1, <3>1, <3>2
  <2>4. QED
    BY <2>2, <2>3
<1>6. QED
  BY <1>3, <1>4, <1>5

------------------------------------------------------------------------------
(***************************************************************************)
(* A step of a run t leaves the pool alone, and the other runs.            *)
(***************************************************************************)
LEMMA StepFrame ==
    ASSUME TypeOK, NEW t \in Threads, Step(t)
    PROVE  /\ PoolSame
           /\ \A u \in Threads \ {t} : pc'[u] = pc[u] /\ lease'[u] = lease[u]
           /\ pc[t] # "idle"
           /\ lease[t] \in Engines
           /\ pc' \in [Threads -> Places]
           /\ lease' \in [Threads -> Nat]
           /\ pc'[t] = "idle" \/ lease'[t] = lease[t]
<1> USE DEF TypeOK, Goto, PoolSame, Places
<1>1. CASE LookUp(t)
  BY <1>1 DEF LookUp, Leave, Found, Missing, NoLease
<1>2. CASE Retain(t)
  BY <1>2 DEF Retain
<1>3. CASE Release(t)
  BY <1>3 DEF Release, Leave, NoLease
<1>4. CASE Enter(t)
  BY <1>4 DEF Enter
<1>5. CASE Compile(t)
  BY <1>5 DEF Compile
<1>6. CASE Instantiate(t)
  BY <1>6 DEF Instantiate
<1>7. CASE Finish(t)
  BY <1>7 DEF Finish
<1>8. QED
  BY <1>1, <1>2, <1>3, <1>4, <1>5, <1>6, <1>7 DEF Step

(* What a step of a run does to the entries: a new count, or a new lock. *)
LEMMA StepEntry ==
    ASSUME TypeOK, NEW t \in Threads, Step(t)
    PROVE  LET e == lease[t]
           IN  /\ entry' \in [Engines -> Entry]
               /\ \A d \in Engines : entry'[d].ticking = entry[d].ticking
               /\ \A d \in Engines \ {e} : entry'[d] = entry[d]
               /\ entry'[e].refcount = entry[e].refcount \/ Retain(t) \/ Release(t)
<1>1. lease[t] \in Engines /\ t \in Threads
  BY StepFrame
<1> USE DEF TypeOK, Entry
<1>2. CASE LookUp(t) \/ Finish(t)
  BY <1>2 DEF LookUp, Finish
<1>3. CASE Retain(t)
  BY <1>1, <1>3 DEF Retain, Count
<1>4. CASE Release(t)
  <2>1. LessOne(entry[lease[t]].refcount) \in Nat
    BY <1>1 DEF LessOne
  <2>2. QED
    BY <1>1, <1>4, <2>1 DEF Release, Count
<1>5. CASE Enter(t)
  BY <1>1, <1>5 DEF Enter
<1>6. CASE Compile(t) \/ Instantiate(t)
  BY <1>1, <1>6 DEF Compile, Instantiate
<1>7. QED
  BY <1>2, <1>3, <1>4, <1>5, <1>6 DEF Step

LEMMA StepType ==
    ASSUME TypeOK, NEW t \in Threads, Step(t)
    PROVE  TypeOK'
<1>1. \A u \in Threads : pc'[u] # "idle" => lease'[u] \in Engines
  BY StepFrame DEF TypeOK
<1>2. QED
  BY <1>1, StepFrame, StepEntry DEF TypeOK, PoolSame, Engines

(***************************************************************************)
(* retain and release move the count of a pooled engine as they move the   *)
(* run in and out of its holders; nothing else moves either.               *)
(***************************************************************************)
LEMMA StepRefcount ==
    ASSUME PoolInv, NEW t \in Threads, Step(t)
    PROVE  RefcountTracksRuns'
<1> SUFFICES ASSUME NEW e \in Engines, Managed(e)
             PROVE  entry'[e].refcount = Cardinality(Holders(e)')
  BY StepFrame DEF RefcountTracksRuns, Engines, Managed, PoolSame, PoolInv
<1>1. TypeOK /\ entry[e].refcount = Cardinality(Holders(e))
  BY DEF PoolInv, RefcountTracksRuns
<1>2. \A u \in Threads \ {t} : u \in Holders(e)' <=> u \in Holders(e)
  BY <1>1, StepFrame DEF Holders
<1>3. Holders(e) \in SUBSET Threads /\ Holders(e)' \in SUBSET Threads
  BY DEF Holders
<1>4. ASSUME t \in Holders(e)' <=> t \in Holders(e)
      PROVE  Holders(e)' = Holders(e)
  BY <1>2, <1>3, <1>4
<1>5. CASE e # lease[t]
  <2>1. t \notin Holders(e) /\ t \notin Holders(e)'
    BY <1>1, <1>5, StepFrame DEF Holders, Holding
  <2>2. entry'[e] = entry[e]
    BY <1>1, <1>5, StepEntry
  <2>3. QED
    BY <1>1, <1>4, <2>1, <2>2
<1>6. CASE e = lease[t] /\ Retain(t)
  <2>1. pc[t] = "counting" /\ pc'[t] = "retained" /\ lease' = lease
    BY <1>1 , <1>6 DEF Retain, Goto, TypeOK
  <2>2. t \notin Holders(e) /\ t \in Holders(e)'
    BY <1>6, <2>1 DEF Holders, Holding
  <2>3. Holders(e)' = Holders(e) \cup {t}
    BY <1>2, <1>3, <2>2
  <2>4. Cardinality(Holders(e)') = Cardinality(Holders(e)) + 1
    BY <2>2, <2>3, HoldersFinite, FS_AddElement
  <2>5. entry'[e].refcount = entry[e].refcount + 1
    BY <1>1, <1>6 DEF Retain, Count, TypeOK, Entry
  <2>6. QED
    BY <1>1, <2>4, <2>5
<1>7. CASE e = lease[t] /\ Release(t)
  <2>1. pc[t] = "release" /\ pc'[t] = "idle"
    BY <1>1 , <1>7 DEF Release, Leave, Goto, TypeOK
  <2>2. t \in Holders(e) /\ t \notin Holders(e)'
    BY <1>7, <2>1 DEF Holders, Holding
  <2>3. Holders(e)' = Holders(e) \ {t}
    BY <1>2, <1>3, <2>2
  <2>4. Cardinality(Holders(e)') = Cardinality(Holders(e)) - 1
    BY <2>2, <2>3, HoldersFinite, FS_RemoveElement
  <2>5. Live(e)
    BY <1>7, <2>2, HolderMeansLive DEF Holders
  <2>6. entry'[e].refcount = LessOne(entry[e].refcount)
    BY <1>1, <1>7 DEF Release, Count, TypeOK, Entry
  <2>7. QED
    BY <1>1, <2>4, <2>5, <2>6 DEF Live, LessOne
<1>8. CASE e = lease[t] /\ ~Retain(t) /\ ~Release(t)
  <2>1. entry'[e].refcount = entry[e].refcount
    BY <1>1, <1>8, StepEntry
  <2>2. pc'[t] \in Holding <=> pc[t] \in Holding
    <3>1. CASE LookUp(t)
      BY <1>1, <1>8, <3>1 DEF LookUp, Goto, Found, Missing, TypeOK, Holding
    <3>2. CASE Enter(t) \/ Compile(t) \/ Instantiate(t) \/ Finish(t)
      BY <1>1, <3>2 DEF Enter, Compile, Instantiate, Finish, Goto, TypeOK, Holding
    <3>3. QED
      BY <1>8, <3>1, <3>2 DEF Step
  <2>3. t \in Holders(e)' <=> t \in Holders(e)
    BY <1>1, <1>8, <2>2, StepFrame DEF Holders, Holding
  <2>4. QED
    BY <1>1, <1>4, <2>1, <2>3
<1>9. QED
  BY <1>5, <1>6, <1>7, <1>8

(* A lock is taken when it is free, and given back by the run that holds it. *)
LEMMA StepLocks ==
    ASSUME PoolInv, NEW t \in Threads, Step(t)
    PROVE  LocksHeld'
<1> SUFFICES ASSUME NEW u \in Threads, pc'[u] \in {"compiling", "instantiating"}
             PROVE  entry'[lease'[u]].lock = u
  BY DEF LocksHeld
<1>1. TypeOK /\ TypeOK' /\ u # Nobody
  BY StepType DEF PoolInv
<1>2. lease[t] \in Engines
  BY <1>1, StepFrame
<1>3. CASE u = t
  <2>1. Enter(t)
    BY <1>1, <1>3 DEF Step, LookUp, Leave, Retain, Release, Compile, Instantiate, Finish,
                      Goto, Found, Missing, TypeOK
  <2>2. QED
    BY <1>1, <1>2, <1>3, <2>1 DEF Enter, TypeOK, Entry
<1>4. CASE u # t
  <2>1. pc[u] = pc'[u] /\ lease'[u] = lease[u]
    BY <1>1, <1>4, StepFrame
  <2>2. entry[lease[u]].lock = u /\ lease[u] \in Engines
    BY <1>1, <2>1 DEF PoolInv, LocksHeld, TypeOK
  <2>3. CASE lease[u] # lease[t]
    BY <1>1, <2>1, <2>2, <2>3, StepEntry
  <2>4. CASE lease[u] = lease[t]
    <3>1. ~Enter(t) /\ ~Compile(t) /\ ~Instantiate(t)
      BY <1>1, <1>4, <2>2, <2>4 DEF Enter, LockFree, Compile, Instantiate, PoolInv, LocksHeld
    <3>2. CASE Retain(t) \/ Release(t)
      BY <1>1, <1>2, <2>1, <2>2, <2>4, <3>2 DEF Retain, Release, Count, TypeOK, Entry
    <3>3. CASE LookUp(t) \/ Finish(t)
      BY <2>1, <2>2, <3>3 DEF LookUp, Finish
    <3>4. QED
      BY <3>1, <3>2, <3>3 DEF Step
  <2>5. QED
    BY <2>3, <2>4
<1>5. QED
  BY <1>3, <1>4

(* Two runs inside locked blocks of one engine would hold one lock both. *)
LEMMA LocksSerialize == LocksHeld => ModulesSerialized
BY DEF LocksHeld, ModulesSerialized

(* A guest starts only on an engine that was just found in the pool. *)
LEMMA StepTicks ==
    ASSUME PoolIInv, NEW t \in Threads, Step(t)
    PROVE  RunningEnginesTick'
<1> SUFFICES ASSUME ~closed, NEW u \in Threads,
                    pc'[u] \in {"instantiate", "instantiating", "executing"}
             PROVE  lease'[u] \in entries' /\ entry'[lease'[u]].ticking
  BY StepFrame DEF RunningEnginesTick, Managed, PoolIInv, PoolInv, PoolSame
<1>1. TypeOK /\ entries' = entries /\ entries \subseteq Engines
  BY StepFrame DEF PoolIInv, PoolInv, TypeOK, PoolSame
<1>2. lease'[u] = lease[u]
  BY <1>1, StepFrame
<1>3. Managed(lease[u]) /\ entry[lease[u]].ticking
  <2>1. CASE pc[u] \in {"instantiate", "instantiating", "executing"}
    BY <2>1 DEF PoolIInv, RunningEnginesTick
  <2>2. CASE pc[u] \notin {"instantiate", "instantiating", "executing"}
    <3>1. u = t
      BY <1>1, <2>2, StepFrame
    <3>2. LookUp(t)
      BY <1>1, <2>2, <3>1 DEF Step, Retain, Release, Leave, Enter, Compile, Instantiate,
                              Finish, Goto, TypeOK
    <3>3. Managed(lease[u])
      BY <1>1, <3>1, <3>2 DEF LookUp, Leave, Goto, Found, Missing, TypeOK
    <3>4. QED
      BY <3>3 DEF PoolIInv, PoolInv, PooledEnginesTick, Managed
  <2>3. QED
    BY <2>1, <2>2
<1>4. QED
  BY <1>1, <1>2, <1>3, StepEntry DEF Managed

LEMMA StepPool ==
    ASSUME PoolIInv, NEW t \in Threads, Step(t)
    PROVE  PoolIInv'
<1>1. TypeOK /\ TypeOK' /\ PoolSame
  BY StepType, StepFrame DEF PoolIInv, PoolInv
<1>2. PooledEnginesTick'
  <2>1. \A e \in entries : e \in Engines /\ entry[e].ticking
    BY <1>1 DEF PoolIInv, PoolInv, PooledEnginesTick, TypeOK
  <2>2. QED
    BY <1>1, <2>1, StepEntry DEF PooledEnginesTick, PoolSame
<1>3. UseIsOrdered'
  BY <1>1 DEF PoolIInv, PoolInv, UseIsOrdered, PoolSame
<1>4. LocksHeld' /\ ModulesSerialized'
  BY StepLocks, LocksSerialize DEF PoolIInv, LocksHeld, ModulesSerialized
<1>5. QED
  BY <1>1, <1>2, <1>3, <1>4, StepRefcount, StepTicks DEF PoolIInv, PoolInv

------------------------------------------------------------------------------
(* The most recently used engine changes places; nothing else does. *)
LEMMA HitPool ==
    ASSUME PoolIInv, NEW t \in Threads, EngineForHit(t)
    PROVE  PoolIInv'
<1>1. PICK e \in entries : older' = LastUsed(e, entries) /\ Give(t, e)
  BY DEF EngineForHit
<1>2. /\ TypeOK
      /\ pc[t] = "idle"
      /\ UNCHANGED <<entries, built, entry, blocked, closed>>
      /\ pc' = [pc EXCEPT ![t] = "given"]
      /\ lease' = [lease EXCEPT ![t] = e]
      /\ e \in Engines
      /\ entries \cup {e} = entries
  BY <1>1 DEF EngineForHit, Give, Goto, PoolIInv, PoolInv, TypeOK
<1>3. older' \subseteq entries' \X entries' /\ UseIsOrdered'
  BY <1>1, <1>2, LastUsedOrdered DEF UseIsOrdered, PoolIInv
<1>4. TypeOK'
  BY <1>2, <1>3 DEF TypeOK, Engines, Places
<1>5. \A d : Holders(d)' = Holders(d)
  BY <1>2 DEF TypeOK, Holders, Holding
<1>6. \A u \in Threads : pc'[u] \notin {"idle", "given"} => pc'[u] = pc[u] /\ lease'[u] = lease[u]
  BY <1>2 DEF TypeOK
<1>7. RefcountTracksRuns'
  BY <1>2, <1>5 DEF RefcountTracksRuns, Managed, Engines, PoolIInv, PoolInv
<1>8. LocksHeld'
  BY <1>2, <1>6 DEF LocksHeld, PoolIInv, PoolInv
<1>9. ModulesSerialized'
  BY <1>6 DEF ModulesSerialized, PoolIInv, PoolInv
<1>10. PooledEnginesTick' /\ RunningEnginesTick'
  BY <1>2, <1>6 DEF PooledEnginesTick, RunningEnginesTick, Managed, PoolIInv, PoolInv
<1>11. QED
  BY <1>3, <1>4, <1>7, <1>8, <1>9, <1>10 DEF PoolIInv, PoolInv

(***************************************************************************)
(* A new engine joins, and idle ones leave: no engine that a run counts    *)
(* itself on, so that no guest loses its ticker.                           *)
(***************************************************************************)
LEMMA MissPool ==
    ASSUME PoolIInv, NEW t \in Threads, EngineForMiss(t)
    PROVE  PoolIInv'
<1> DEFINE n == built + 1
           kept == entries \ Evictions
<1>1. PICK f \in Fingerprints :
         entry' = [e \in 1..n |-> IF e = n THEN NewEntry(f)
                                  ELSE IF e \in Evictions THEN Stopped(e) ELSE entry[e]]
  BY DEF EngineForMiss
<1>2. /\ TypeOK
      /\ pc[t] = "idle"
      /\ built' = n
      /\ entries' = kept \cup {n}
      /\ older' = LastUsed(n, kept)
      /\ UNCHANGED <<blocked, closed>>
      /\ pc' = [pc EXCEPT ![t] = "given"]
      /\ lease' = [lease EXCEPT ![t] = n]
  BY DEF EngineForMiss, Give, Goto, PoolIInv, PoolInv
<1>3. /\ built \in Nat
      /\ n \notin Engines
      /\ n \notin entries
      /\ Engines' = Engines \cup {n}
      /\ Engines' = 1..n
      /\ kept \subseteq entries
      /\ entries \subseteq Engines
  <2>1. built \in Nat /\ entries \subseteq Engines
    BY <1>2 DEF TypeOK
  <2>2. Engines' = 1..n /\ Engines = 1..built
    BY <1>2 DEF Engines
  <2>3. 1..n = (1..built) \cup {n} /\ n \notin 1..built
    BY <2>1
  <2>4. QED
    BY <2>1, <2>2, <2>3
<1>4. older' \subseteq entries' \X entries' /\ UseIsOrdered'
  <2>1. kept \in SUBSET entries /\ (n \in entries => n \in kept) /\ PoolInv
    BY <1>3 DEF PoolIInv
  <2> HIDE DEF kept, n
  <2> DEFINE pool == kept \cup {n}
             order == LastUsed(n, kept)
  <2>2. /\ order \subseteq pool \X pool
        /\ \A d \in pool : <<d, d>> \notin order
        /\ \A b, c, d \in pool :
              <<b, c>> \in order /\ <<c, d>> \in order => <<b, d>> \in order
    BY <2>1, LastUsedOrdered
  <2>3. entries' = pool /\ older' = order
    BY <1>2
  <2> HIDE DEF pool, order
  <2>4. QED
    BY <2>2, <2>3 DEF UseIsOrdered
<1>5. /\ NewEntry(f) \in Entry
      /\ \A e \in Engines : Stopped(e) \in Entry
  <2>1. NewEntry(f) \in Entry
    BY DEF NewEntry, Entry
  <2>2. \A e \in Engines : entry[e] \in Entry
    BY <1>2 DEF TypeOK
  <2>3. \A e \in Engines : Stopped(e) \in Entry
    BY <2>2 DEF Stopped, Entry
  <2>4. QED
    BY <2>1, <2>3
<1>6. entry' \in [Engines' -> Entry]
  BY <1>1, <1>2, <1>3, <1>5 DEF TypeOK
<1>7. \A e \in Engines : /\ entry'[e].refcount = entry[e].refcount
                         /\ entry'[e].lock = entry[e].lock
                         /\ e \notin Evictions => entry'[e] = entry[e]
  BY <1>1, <1>2, <1>3 DEF Stopped, TypeOK, Entry
<1>8. entry'[n].refcount = 0 /\ entry'[n].ticking
  BY <1>1, <1>3 DEF NewEntry
<1>9. TypeOK'
  <2>1. /\ pc' \in [Threads -> Places] /\ lease' \in [Threads -> Nat]
        /\ closed' \in BOOLEAN /\ blocked' \subseteq Threads
    BY <1>2, <1>3 DEF TypeOK, Places
  <2>2. \A u \in Threads : pc'[u] # "idle" => lease'[u] \in Engines'
    BY <1>2, <1>3 DEF TypeOK
  <2>3. built' \in Nat
    BY <1>2, <1>3
  <2>4. ASSUME NEW e \in entries' PROVE e \in Engines'
    BY <1>2, <1>3, <2>4 DEF Engines
  <2>5. QED
    BY <1>4, <1>6, <2>1, <2>2, <2>3, <2>4 DEF TypeOK
<1>10. \A u \in Threads : pc'[u] \notin {"idle", "given"} =>
            pc'[u] = pc[u] /\ lease'[u] = lease[u] /\ lease[u] \in Engines
  BY <1>2 DEF TypeOK
<1>11. \A e : Holders(e)' = Holders(e)
  BY <1>2 DEF TypeOK, Holders, Holding
<1>12. \A e : e = n => Holders(e) = {}
  BY <1>2, <1>3 DEF Holders, Holding, TypeOK
<1>13. RefcountTracksRuns'
  <2> SUFFICES ASSUME NEW e \in entries' PROVE entry'[e].refcount = Cardinality(Holders(e)')
    BY DEF RefcountTracksRuns, Managed
  <2>1. CASE e = n
    <3>1. Holders(e)' = {}
      BY <1>11, <1>12, <2>1
    <3>2. QED
      BY <1>8, <2>1, <3>1, FS_EmptySet
  <2>2. CASE e \in kept
    <3>1. e \in Engines /\ entry[e].refcount = Cardinality(Holders(e))
      BY <1>3, <2>2 DEF PoolIInv, PoolInv, RefcountTracksRuns, Managed
    <3>2. QED
      BY <1>7, <1>11, <3>1
  <2>3. QED
    BY <1>2, <2>1, <2>2
<1>14. LocksHeld'
  BY <1>7, <1>10 DEF LocksHeld, PoolIInv, PoolInv
<1>15. ModulesSerialized'
  BY <1>10 DEF ModulesSerialized, PoolIInv, PoolInv
<1>16. PooledEnginesTick'
  BY <1>2, <1>3, <1>7, <1>8 DEF PooledEnginesTick, PoolIInv, PoolInv
<1>17. RunningEnginesTick'
  <2> SUFFICES ASSUME ~closed, NEW u \in Threads,
                      pc'[u] \in {"instantiate", "instantiating", "executing"}
               PROVE  lease'[u] \in entries' /\ entry'[lease'[u]].ticking
    BY <1>2 DEF RunningEnginesTick, Managed
  <2>1. /\ pc[u] = pc'[u]
        /\ lease'[u] = lease[u]
        /\ lease[u] \in Engines
    BY <1>10
  <2>2. Managed(lease[u]) /\ entry[lease[u]].ticking
    BY <2>1 DEF PoolIInv, RunningEnginesTick
  <2>3. Live(lease[u])
    BY <2>1, <2>2, HolderMeansLive DEF PoolIInv, Holding
  <2>4. lease[u] \notin Evictions
    BY <2>3, EvictionsAreIdle
  <2>5. QED
    BY <1>2, <1>7, <2>1, <2>2, <2>4 DEF Managed
<1>18. QED
  BY <1>4, <1>9, <1>13, <1>14, <1>15, <1>16, <1>17 DEF PoolIInv, PoolInv

(* close empties the pool: what is promised of pooled engines is void. *)
LEMMA ClosePool ==
    ASSUME PoolIInv, NEW t \in Threads, Close(t)
    PROVE  PoolIInv'
<1>1. /\ TypeOK
      /\ entries' = {}
      /\ older' = {}
      /\ closed' = TRUE
      /\ UNCHANGED <<built, pc, lease, blocked>>
      /\ entry' = [e \in Engines |-> IF Managed(e) THEN Stopped(e) ELSE entry[e]]
  BY DEF Close, PoolIInv, PoolInv
<1>2. /\ entry' \in [Engines -> Entry]
      /\ \A e \in Engines : entry'[e].lock = entry[e].lock
  <2>1. \A e \in Engines : entry[e] \in Entry
    BY <1>1 DEF TypeOK
  <2>2. \A e \in Engines : Stopped(e) \in Entry /\ Stopped(e).lock = entry[e].lock
    BY <2>1 DEF Stopped, Entry
  <2>3. QED
    BY <1>1, <2>1, <2>2
<1>3. TypeOK'
  BY <1>1, <1>2 DEF TypeOK, Engines
<1>4. LocksHeld' /\ ModulesSerialized'
  BY <1>1, <1>2 DEF LocksHeld, ModulesSerialized, TypeOK, PoolIInv, PoolInv
<1>5. RefcountTracksRuns' /\ PooledEnginesTick' /\ UseIsOrdered' /\ RunningEnginesTick'
  BY <1>1 DEF RefcountTracksRuns, Managed, PooledEnginesTick, UseIsOrdered, RunningEnginesTick
<1>6. QED
  BY <1>3, <1>4, <1>5 DEF PoolIInv, PoolInv

LEMMA PoolInit == Init => PoolIInv
<1> SUFFICES ASSUME Init PROVE PoolIInv
  OBVIOUS
<1>1. Engines = {} /\ entry \in [Engines -> Entry]
  BY DEF Init, Engines
<1>2. TypeOK
  BY <1>1 DEF Init, TypeOK, Places, NoLease
<1>3. QED
  BY <1>1, <1>2 DEF Init, PoolIInv, PoolInv, RefcountTracksRuns, ModulesSerialized, LocksHeld,
        PooledEnginesTick, UseIsOrdered, RunningEnginesTick

LEMMA PoolSteps == PoolIInv /\ [Next]_vars => PoolIInv'
<1> SUFFICES ASSUME PoolIInv, [Next]_vars PROVE PoolIInv'
  OBVIOUS
<1>1. ASSUME NEW t \in Threads, EngineForHit(t) \/ EngineForMiss(t) \/ Step(t) \/ Close(t)
      PROVE  PoolIInv'
  BY <1>1, HitPool, MissPool, StepPool, ClosePool
<1>2. ASSUME blocked' \in SUBSET Threads,
             UNCHANGED <<entries, older, built, entry, pc, lease, closed>>
      PROVE  PoolIInv'
  BY <1>2 DEF PoolIInv, PoolInv, TypeOK, Engines, RefcountTracksRuns, Managed, Holders,
        ModulesSerialized, LocksHeld, PooledEnginesTick, UseIsOrdered, RunningEnginesTick
<1>3. CASE \E t \in Threads : HostCall(t) \/ HostCallReturns(t)
  BY <1>2, <1>3 DEF HostCall, HostCallReturns, PoolIInv, PoolInv, TypeOK
<1>4. CASE UNCHANGED vars
  BY <1>2, <1>4 DEF vars, PoolIInv, PoolInv, TypeOK
<1>5. QED
  BY <1>1, <1>3, <1>4 DEF Next, Rest

LEMMA PoolIInvariant == Spec => []PoolIInv
BY PoolInit, PoolSteps, PTL DEF Spec

(***************************************************************************)
(* The leases are sound: the count of every pooled engine is the number of *)
(* runs on it, and one run at a time touches the modules of an engine.     *)
(***************************************************************************)
THEOREM LeasesAreExact == Spec => []PoolInv
<1>1. PoolIInv => PoolInv
  BY DEF PoolIInv
<1>2. QED
  BY <1>1, PoolIInvariant, PTL

(* Until the pool is closed, every guest runs on an engine that ticks. *)
THEOREM GuestsHaveTickers == Spec => []RunningEnginesTick
<1>1. PoolIInv => RunningEnginesTick
  BY DEF PoolIInv
<1>2. QED
  BY <1>1, PoolIInvariant, PTL

------------------------------------------------------------------------------
(***************************************************************************)
(* The pool grows over its limit only when nothing in it could go.         *)
(***************************************************************************)
LEMMA SmallestNumber ==
    ASSUME NEW S \in SUBSET Nat, S # {}
    PROVE  \E m \in S : \A n \in S : m <= n
<1>1. PICK m \in S : \A n \in S : <<n, m>> \notin OpToRel(<, Nat)
  BY NatLessThanWellFounded, WFMin
<1>2. ASSUME NEW n \in S PROVE m <= n
  <2>1. <<n, m>> \in Nat \X Nat /\ <<n, m>>[1] = n /\ <<n, m>>[2] = m
    OBVIOUS
  <2>2. ~(n < m)
    BY <1>1, <2>1, Zenon DEF OpToRel
  <2>3. n \in Nat /\ m \in Nat
    OBVIOUS
  <2>4. QED
    BY <2>2, <2>3
<1>3. QED
  BY <1>2

LEMMA IdleFinite ==
    ASSUME TypeOK
    PROVE  /\ IsFiniteSet(entries) /\ Cardinality(entries) \in Nat
           /\ \A S \in SUBSET entries : IsFiniteSet(S) /\ Cardinality(S) \in Nat
           /\ \A e : OlderIdle(e) \in SUBSET entries
<1>1. IsFiniteSet(Engines) /\ entries \in SUBSET Engines
  BY FS_Interval DEF TypeOK, Engines
<1>2. IsFiniteSet(entries)
  BY <1>1, FS_Subset
<1>3. \A S \in SUBSET entries : IsFiniteSet(S)
  BY <1>2, FS_Subset
<1>4. QED
  BY <1>2, <1>3, FS_CardinalityType DEF OlderIdle, Idle

(* What is older than an older engine is older, and not that engine itself. *)
LEMMA OlderCountsLess ==
    ASSUME PoolInv, NEW e \in Idle, NEW d \in OlderIdle(e)
    PROVE  Cardinality(OlderIdle(d)) < Cardinality(OlderIdle(e))
<1>1. /\ d \in entries
      /\ e \in entries
      /\ <<d, e>> \in older
      /\ <<d, d>> \notin older
      /\ \A c \in entries : <<c, d>> \in older => <<c, e>> \in older
  BY DEF OlderIdle, Idle, PoolInv, UseIsOrdered
<1>2. OlderIdle(d) \in SUBSET OlderIdle(e) /\ OlderIdle(d) # OlderIdle(e)
  BY <1>1 DEF OlderIdle, Idle
<1>3. /\ IsFiniteSet(OlderIdle(e))
      /\ Cardinality(OlderIdle(e)) \in Nat
      /\ Cardinality(OlderIdle(d)) \in Nat
  BY IdleFinite DEF PoolInv
<1>4. Cardinality(OlderIdle(d)) <= Cardinality(OlderIdle(e))
  BY <1>2, <1>3, FS_Subset
<1>5. Cardinality(OlderIdle(d)) # Cardinality(OlderIdle(e))
  BY <1>2, <1>3, FS_Subset
<1>6. QED
  BY <1>3, <1>4, <1>5

(***************************************************************************)
(* When an idle engine stays, as many were evicted as the pool had too     *)
(* many: among those that stay take one with the fewest older idle ones;   *)
(* all of these are evicted.                                               *)
(***************************************************************************)
LEMMA EvictionsSuffice ==
    ASSUME PoolInv, NEW x \in Idle \ Evictions
    PROVE  Cardinality(entries) < Cardinality(Evictions) + MaxEngines
<1> DEFINE rank(e) == Cardinality(OlderIdle(e))
           size == Cardinality(entries)
           stay == Idle \ Evictions
           ranks == {rank(e) : e \in stay}
<1>1. /\ size \in Nat
      /\ \A e : rank(e) \in Nat
      /\ IsFiniteSet(Evictions)
      /\ Cardinality(Evictions) \in Nat
  BY IdleFinite, EvictionsAreIdle DEF PoolInv
<1>2. PICK m \in ranks : \A n \in ranks : m <= n
  <2>1. ranks \in SUBSET Nat /\ rank(x) \in ranks
    BY <1>1
  <2> HIDE DEF ranks
  <2>2. QED
    BY <2>1, SmallestNumber
<1>3. PICK y \in stay : m = rank(y)
  BY <1>2
<1>4. ASSUME NEW d \in OlderIdle(y) PROVE d \in Evictions
  <2>1. rank(d) < rank(y) /\ d \in Idle
    BY <1>3, OlderCountsLess DEF OlderIdle
  <2>2. d \notin stay
    <3> SUFFICES ASSUME d \in stay PROVE FALSE
      OBVIOUS
    <3>1. rank(d) \in ranks
      OBVIOUS
    <3>2. m <= rank(d)
      BY <1>2, <3>1
    <3>3. QED
      BY <1>1, <1>3, <2>1, <3>2
  <2>3. QED
    BY <2>1, <2>2
<1>5. rank(y) <= Cardinality(Evictions)
  <2>1. OlderIdle(y) \in SUBSET Evictions
    BY <1>4
  <2>2. QED
    BY <1>1, <2>1, FS_Subset
<1>6. ~(rank(y) + MaxEngines <= size)
  BY <1>3 DEF Evictions
<1>7. QED
  BY <1>1, <1>5, <1>6

(***************************************************************************)
(* After a new engine was pooled, the pool is larger than max_engines only *)
(* if every other engine in it has a run.                                  *)
(***************************************************************************)
THEOREM PoolGrowsOnlyWhenLive == Spec => GrowsOnlyWhenLive
<1>1. PoolIInv /\ [Next]_vars =>
        [built' > built /\ Cardinality(entries') > MaxEngines
            => \A e \in entries' \ {built'} : Live(e)]_vars
  <2> SUFFICES ASSUME PoolInv, [Next]_vars, built' > built,
                      Cardinality(entries') > MaxEngines,
                      NEW e \in entries' \ {built'}, ~Live(e)
               PROVE  FALSE
    BY DEF PoolIInv
  <2> DEFINE kept == entries \ Evictions
  <2>1. built \in Nat /\ TypeOK
    BY DEF PoolInv, TypeOK
  <2>2. PICK t \in Threads : EngineForMiss(t)
    <3>1. ASSUME NEW t \in Threads, EngineForHit(t) \/ Step(t) \/ Close(t)
          PROVE  built' = built
      BY <2>1, <3>1, StepFrame DEF EngineForHit, Close, PoolSame
    <3>2. QED
      BY <2>1, <3>1 DEF Next, Rest, HostCall, HostCallReturns, vars
  <2>3. entries' = kept \cup {built'}
    BY <2>2 DEF EngineForMiss
  <2>4. e \in Idle \ Evictions
    BY <2>3 DEF Idle
  <2>5. Cardinality(entries) < Cardinality(Evictions) + MaxEngines
    BY <2>4, EvictionsSuffice
  <2>6. /\ IsFiniteSet(kept)
        /\ Cardinality(kept) = Cardinality(entries) - Cardinality(Evictions)
    <3>1. entries \cap Evictions = Evictions /\ IsFiniteSet(entries)
      BY <2>1, IdleFinite, EvictionsAreIdle
    <3>2. QED
      BY <3>1, FS_Difference
  <2>7. Cardinality(entries') <= Cardinality(kept) + 1
    <3> HIDE DEF kept
    <3>1. Cardinality(kept) \in Nat
      BY <2>6, FS_CardinalityType
    <3>2. Cardinality(kept \cup {built'})
              = IF built' \in kept THEN Cardinality(kept) ELSE Cardinality(kept) + 1
      BY <2>6, FS_AddElement
    <3>3. QED
      BY <2>3, <3>1, <3>2
  <2>8. Cardinality(entries) \in Nat /\ Cardinality(Evictions) \in Nat
    BY <2>1, IdleFinite, EvictionsAreIdle
  <2>9. Cardinality(entries') \in Nat
    BY <2>3, <2>6, FS_AddElement, FS_CardinalityType
  <2>10. QED
    BY <2>5, <2>6, <2>7, <2>8, <2>9
<1>2. QED
  BY <1>1, PoolIInvariant, PTL DEF Spec, GrowsOnlyWhenLive
===============================================================================
