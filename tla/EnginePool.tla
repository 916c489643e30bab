------------------------------ MODULE EnginePool ------------------------------
(***************************************************************************)
(* The process-wide pool of wasmtime engines (ephemora_cell/engine_pool.py) *)
(* and the threads that lease an engine from it for one run                *)
(* (wasi_runtime.py, _execute).  The pool's dictionaries are guarded by    *)
(* one lock, every method taking it is one atomic step here; between two   *)
(* methods, and between the look-up and the count inside retain, release   *)
(* and locked, any other thread may run.  A second lock per engine guards  *)
(* its module cache and the instantiation of its modules; which modules    *)
(* the cache holds is left out.                                            *)
(***************************************************************************)
EXTENDS Integers, Sequences, FiniteSets

CONSTANTS
    Threads,
    Closers,        \* the threads that may close the pool
    Nobody,
    Fingerprints,   \* config_fingerprint of the configurations in use
    MaxEngines,
    MaxEntries      \* bound: how many engines are ever built

ASSUME PoolAssumption ==
    /\ IsFiniteSet(Threads)
    /\ Closers \subseteq Threads
    /\ Nobody \notin Threads
    /\ MaxEngines \in Nat \ {0}
    /\ MaxEntries \in Nat

VARIABLES
    entries,    \* _entries: the pooled engines, one of each fingerprint
    older,      \* the order of _entries: <<d, e>>, d was asked for before e
    built,      \* how many engines were built so far
    entry,      \* every _EngineEntry ever built, pooled or not
    pc,         \* where each run stands
    lease,      \* the engine each run was given
    blocked,    \* the runs whose guest waits in a host call
    closed      \* history: close has been called

vars == <<entries, older, built, entry, pc, lease, blocked, closed>>

Entry == [fingerprint : Fingerprints, refcount : Nat, ticking : BOOLEAN,
          lock : Threads \cup {Nobody}]

Engines == 1..built

(* _entry_for finds what _by_engine_id holds: the engines of _entries. *)
Managed(e) == e \in entries

------------------------------------------------------------------------------
(***************************************************************************)
(* _evict_locked: while the pool is full, the least recently used engine   *)
(* that no run counts itself on is dropped.  In all: the idle engines with *)
(* fewer older idle ones than the pool has engines too many.               *)
(***************************************************************************)
Live(e) == entry[e].refcount > 0

Idle == {e \in entries : ~Live(e)}

OlderIdle(e) == {d \in Idle : <<d, e>> \in older}

Evictions_Always ==                         \* mutant: live engines are dropped too
    {e \in entries : Cardinality({d \in entries : <<d, e>> \in older}) + MaxEngines
                        <= Cardinality(entries)}

Evictions_Single ==                         \* mutant: if instead of while
    {e \in Idle : OlderIdle(e) = {} /\ MaxEngines <= Cardinality(entries)}

Evictions ==
    {e \in Idle : Cardinality(OlderIdle(e)) + MaxEngines <= Cardinality(entries)}

(* What order the pool is left in when e becomes the most recently used of *)
(* the engines kept.                                                       *)
LastUsed(e, kept) ==
    {p \in older : p[1] \in kept \ {e} /\ p[2] \in kept \ {e}}
        \cup {<<d, e>> : d \in kept \ {e}}

NewEntry(f) == [fingerprint |-> f, refcount |-> 0, ticking |-> TRUE,
                lock |-> Nobody]

NoLease == 0

Stopped(e) == [entry[e] EXCEPT !.ticking = FALSE]

------------------------------------------------------------------------------
Init ==
    /\ entries = {}
    /\ older = {}
    /\ built = 0
    /\ entry = <<>>
    /\ pc = [t \in Threads |-> "idle"]
    /\ lease = [t \in Threads |-> NoLease]
    /\ blocked = {}
    /\ closed = FALSE

Goto(t, place) == pc' = [pc EXCEPT ![t] = place]

Leave(t) ==
    /\ lease' = [lease EXCEPT ![t] = NoLease]
    /\ Goto(t, "idle")

Give(t, e) ==
    /\ lease' = [lease EXCEPT ![t] = e]
    /\ Goto(t, "given")

(* engine_for, of a pooled engine: it becomes the most recently used. *)
EngineForHit(t) ==
    /\ pc[t] = "idle"
    /\ \E e \in entries :
          /\ older' = LastUsed(e, entries)
          /\ Give(t, e)
    /\ UNCHANGED <<entries, built, entry, blocked, closed>>

(* engine_for, of a new one: what is full is evicted, under the same lock. *)
EngineForMiss(t) ==
    /\ pc[t] = "idle"
    /\ built < MaxEntries
    /\ \E f \in Fingerprints :
          /\ \A e \in entries : entry[e].fingerprint # f
          /\ entry' = [e \in 1..(built + 1) |->
                          IF e = built + 1 THEN NewEntry(f)
                          ELSE IF e \in Evictions THEN Stopped(e) ELSE entry[e]]
    /\ built' = built + 1
    /\ entries' = (entries \ Evictions) \cup {built + 1}
    /\ older' = LastUsed(built + 1, entries \ Evictions)
    /\ Give(t, built + 1)
    /\ UNCHANGED <<blocked, closed>>

(***************************************************************************)
(* Every later method starts by looking its engine up.  What a run does    *)
(* next, when the engine is managed and when it is not: then ValueError    *)
(* turns the run into an error result, or escapes from the final release.  *)
(***************************************************************************)
Found == [given |-> "counting", retained |-> "compile", compiled |-> "instantiate",
          leaving |-> "release"]

Missing == [given |-> "idle", retained |-> "leaving", compiled |-> "leaving",
            leaving |-> "idle"]

LookUp(t) ==
    /\ pc[t] \in DOMAIN Found
    /\ IF Managed(lease[t])
       THEN Goto(t, Found[pc[t]]) /\ UNCHANGED lease
       ELSE IF Missing[pc[t]] = "idle"
            THEN Leave(t)
            ELSE Goto(t, Missing[pc[t]]) /\ UNCHANGED lease
    /\ UNCHANGED <<entries, older, built, entry, blocked, closed>>

Count(t, n) == [entry EXCEPT ![lease[t]].refcount = n]

(* retain counts the run on the entry it looked up before. *)
Retain(t) ==
    /\ pc[t] = "counting"
    /\ entry' = Count(t, entry[lease[t]].refcount + 1)
    /\ Goto(t, "retained")
    /\ UNCHANGED <<entries, older, built, lease, blocked, closed>>

LessOne_Zero(n) == 0                        \* mutant: the last of several leases

LessOne(n) == IF n = 0 THEN 0 ELSE n - 1

Release(t) ==
    /\ pc[t] = "release"
    /\ entry' = Count(t, LessOne(entry[lease[t]].refcount))
    /\ Leave(t)
    /\ UNCHANGED <<entries, older, built, blocked, closed>>

LockFree_Ignored(t) == TRUE                 \* mutant: the block is not locked

LockFree(t) == entry[lease[t]].lock = Nobody

(* entry.lock, around the compilation or around linker.instantiate. *)
Enter(t) ==
    /\ pc[t] \in {"compile", "instantiate"}
    /\ LockFree(t)
    /\ entry' = [entry EXCEPT ![lease[t]].lock = t]
    /\ Goto(t, IF pc[t] = "compile" THEN "compiling" ELSE "instantiating")
    /\ UNCHANGED <<entries, older, built, lease, blocked, closed>>

(* The module is found or compiled; or the bytes are no module, and the    *)
(* lock is released on the way out.                                        *)
Compile(t) ==
    /\ pc[t] = "compiling"
    /\ entry' = [entry EXCEPT ![lease[t]].lock = Nobody]
    /\ \E place \in {"compiled", "leaving"} : Goto(t, place)
    /\ UNCHANGED <<entries, older, built, lease, blocked, closed>>

(* Instantiation, which runs the start function of the module, returned and *)
(* the guest runs; or it raised.                                           *)
Instantiate(t) ==
    /\ pc[t] = "instantiating" /\ t \notin blocked
    /\ entry' = [entry EXCEPT ![lease[t]].lock = Nobody]
    /\ \E place \in {"executing", "leaving"} : Goto(t, place)
    /\ UNCHANGED <<entries, older, built, lease, blocked, closed>>

(* The guest returns or traps; only a ticking engine ends one that does not. *)
Finish(t) ==
    /\ pc[t] = "executing" /\ t \notin blocked
    /\ Goto(t, "leaving")
    /\ UNCHANGED <<entries, older, built, entry, lease, blocked, closed>>

(* The guest calls a host function that waits (poll_oneoff, a read): the    *)
(* epoch is looked at when it is back.                                     *)
HostCall(t) ==
    /\ pc[t] \in {"instantiating", "executing"} /\ t \notin blocked
    /\ blocked' = blocked \cup {t}
    /\ UNCHANGED <<entries, older, built, entry, pc, lease, closed>>

HostCallReturns(t) ==
    /\ t \in blocked
    /\ blocked' = blocked \ {t}
    /\ UNCHANGED <<entries, older, built, entry, pc, lease, closed>>

(* close drops every engine, whoever runs on it, and stops the tickers. *)
Close(t) ==
    /\ t \in Closers
    /\ pc[t] = "idle"
    /\ entries # {}
    /\ entries' = {}
    /\ older' = {}
    /\ entry' = [e \in Engines |-> IF Managed(e) THEN Stopped(e) ELSE entry[e]]
    /\ closed' = TRUE
    /\ UNCHANGED <<built, pc, lease, blocked>>

(* No run is under way: the system may stay so. *)
Rest ==
    /\ \A t \in Threads : pc[t] = "idle"
    /\ UNCHANGED vars

Step(t) ==
    \/ LookUp(t)
    \/ Retain(t) \/ Release(t)
    \/ Enter(t) \/ Compile(t) \/ Instantiate(t)
    \/ Finish(t)

Next ==
    \/ \E t \in Threads :
          \/ EngineForHit(t) \/ EngineForMiss(t) \/ Step(t) \/ Close(t)
          \/ HostCall(t) \/ HostCallReturns(t)
    \/ Rest

Spec == Init /\ [][Next]_vars

(***************************************************************************)
(* A thread that compiles goes on, and a guest that goes on executing comes *)
(* to a safepoint, where the epoch deadline ends it as long as the ticker  *)
(* of its engine runs.  Nothing is assumed of a thread waiting for a lock, *)
(* of a guest in a host call, nor of a guest ending by itself.             *)
(***************************************************************************)
DeadlineFires(t) ==
    (Instantiate(t) \/ Finish(t)) /\ entry[lease[t]].ticking

FairSpec ==
    Spec /\ \A t \in Threads : WF_vars(Compile(t)) /\ SF_vars(DeadlineFires(t))

------------------------------------------------------------------------------
Places == {"idle", "given", "counting", "retained", "compile", "compiling", "compiled",
           "instantiate", "instantiating", "executing", "leaving", "release"}

(* Types of the state: the pool, every entry, and the runs. *)
TypeOK ==
    /\ entries \subseteq Engines
    /\ older \subseteq entries \X entries
    /\ built \in Nat
    /\ entry \in [Engines -> Entry]
    /\ pc \in [Threads -> Places]
    /\ closed \in BOOLEAN
    /\ lease \in [Threads -> Nat]
    /\ blocked \subseteq Threads
    /\ \A t \in Threads : pc[t] # "idle" => lease[t] \in Engines

Holding == {"retained", "compile", "compiling", "compiled", "instantiate",
            "instantiating", "executing", "leaving", "release"}

Holders(e) == {t \in Threads : pc[t] \in Holding /\ lease[t] = e}

(***************************************************************************)
(* refcount tracks the live runs (engine_pool.py:75-79): no lease is       *)
(* counted twice, leaked, or given back by another run.                    *)
(***************************************************************************)
RefcountTracksRuns ==
    \A e \in Engines : Managed(e) => entry[e].refcount = Cardinality(Holders(e))

(***************************************************************************)
(* Until the pool is closed, a guest executes on a managed engine whose    *)
(* ticker runs: otherwise its epoch deadline never comes, and nothing ends *)
(* it (engine_pool.py:75-77, 207-209).                                     *)
(***************************************************************************)
RunningEnginesTick ==
    ~closed => \A t \in Threads :
        pc[t] \in {"instantiate", "instantiating", "executing"} =>
            /\ Managed(lease[t])
            /\ entry[lease[t]].ticking

(***************************************************************************)
(* Nobody else touches the modules of an engine while one of them is       *)
(* compiled or instantiated: wasmtime modules are not thread-safe          *)
(* (engine_pool.py:9-11, 262-267).                                         *)
(***************************************************************************)
ModulesSerialized ==
    \A t, u \in Threads :
        /\ t # u
        /\ pc[t] \in {"compiling", "instantiating"}
        /\ pc[u] \in {"compiling", "instantiating"}
        => lease[t] # lease[u]

(* Who compiles or instantiates holds the lock of its engine. *)
LocksHeld ==
    \A t \in Threads :
        pc[t] \in {"compiling", "instantiating"} => entry[lease[t]].lock = t

(* A ticker stops only when its engine leaves the pool. *)
PooledEnginesTick == \A e \in entries : entry[e].ticking

(* The order of use is an order: no engine was asked for before itself. *)
UseIsOrdered ==
    /\ \A e \in entries : <<e, e>> \notin older
    /\ \A c, d, e \in entries :
          <<c, d>> \in older /\ <<d, e>> \in older => <<c, e>> \in older

(***************************************************************************)
(* Types, and what the leases rest on: counts that track the runs, and     *)
(* modules touched by one run at a time, with what makes that inductive.   *)
(***************************************************************************)
PoolInv ==
    /\ TypeOK
    /\ RefcountTracksRuns
    /\ ModulesSerialized
    /\ LocksHeld
    /\ PooledEnginesTick
    /\ UseIsOrdered

(***************************************************************************)
(* The pool holds more than max_engines only when all the engines it keeps *)
(* beside the new one are live, and returns below the limit afterwards     *)
(* (engine_pool.py:170-180).                                               *)
(***************************************************************************)
GrowsOnlyWhenLive ==
    [][built' > built /\ Cardinality(entries') > MaxEngines
         => \A e \in entries' \ {built'} : Live(e)]_vars

(* "an entry with refcount > 0 is never evicted" (engine_pool.py:79).      *)
LiveEntriesKept == \A e \in Engines : Live(e) => Managed(e)

(***************************************************************************)
(* Every guest ends, by itself or at its deadline, unless the pool is      *)
(* closed meanwhile or the guest stays in a host call for good; and with   *)
(* it the lock of its engine is given back, which is held while a start    *)
(* function runs (engine_pool.py:73-77, 262-271).                          *)
(***************************************************************************)
GuestsEnd ==
    \A t \in Threads :
        pc[t] \in {"compiling", "instantiating", "executing"}
            ~> pc[t] \in {"compiled", "leaving"} \/ closed \/ [](t \in blocked)
===============================================================================
