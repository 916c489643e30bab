------------------------------ MODULE AppendLog ------------------------------
(***************************************************************************)
(* The shared append-only line log (ephemora_cell/_appendlog.py): one file *)
(* of lines, an exclusive flock, and one os.write per record.  The grant   *)
(* book, the tenant book and the ledger chain are all written through it.  *)
(*                                                                         *)
(* A line is whatever the book that extends this module writes, or Damaged *)
(* when its bytes no longer parse.  cut says that the last line has no     *)
(* line break yet, so that the next record written is glued to it.         *)
(***************************************************************************)
EXTENDS Naturals, Sequences

CONSTANTS
    Writers,    \* the threads and processes that write the log
    NoWriter,   \* the lock is free
    Damaged,    \* a line that is not JSON
    Faults      \* the faults of the host this instance admits

(* os.write stores only a prefix (its result is not looked at); it raises  *)
(* having stored nothing; fsync raises after the write; a process dies.    *)
AllFaults == {"short_write", "write_error", "fsync_error", "crash"}

ASSUME LogAssumption ==
    /\ NoWriter \notin Writers
    /\ Faults \subseteq AllFaults

VARIABLES
    file,       \* the lines of the log, in order
    cut,        \* the last line is not terminated
    holder      \* who holds the exclusive lock, or NoWriter

logVars == <<file, cut, holder>>

LogInit ==
    /\ file = <<>>
    /\ cut = FALSE
    /\ holder = NoWriter

Intact(f) == \A i \in DOMAIN f : f[i] # Damaged

(***************************************************************************)
(* The file after bytes amounting to one piece are written at its end.     *)
(***************************************************************************)
Landed_AtOffsetZero(f, isCut, piece) ==  \* mutant: opened without O_APPEND
    IF f = <<>> THEN <<piece>> ELSE [f EXCEPT ![1] = piece]

Landed(f, isCut, piece) ==
    IF isCut THEN [f EXCEPT ![Len(f)] = Damaged] ELSE Append(f, piece)

LandWhole(line) ==
    /\ file' = Landed(file, cut, line)
    /\ cut' = FALSE

LandWithoutBreak(line) ==
    /\ file' = Landed(file, cut, line)
    /\ cut' = TRUE

LandPrefix ==
    /\ file' = Landed(file, cut, Damaged)
    /\ cut' = TRUE

LandNothing == UNCHANGED <<file, cut>>

(***************************************************************************)
(* What a writer that dies between its decision and the end of os.write    *)
(* may leave behind.                                                       *)
(***************************************************************************)
LandUntilDeath(line) ==
    \/ LandNothing
    \/ LandPrefix
    \/ LandWithoutBreak(line)
    \/ LandWhole(line)

(***************************************************************************)
(* os.write then os.fsync under the lock.  WriteReturns: neither raises.   *)
(* WriteRaises: one of them does, and decide_and_append lets it through.   *)
(***************************************************************************)
WriteReturns(line) ==
    \/ LandWhole(line)
    \/ /\ "short_write" \in Faults
       /\ LandPrefix \/ LandWithoutBreak(line)

WriteRaises(line) ==
    \/ /\ "write_error" \in Faults
       /\ LandNothing
    \/ /\ "fsync_error" \in Faults
       /\ LandWhole(line)

(***************************************************************************)
(* flock(LOCK_EX), and its release by flock(LOCK_UN), by close, or by the  *)
(* kernel when the process that holds it dies.                             *)
(***************************************************************************)
LockFree_Ignored(w) == TRUE             \* mutant: no flock before the tail read

LockFree(w) == holder = NoWriter

Lock(w) ==
    /\ LockFree(w)
    /\ holder' = w

Unlocked(w) == IF holder = w THEN NoWriter ELSE holder

Unlock_OnReturnOnly(w) == holder' = holder  \* mutant: the finally branch is gone

UnlockOnRaise(w) == holder' = Unlocked(w)

Unlock(w) == holder' = Unlocked(w)
===============================================================================
