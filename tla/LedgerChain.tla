------------------------------ MODULE LedgerChain ------------------------------
(***************************************************************************)
(* The execution ledger (ephemora_cell/ledger.py): a hash chain over runs. *)
(* Writers append entries through the shared log; each entry takes its     *)
(* position from the last line of the file, inside the lock, and seals the *)
(* entry before it.  Nothing but that last line is read by an append.      *)
(*                                                                         *)
(* SHA-256 is taken to be injective: a digest is the set of what it is the *)
(* digest of, and GENESIS_PREV_HASH is the digest of nothing.              *)
(***************************************************************************)
EXTENDS AppendLog, FiniteSets

CONSTANTS
    Records,        \* pre-exec/receipt pairs, by their two digests
    MaxEntries      \* bound: no append starts once the chain could exceed this

VARIABLES
    stage,          \* where each append stands
    entry,          \* the entry each append builds
    acknowledged    \* history: the entries append returned

chainVars == <<file, cut, holder, stage, entry, acknowledged>>

Genesis == {}

NoEntry == [sequence |-> 0, prev_hash |-> Genesis, record |-> Genesis]

Digest(e) == {e}

(* An entry: the first position, and only that one, seals the genesis.     *)
IsEntry(e) ==
    /\ DOMAIN e = {"sequence", "prev_hash", "record"}
    /\ e.sequence \in Nat
    /\ e.record \in Records
    /\ e.prev_hash = Genesis <=> e.sequence = 0

(* tail_line then json.loads: the last line of the file, when it parses.   *)
TailLine(f) == f[Len(f)]

(* The entry at the next position of the chain that ends in f.             *)
Sealing(f, record) ==
    IF f = <<>>
    THEN [sequence |-> 0, prev_hash |-> Genesis, record |-> record]
    ELSE [sequence |-> TailLine(f).sequence + 1,
          prev_hash |-> Digest(TailLine(f)),
          record |-> record]

(***************************************************************************)
(* chain_break: what the verifier accepts of a list of entries.            *)
(***************************************************************************)
PrevHash(f, i) == IF i = 1 THEN Genesis ELSE Digest(f[i - 1])

ChainHolds_SequenceOnly(f) ==               \* mutant: prev_hash is not compared
    f # <<>> /\ \A i \in DOMAIN f : f[i] # Damaged /\ f[i].sequence = i - 1

ChainHolds(f) ==
    /\ f # <<>>
    /\ \A i \in DOMAIN f :
          /\ f[i] # Damaged
          /\ f[i].sequence = i - 1
          /\ f[i].prev_hash = PrevHash(f, i)

------------------------------------------------------------------------------
ChainInit ==
    /\ LogInit
    /\ stage = [w \in Writers |-> "idle"]
    /\ entry = [w \in Writers |-> NoEntry]
    /\ acknowledged = {}

MoveTo(w, place) == stage' = [stage EXCEPT ![w] = place]

EndAppend(w) ==
    /\ MoveTo(w, "idle")
    /\ entry' = [entry EXCEPT ![w] = NoEntry]

(* append of one run's records is called. *)
StartAppend(w) ==
    /\ stage[w] = "idle"
    /\ Len(file) + Cardinality({v \in Writers : stage[v] # "idle"}) < MaxEntries
    /\ \E record \in Records : entry' = [entry EXCEPT ![w].record = record]
    /\ MoveTo(w, "waiting")
    /\ UNCHANGED <<logVars, acknowledged>>

LockChain(w) ==
    /\ stage[w] = "waiting"
    /\ Lock(w)
    /\ MoveTo(w, "locked")
    /\ UNCHANGED <<file, cut, entry, acknowledged>>

(* decide: the next position is taken from the tail, then the entry signed. *)
DecideEntry(w) ==
    /\ stage[w] = "locked"
    /\ file # <<>> => TailLine(file) # Damaged
    /\ entry' = [entry EXCEPT ![w] = Sealing(file, @.record)]
    /\ MoveTo(w, "decided")
    /\ UNCHANGED <<logVars, acknowledged>>

(* The tail does not parse, or the signer raises: nothing is written.      *)
DecideEntryRaises(w) ==
    /\ stage[w] = "locked"
    /\ UnlockOnRaise(w)
    /\ EndAppend(w)
    /\ UNCHANGED <<file, cut, acknowledged>>

WriteEntry(w) ==
    /\ stage[w] = "decided"
    /\ WriteReturns(entry[w])
    /\ Unlock(w)
    /\ acknowledged' = acknowledged \cup {entry[w]}
    /\ EndAppend(w)

WriteEntryFails(w) ==
    /\ stage[w] = "decided"
    /\ WriteRaises(entry[w])
    /\ UnlockOnRaise(w)
    /\ EndAppend(w)
    /\ UNCHANGED acknowledged

(* The writer's process dies; the kernel drops its lock. *)
DieInAppend(w) ==
    /\ "crash" \in Faults
    /\ stage[w] # "idle"
    /\ IF stage[w] = "decided" THEN LandUntilDeath(entry[w]) ELSE LandNothing
    /\ holder' = Unlocked(w)
    /\ EndAppend(w)
    /\ UNCHANGED acknowledged

(* Nobody is inside append: the system may stay so. *)
ChainRest ==
    /\ \A w \in Writers : stage[w] = "idle"
    /\ UNCHANGED chainVars

AppendSteps(w) ==
    \/ StartAppend(w) \/ LockChain(w)
    \/ DecideEntry(w) \/ DecideEntryRaises(w)
    \/ WriteEntry(w) \/ WriteEntryFails(w)
    \/ DieInAppend(w)

ChainNext == (\E w \in Writers : AppendSteps(w)) \/ ChainRest

ChainSpec == ChainInit /\ [][ChainNext]_chainVars

------------------------------------------------------------------------------
LinesOf(f) == {f[i] : i \in DOMAIN f}

(* Types of the state: lines are entries, whole or damaged; a log that is  *)
(* cut has the line it is cut in; an append at work knows its record.      *)
ChainTypeOK ==
    /\ file \in Seq(LinesOf(file))
    /\ \A i \in DOMAIN file : file[i] = Damaged \/ IsEntry(file[i])
    /\ cut \in BOOLEAN
    /\ cut => file # <<>>
    /\ holder \in Writers \cup {NoWriter}
    /\ stage \in [Writers -> {"idle", "waiting", "locked", "decided"}]
    /\ DOMAIN entry = Writers
    /\ \A w \in Writers :
          /\ DOMAIN entry[w] = DOMAIN NoEntry
          /\ stage[w] # "idle" => entry[w].record \in Records
    /\ \A e \in acknowledged : IsEntry(e)

(***************************************************************************)
(* "if they were split, two writers could both read the same head and both *)
(* claim to be next" (ledger.py:307-310): whatever the interleaving, the   *)
(* chain verifies unless a line was torn.                                  *)
(***************************************************************************)
ChainVerifies == Intact(file) /\ file # <<>> => ChainHolds(file)

Rewritten(f, i, record) == [f EXCEPT ![i].record = record]

(* The chain without entry i, the later entries renumbered. *)
Renumbered(f, i) ==
    [j \in 1..(Len(f) - 1) |->
        IF j < i THEN f[j] ELSE [f[j + 1] EXCEPT !.sequence = j - 1]]

(***************************************************************************)
(* An entry that is rewritten in place, or dropped and the later entries   *)
(* renumbered, breaks the chain unless it was the head ("a reordered,      *)
(* dropped or silently truncated history", ledger.py:8-10; 264-266).       *)
(***************************************************************************)
TamperingShows ==
    Intact(file) =>
        \A i \in 1..(Len(file) - 1) :
            /\ ~ChainHolds(Renumbered(file, i))
            /\ \A record \in Records \ {file[i].record} :
                  ~ChainHolds(Rewritten(file, i, record))

(***************************************************************************)
(* An entry that append returned is in the chain as it was returned, or    *)
(* the ledger does not verify: no record of a run goes missing silently.   *)
(***************************************************************************)
ReturnedEntriesAreChained ==
    Intact(file) => \A e \in acknowledged : \E i \in DOMAIN file : file[i] = e

(***************************************************************************)
(* Between its decision and its write an append holds the lock, and the    *)
(* entry it built is still the next of the chain.                          *)
(***************************************************************************)
DecisionsStand ==
    \A w \in Writers :
      /\ stage[w] \in {"locked", "decided"} => holder = w
      /\ stage[w] = "decided" =>
            /\ file # <<>> => TailLine(file) # Damaged
            /\ entry[w] = Sealing(file, entry[w].record)

(***************************************************************************)
(* Types, and what a reader of the ledger relies on: what the writers      *)
(* produce verifies, and holds every entry that was returned.              *)
(***************************************************************************)
ChainInv ==
    ChainTypeOK /\ DecisionsStand /\ ChainVerifies /\ ReturnedEntriesAreChained
===============================================================================
