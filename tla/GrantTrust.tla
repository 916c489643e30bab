------------------------------- MODULE GrantTrust -------------------------------
(***************************************************************************)
(* Where a server's egress authority comes from: the trust root the        *)
(* operator keeps, the grant files signed under its keys, and the start of *)
(* a server that reads the root, lists the directory and verifies one file *)
(* after the other, each at its own instant, and serves all of them or     *)
(* does not start (grant_trust.py, load_egress_grants, __main__.py).       *)
(* Operators go on working while a server starts: keys rotate, grants are  *)
(* issued, edited, copied and removed, and time passes.                    *)
(*                                                                         *)
(* A grant document is a record:                                           *)
(*   form "grant", tool, until (not_after, NoBound for none), id (the      *)
(*   key_id it names), fit (its bounds and cap can be read), extra (it has *)
(*   fields a grant has not)                                               *)
(* A trust root is a record:                                               *)
(*   readable (a regular file holding the right schema), audience, inside  *)
(*   (it lies in the grants directory), keys: a sequence of entries with   *)
(*   id, key, alg, status, from, until, next (replaced_by), and fine (the  *)
(*   fields are known, the status is, the material and bounds parse)       *)
(***************************************************************************)
EXTENDS Naturals, Sequences, FiniteSets, Envelopes

CONSTANTS
    Keys,       \* private keys of operators
    KeyIds,     \* the names they have in roots, grants and envelopes
    Tools,
    Docs,       \* grant documents operators write
    RootDocs,   \* the trust roots the operator puts in place
    FirstRoot,  \* the one there at the start
    FirstDoc,   \* the grant there at the start: document, key and its name
    NoBound,    \* no not_after
    NoFile,     \* no file of that name
    NoRoot,     \* no root has been read
    Junk,       \* anything that is not an envelope: a link, a legacy document
    NFiles,     \* names in the grants directory, in the order of sorted()
    MaxTime,    \* bound: ticks of the clock
    MaxActs     \* bound: acts of operators, hosts and callers

ASSUME TrustAssumption ==
    /\ FirstRoot \in RootDocs /\ NoRoot \notin RootDocs
    /\ NFiles \in Nat /\ MaxTime \in Nat /\ MaxActs \in Nat

\* The grant documents there can be.
Grants == [form : {"grant"}, tool : Tools, until : Nat \cup {NoBound},
           id : KeyIds \cup {NoId}, fit : BOOLEAN, extra : BOOLEAN]

ASSUME DocAssumption ==
    /\ Docs \subseteq Grants
    /\ FirstDoc \in [doc : Docs, key : Keys, id : KeyIds]

Files == 1..NFiles

VARIABLES
    clock,
    acts,       \* acts so far
    root,       \* the trust root on disk
    dir,        \* what each name of the grants directory holds
    pc,         \* "down", "scan", "files" or "up"
    pinned,     \* the trust root this server has read, NoRoot when none runs
    listed,     \* the names the scan found
    todo,       \* those not read yet
    found,      \* the grants read: [file, doc, at], in force when pc is "up"
    failed,     \* some file was refused
    signed      \* history: the signatures made by holders of keys

operator == <<root, dir>>
loader == <<pc, pinned, listed, todo, found, failed>>
trustVars == <<clock, acts, operator, loader, signed>>

Issued_AsWritten(doc, key, id) ==       \* mutant: key_id is not written
    DsseSign(key, GrantAudience, doc, "EdDSA", id)

\* sign_grant_document: it refuses a document that names another key, and
\* writes the name of the signing key into one that names none.
Issued(doc, key, id) ==
    DsseSign(key, GrantAudience, [doc EXCEPT !.id = id], "EdDSA", id)

SignaturesOf(e) == {s.sig : s \in e.sigs}

FirstGrant == Issued(FirstDoc.doc, FirstDoc.key, FirstDoc.id)

TrustInit ==
    /\ clock = 0 /\ acts = 0
    /\ root = FirstRoot
    /\ dir = [f \in Files |-> IF f = 1 THEN FirstGrant ELSE NoFile]
    /\ pc = "down" /\ pinned = NoRoot
    /\ listed = {} /\ todo = {} /\ found = {} /\ failed = FALSE
    /\ signed = SignaturesOf(FirstGrant)

--------------------------------------------------------------------------------
(* The trust root *)

Entries(r) == {r.keys[i] : i \in DOMAIN r.keys}
Ids(r) == {k.id : k \in Entries(r)}

WindowOpen_UntilIncluded(k, now) ==     \* mutant: not_after is inclusive
    /\ k.from <= now
    /\ k.until # NoBound => now <= k.until

\* The bounds of a key: it opens at from, and until is exclusive.
WindowOpen(k, now) ==
    /\ k.from <= now
    /\ k.until # NoBound => now < k.until

KeyLoads(k) == k.fine /\ k.alg = "EdDSA"

RootLoads(r) ==
    /\ r.readable
    /\ r.audience = GrantAudience
    /\ r.keys # <<>>
    /\ \A k \in Entries(r) : KeyLoads(k)
    /\ \A i, j \in DOMAIN r.keys : r.keys[i].id = r.keys[j].id => i = j
    /\ \A k \in Entries(r) : k.next \in (Ids(r) \cup {NoId}) \ {k.id}

--------------------------------------------------------------------------------
(* Verifying one file: every signature listed holds, each under the key its
   own keyid names, before a byte of the payload is read. *)

KeyNamed(r, id) == {k \in Entries(r) : k.id = id}

VerifiesUnder(k, s, e) == s.sig = Signature(k.key, e.type, e.payload)

SignatureHolds(r, e, s, now) ==
    \E k \in KeyNamed(r, s.keyid) :
        /\ k.status # "retired"
        /\ s.alg = k.alg
        /\ WindowOpen(k, now)
        /\ VerifiesUnder(k, s, e)

\* _grant_from_payload: the payload is the canonical form of a grant whose
\* window and cap can be read.
IsGrant(doc) == doc.form = "grant" /\ ~doc.extra /\ doc.fit

Expired(doc, now) == doc.until # NoBound /\ now >= doc.until

VerifyEnvelope(r, e, now) ==
    /\ e.type = r.audience /\ e.exact
    /\ e.sigs # {}
    /\ \A s \in e.sigs : SignatureHolds(r, e, s, now)
    /\ IsGrant(e.payload)
    /\ e.payload.id \in {s.keyid : s \in e.sigs}
    /\ ~Expired(e.payload, now)

--------------------------------------------------------------------------------
(* The operators *)

Act == acts < MaxActs /\ acts' = acts + 1

Tick ==
    /\ clock < MaxTime /\ clock' = clock + 1
    /\ UNCHANGED <<acts, operator, loader, signed>>

Put(f, e) ==
    /\ dir' = [dir EXCEPT ![f] = e]
    /\ signed' = signed \cup SignaturesOf(e)
    /\ UNCHANGED <<clock, root, loader>>

\* The operator's command: fields a grant has not are dropped on the way.
Issue ==
    /\ Act
    /\ \E f \in Files, d \in Docs, k \in Keys, id \in KeyIds :
         /\ d.id \in {NoId, id}
         /\ Put(f, Issued([d EXCEPT !.extra = FALSE], k, id))

\* A script of the operator's own, which signs documents as they are.
SignByHand ==
    /\ Act
    /\ \E f \in Files, d \in Docs, k \in Keys, id \in KeyIds :
         /\ d.extra
         /\ Put(f, DsseSign(k, GrantAudience, d, "EdDSA", id))

Envelopes(fs) == {dir[f] : f \in fs} \ {NoFile, Junk}

\* What editing an envelope by hand, or merging two, can make of it.
Altered(e, others) ==
    {[e EXCEPT !.payload = d] : d \in Docs} \cup
    {[e EXCEPT !.type = t] : t \in PayloadTypes} \cup
    {[e EXCEPT !.exact = FALSE], [e EXCEPT !.sigs = {}]} \cup
    {[e EXCEPT !.sigs = {[s EXCEPT !.keyid = id] : s \in @}] : id \in KeyIds} \cup
    {[e EXCEPT !.sigs = {[s EXCEPT !.alg = "absent"] : s \in @}]} \cup
    {[e EXCEPT !.sigs = @ \cup g.sigs] : g \in others}

Edit ==
    /\ Act
    /\ \E f \in Files :
         /\ dir[f] \notin {NoFile, Junk}
         /\ \E e \in Altered(dir[f], Envelopes(Files)) : dir' = [dir EXCEPT ![f] = e]
    /\ UNCHANGED <<clock, root, loader, signed>>

\* A file is removed, or something that is no envelope takes its place.
Discard ==
    /\ Act
    /\ \E f \in Files, other \in {NoFile, Junk} : dir' = [dir EXCEPT ![f] = other]
    /\ UNCHANGED <<clock, root, loader, signed>>

EditRoot ==
    /\ Act
    /\ \E r \in RootDocs : root' = r
    /\ UNCHANGED <<clock, dir, loader, signed>>

--------------------------------------------------------------------------------
(* A server starts *)

\* The process ends, whether it refuses to start, is stopped or dies.
Exit ==
    /\ pc' = "down" /\ pinned' = NoRoot
    /\ listed' = {} /\ todo' = {} /\ found' = {} /\ failed' = FALSE
    /\ UNCHANGED <<clock, acts, operator, signed>>

\* GrantTrustRoot.load, and the place of the root; otherwise it exits at once.
Start ==
    /\ pc = "down" /\ RootLoads(root) /\ ~root.inside
    /\ pinned' = root /\ pc' = "scan"
    /\ UNCHANGED <<clock, acts, operator, listed, todo, found, failed, signed>>

Scan ==
    /\ pc = "scan" /\ pc' = "files"
    /\ listed' = {f \in Files : dir[f] # NoFile} /\ todo' = listed'
    /\ failed' = (listed' = {})
    /\ UNCHANGED <<clock, acts, operator, pinned, found, signed>>

IsNext(f) == f \in todo /\ \A g \in todo : f <= g

Accepts_LastWins(f) ==                  \* mutant: a second grant replaces the first
    /\ dir[f] \notin {NoFile, Junk}
    /\ VerifyEnvelope(pinned, dir[f], clock)

\* The file still verifies when its turn comes, and is the tool's only grant.
Accepts(f) ==
    /\ dir[f] \notin {NoFile, Junk}
    /\ VerifyEnvelope(pinned, dir[f], clock)
    /\ \A g \in found : g.doc.tool # dir[f].payload.tool

ReadFile ==
    /\ pc = "files"
    /\ \E f \in Files :
         /\ IsNext(f) /\ todo' = todo \ {f}
         /\ \/ /\ Accepts(f)
               /\ found' = found \cup
                     {[file |-> f, doc |-> dir[f].payload, at |-> clock]}
               /\ UNCHANGED failed
            \/ /\ ~Accepts(f) /\ failed' = TRUE
               /\ UNCHANGED found
    /\ UNCHANGED <<clock, acts, operator, pc, pinned, listed, signed>>

Loaded == pc = "files" /\ todo = {}

\* All grants are in force, or none is; the ledger they need may be unreadable.
Serve ==
    /\ Loaded /\ ~failed /\ pc' = "up"
    /\ UNCHANGED <<clock, acts, operator, pinned, listed, todo, found, failed, signed>>

ServeRefused == Loaded /\ Exit

Stop == pc # "down" /\ Exit

OperatorNext == Issue \/ SignByHand \/ Edit \/ Discard \/ EditRoot
LoaderNext == Start \/ Scan \/ ReadFile \/ Serve \/ ServeRefused \/ Stop
TrustNext == Tick \/ OperatorNext \/ LoaderNext
================================================================================
