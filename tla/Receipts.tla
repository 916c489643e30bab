-------------------------------- MODULE Receipts --------------------------------
(***************************************************************************)
(* Signed evidence of runs beside the authority for them.  A server that   *)
(* is up answers calls with a receipt, a DSSE envelope over its execution  *)
(* report; a host of the library signs a record before a run and links the *)
(* receipt of the run to it; callers verify what they are shown.  The keys *)
(* are those of GrantTrust: one key may sign grants and receipts, and what *)
(* is shown or put in the grants directory may be any envelope there is.   *)
(*                                                                         *)
(* The report of a run is a record: form "run", n (its report_id), tool,   *)
(* issued (issued_at), link (its back_link, or NoLink).                    *)
(* A record before a run: form "pre", id (chosen by the host), module.     *)
(***************************************************************************)
EXTENDS GrantTrust

CONSTANTS
    ReceiptKey,     \* the key of the host, perhaps one of an operator
    ReceiptId,      \* the name the server puts beside its signatures
    NoLink,
    RecordIds,      \* ids hosts give to their pre-execution records
    Modules,        \* digests of modules
    MaxAge,         \* max_age_seconds of callers, in ticks
    Skew,           \* _ISSUED_AT_FUTURE_SKEW_SECONDS, in ticks
    Drift           \* how far a caller's clock may be off

ASSUME ReceiptAssumption ==
    /\ ReceiptKey \in Keys
    /\ MaxAge \in Nat /\ Skew \in Nat /\ Drift \in Nat

VARIABLES
    runs,       \* history: the reports of the runs servers made
    receipts,   \* the envelopes of the host: of their reports, or of records
    pres,       \* the native pre-execution records it signed
    linked,     \* the signed native receipts
    attested    \* history: which run was made for which record: [pre, run]

evidence == <<runs, receipts, pres, linked, attested>>
vars == <<trustVars, evidence>>

Init ==
    /\ TrustInit
    /\ runs = {} /\ receipts = {}
    /\ pres = {} /\ linked = {} /\ attested = {}

--------------------------------------------------------------------------------
(* Receipts of the server *)

Report(tool, link) ==
    [form |-> "run", n |-> Cardinality(runs) + 1, tool |-> tool,
     issued |-> clock, link |-> link]

\* to_dsse of a report and of a pre-execution record.
Enveloped(type, doc) == DsseSign(ReceiptKey, type, doc, "EdDSA", ReceiptId)
Receipt(doc) == Enveloped(ReportType, doc)

\* A tool runs; the evidence is in the report before it is signed.
Call ==
    /\ Act /\ pc = "up"
    /\ \E t \in Tools :
         LET doc == Report(t, NoLink) IN
         /\ runs' = runs \cup {doc}
         /\ receipts' = receipts \cup {Receipt(doc)}
         /\ signed' = signed \cup SignaturesOf(Receipt(doc))
    /\ UNCHANGED <<clock, operator, loader, pres, linked, attested>>

\* The report has no canonical form (an integer beyond 2^53 - 1): the call is
\* answered with an error, and its run has no receipt.
CallWithoutReceipt ==
    /\ Act /\ pc = "up"
    /\ \E t \in Tools : runs' = runs \cup {Report(t, NoLink)}
    /\ UNCHANGED <<clock, operator, loader, signed, receipts, pres, linked,
                   attested>>

\* A receipt lands in the grants directory.
CopyReceipt ==
    /\ Act
    /\ \E f \in Files, e \in receipts : dir' = [dir EXCEPT ![f] = e]
    /\ UNCHANGED <<clock, root, loader, signed, evidence>>

\* _issued_at_is_fresh, on the caller's clock: only a report carries a stamp.
IsFresh(doc, now) ==
    /\ doc.form = "run"
    /\ doc.issued <= now + Skew
    /\ now <= doc.issued + MaxAge

AllEnvelopes == receipts \cup Envelopes(Files)

\* What a caller may be shown: the report of a run, perhaps edited, or the
\* payload of any other envelope.
Shown ==
    runs \cup {[d EXCEPT !.tool = t] : d \in runs, t \in Tools}
         \cup {[d EXCEPT !.issued = clock] : d \in runs}
         \cup {e.payload : e \in AllEnvelopes}

Presented == AllEnvelopes \cup UNION {Altered(e, AllEnvelopes) : e \in AllEnvelopes}

\* A caller that sets max_age_seconds reads its own clock, which may be off.
CallerAccepts(e, doc, type, aged) ==
    /\ VerifyAttestation(e, ReceiptKey, doc, type)
    /\ aged => \E d \in 0..(2 * Drift) :
                  clock + d >= Drift /\ IsFresh(doc, clock + d - Drift)

--------------------------------------------------------------------------------
(* Records signed before a run *)

\* PreExecutionRecord.build and sign: the host chooses the id.
Attest ==
    /\ Act
    /\ \E id \in RecordIds, m \in Modules :
         LET p == Sign(ReceiptKey, [form |-> "pre", id |-> id, module |-> m], "EdDSA") IN
         /\ pres' = pres \cup {p}
         /\ signed' = signed \cup {p.sig}
    /\ UNCHANGED <<clock, operator, loader, runs, receipts, linked, attested>>

\* PreExecutionRecord.to_dsse: the record goes into an envelope instead.
AttestEnveloped ==
    /\ Act
    /\ \E id \in RecordIds, m \in Modules :
         LET e == Enveloped(PreExecType, [form |-> "pre", id |-> id, module |-> m]) IN
         /\ receipts' = receipts \cup {e}
         /\ signed' = signed \cup SignaturesOf(e)
    /\ UNCHANGED <<clock, operator, loader, runs, pres, linked, attested>>

\* The run is made, its report linked to the record and signed.
LinkTo(p) == [id |-> p.doc.id, digest |-> Digest(p)]

RunAttested ==
    /\ Act
    /\ \E p \in pres, t \in Tools :
         LET doc == Report(t, LinkTo(p))
             r == Sign(ReceiptKey, doc, "EdDSA") IN
         /\ runs' = runs \cup {doc}
         /\ linked' = linked \cup {r}
         /\ attested' = attested \cup {[pre |-> Digest(p), run |-> doc]}
         /\ signed' = signed \cup {r.sig}
    /\ UNCHANGED <<clock, operator, loader, receipts, pres>>

\* Records as a caller may be shown them: as signed, or edited.
ShownPres ==
    pres \cup {[p EXCEPT !.doc.module = m] : p \in pres, m \in Modules}
         \cup {[p EXCEPT !.alg = "ES256"] : p \in pres}

ShownLinked ==
    linked \cup {[r EXCEPT !.doc.link = LinkTo(p)] : r \in linked, p \in ShownPres}

--------------------------------------------------------------------------------
EvidenceNext ==
    \/ Call \/ CallWithoutReceipt \/ CopyReceipt
    \/ Attest \/ AttestEnveloped \/ RunAttested

Next == (TrustNext /\ UNCHANGED evidence) \/ EvidenceNext

Spec == Init /\ [][Next]_vars

--------------------------------------------------------------------------------
(* Properties *)

PreDocs == [form : {"pre"}, id : RecordIds, module : Modules]

\* Reports of runs, linked to a record or to none.
RunDocs ==
    [form : {"run"}, n : Nat, tool : Tools, issued : Nat,
     link : {NoLink} \cup [id : RecordIds, digest : PreDocs \X {"EdDSA"}]]

\* Envelopes, native records: nobody has a signature its key did not make.
SignedEnvelopes ==
    [type : PayloadTypes, payload : Grants \cup runs \cup PreDocs, exact : BOOLEAN,
     sigs : SUBSET [keyid : KeyIds \cup {ReceiptId}, alg : {"EdDSA", "absent"},
                    sig : signed]]

SignedRecords(docs) == [doc : docs, alg : {"EdDSA"}, sig : signed]

TypeOK ==
    /\ clock \in 0..MaxTime /\ acts \in 0..MaxActs
    /\ root \in RootDocs
    /\ dir \in [Files -> SignedEnvelopes \cup {NoFile, Junk}]
    /\ pc \in {"down", "scan", "files", "up"} /\ failed \in BOOLEAN
    /\ runs \subseteq RunDocs /\ IsFiniteSet(runs)
    /\ receipts \subseteq SignedEnvelopes
    /\ pres \subseteq SignedRecords(PreDocs)
    /\ linked \subseteq SignedRecords(runs)

\* A grant in force is a document that a key of the root signed as it stands
\* and as a grant; the document names that key, and when the file was read the
\* key was not retired, its window was open and the grant had not expired.
VerifiedWhenRead(g) ==
    /\ g.doc.form = "grant"
    /\ g.at \in 0..clock
    /\ g.doc.until # NoBound => g.at < g.doc.until
    /\ \E k \in Entries(pinned) :
         /\ k.id = g.doc.id
         /\ k.status # "retired"
         /\ k.from <= g.at /\ (k.until # NoBound => g.at < k.until)
         /\ [by |-> k.key, over |-> <<GrantAudience, g.doc>>] \in signed

\* A server in service enforces only such grants (verify_envelope,
\* load_egress_grants).
ServedGrantsWereSigned == pc = "up" => \A g \in found : VerifiedWhenRead(g)

Loading == pc \in {"files", "up"}
FilesFound == {g.file : g \in found}

\* All or nothing: a server in service has read at least one file, enforces a
\* grant from every name its scan found, and one grant per tool
\* (load_egress_grants, __main__.py: "none enforced").
AllOrNothing ==
    /\ pc = "up" => /\ listed # {}
                    /\ FilesFound = listed
                    /\ \A g, h \in found : g.doc.tool = h.doc.tool => g = h
    /\ pc = "down" => found = {}

\* The load on its way: what was read so far, under a root that loads.
LoadProgress ==
    /\ pc = "down" <=> pinned = NoRoot
    /\ pc # "down" => pinned \in RootDocs /\ RootLoads(pinned)
    /\ ~Loading => listed = {} /\ todo = {} /\ found = {} /\ ~failed
    /\ todo \subseteq listed /\ listed \subseteq Files
    /\ FilesFound \subseteq listed \ todo
    /\ Loading /\ ~failed => listed # {} /\ FilesFound = listed \ todo
    /\ pc = "up" => ~failed /\ todo = {}
    /\ \A g, h \in found : g.doc.tool = h.doc.tool => g = h
    /\ \A g \in found : VerifiedWhenRead(g)

\* What the key of the host has signed: as a report, the reports of runs; as an
\* enveloped record, what the host put into an envelope; and as a native record
\* that is a report, those of the runs made for the record they are linked to.
SignaturesMean ==
    \A s \in signed : s.by = ReceiptKey =>
      /\ s.over[1] = ReportType => s.over[2] \in runs
      /\ s.over[1] = PreExecType => Enveloped(PreExecType, s.over[2]) \in receipts
      /\ s.over[1] = NativeRecord /\ s.over[2][1].form = "run" =>
           [pre |-> s.over[2][1].link.digest, run |-> s.over[2][1]] \in attested

\* The envelopes of the host hold reports of runs, or records before a run.
HostEnvelopes ==
    \A e \in receipts :
      /\ \/ e.type = ReportType /\ e.payload \in runs
         \/ e.type = PreExecType /\ e.payload \in PreDocs
      /\ e = Enveloped(e.type, e.payload)

\* The inductive invariant of the proofs.
EvidenceInv == TypeOK /\ LoadProgress /\ SignaturesMean /\ HostEnvelopes

\* The state is well formed, nobody has a signature its key did not make,
\* neither in a file nor on a receipt, signatures mean what they were made for,
\* and a start loads all or nothing.
TrustInv == EvidenceInv /\ AllOrNothing

\* What sign_grant_document makes of a document the loader can read is what
\* verify_envelope accepts under the root of this start, as long as the key is
\* in it and neither it nor the grant is out of its window.
IssuedGrantsLoad ==
    pc # "down" => \A d \in Docs, k \in Entries(pinned) :
        (/\ d.fit /\ d.id \in {NoId, k.id}
         /\ k.status # "retired"
         /\ k.from <= clock /\ (k.until # NoBound => clock < k.until)
         /\ (d.until # NoBound => clock < d.until))
        => VerifyEnvelope(pinned, Issued([d EXCEPT !.extra = FALSE], k.key, k.id), clock)

\* A report that a caller accepts beside an envelope, whatever it is shown, is
\* word for word the report of a run that was made, and a pre-execution record
\* one that the host put into an envelope; if the caller set an age, it is the
\* report of a run no older than that and the error of the caller's clock.  What
\* the host enveloped is accepted (verify_execution_attestation,
\* _build_call_result).
AcceptedReceiptsTellTheRun ==
    /\ \A e \in receipts : CallerAccepts(e, e.payload, e.type, FALSE)
    /\ \A e \in Presented, doc \in Shown, type \in PayloadTypes, aged \in BOOLEAN :
          CallerAccepts(e, doc, type, aged)
              => /\ type = ReportType => doc \in runs
                 /\ type = PreExecType => Enveloped(PreExecType, doc) \in receipts
                 /\ aged => doc \in runs /\ clock <= doc.issued + MaxAge + Drift

\* A record and a receipt found chained belong together: the run was made for
\* that very record, id, module and alg alike (verify_chain).
ChainBindsTheRun ==
    \A p \in ShownPres, r \in ShownLinked :
        VerifyChain(p, r, ReceiptKey) => [pre |-> Digest(p), run |-> r.doc] \in attested
================================================================================
