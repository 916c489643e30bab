---------------------------- MODULE Receipts_proofs ----------------------------
(***************************************************************************)
(* Proofs about grants, receipts and chained records: whatever operators,  *)
(* servers, hosts and callers do, in whatever order, for any keys, roots,  *)
(* documents and files.  A step does one of two things to the evidence:    *)
(* it adds signatures, or it leaves them alone; the lemmas follow the      *)
(* parts of the inductive invariant TrustInv.                              *)
(***************************************************************************)
EXTENDS Receipts, FiniteSetTheorems, TLAPS

LEMMA GrantEdits ==
    ASSUME NEW d \in Grants, NEW id \in KeyIds
    PROVE  /\ [d EXCEPT !.extra = FALSE] \in Grants
           /\ [d EXCEPT !.id = id] \in Grants
  BY DEF Grants

(* An envelope is typed by what was signed and by the runs there are: both  *)
(* only grow.                                                               *)
LEMMA EnvelopesGrow ==
    ASSUME signed \subseteq signed', runs \subseteq runs'
    PROVE  /\ SignedEnvelopes \subseteq SignedEnvelopes'
           /\ \A D, E : D \subseteq E =>
                SignedRecords(D) \subseteq [doc : E, alg : {"EdDSA"}, sig : signed']
<1>1. SignedEnvelopes \subseteq SignedEnvelopes'
  BY DEF SignedEnvelopes
<1>2. QED
  BY <1>1 DEF SignedRecords

(* What the issuing command and a script of the operator write. *)
LEMMA SignedByOperators ==
    ASSUME NEW d \in Grants, NEW k \in Keys, NEW id \in KeyIds,
           NEW e, e = DsseSign(k, GrantAudience, d, "EdDSA", id),
           signed' = signed \cup SignaturesOf(e), runs' = runs
    PROVE  /\ e \in SignedEnvelopes'
           /\ SignaturesOf(e) = {Signature(k, GrantAudience, d)}
<1>1. SignaturesOf(e) = {Signature(k, GrantAudience, d)}
  BY DEF SignaturesOf, DsseSign
<1>2. /\ e.type = GrantAudience /\ e.payload = d /\ e.exact = TRUE
      /\ e.sigs = {[keyid |-> id, alg |-> "EdDSA", sig |-> Signature(k, GrantAudience, d)]}
      /\ e = [type |-> e.type, payload |-> e.payload, exact |-> e.exact, sigs |-> e.sigs]
  BY DEF DsseSign
<1>3. e.sigs \subseteq [keyid : KeyIds \cup {ReceiptId}, alg : {"EdDSA", "absent"},
                       sig : signed']
  BY <1>1, <1>2
<1>4. e.type \in PayloadTypes
  BY <1>2 DEF PayloadTypes
<1>5. QED
  BY <1>1, <1>2, <1>3, <1>4 DEF SignedEnvelopes

(* Editing and merging envelopes makes no signature. *)
LEMMA AlteredSigned ==
    ASSUME DocAssumption, NEW e \in SignedEnvelopes,
           NEW others \in SUBSET SignedEnvelopes, NEW a \in Altered(e, others)
    PROVE  a \in SignedEnvelopes
<1> USE DEF SignedEnvelopes
<1>1. CASE \E d \in Docs : a = [e EXCEPT !.payload = d]
  BY <1>1 DEF DocAssumption
<1>2. CASE \E t \in {GrantAudience, ReportType} : a = [e EXCEPT !.type = t]
  BY <1>2 DEF PayloadTypes, ReceiptTypes
<1>3. CASE a = [e EXCEPT !.exact = FALSE]
  BY <1>3
<1>4. CASE a = [e EXCEPT !.sigs = {}]
  BY <1>4
<1>5. CASE \E id \in KeyIds :
             a = [e EXCEPT !.sigs = {[s EXCEPT !.keyid = id] : s \in @}]
  BY <1>5
<1>6. CASE a = [e EXCEPT !.sigs = {[s EXCEPT !.alg = "absent"] : s \in @}]
  BY <1>6
<1>7. CASE \E g \in others : a = [e EXCEPT !.sigs = @ \cup g.sigs]
  BY <1>7
<1>8. QED
  BY <1>1, <1>2, <1>3, <1>4, <1>5, <1>6, <1>7 DEF Altered

--------------------------------------------------------------------------------
(***************************************************************************)
(* Types                                                                   *)
(***************************************************************************)

LEMMA FirstGrantSigned ==
    ASSUME DocAssumption, Init
    PROVE  \E d \in Grants, k \in Keys :
             /\ signed = {Signature(k, GrantAudience, d)}
             /\ FirstGrant \in SignedEnvelopes
<1> DEFINE d == [FirstDoc.doc EXCEPT !.id = FirstDoc.id]
<1>1. d \in Grants /\ FirstDoc.key \in Keys /\ FirstDoc.id \in KeyIds
  BY GrantEdits DEF DocAssumption
<1>2. FirstGrant = DsseSign(FirstDoc.key, GrantAudience, d, "EdDSA", FirstDoc.id)
  BY DEF FirstGrant, Issued
<1>3. signed = {Signature(FirstDoc.key, GrantAudience, d)}
  BY <1>2 DEF Init, TrustInit, SignaturesOf, DsseSign
<1>4. /\ FirstGrant.type = GrantAudience /\ FirstGrant.payload = d
      /\ FirstGrant.exact = TRUE
      /\ FirstGrant.sigs = {[keyid |-> FirstDoc.id, alg |-> "EdDSA",
                             sig |-> Signature(FirstDoc.key, GrantAudience, d)]}
      /\ FirstGrant = [type |-> FirstGrant.type, payload |-> FirstGrant.payload,
                       exact |-> FirstGrant.exact, sigs |-> FirstGrant.sigs]
  BY <1>2 DEF DsseSign
<1>5. FirstGrant.sigs \subseteq [keyid : KeyIds \cup {ReceiptId},
                                alg : {"EdDSA", "absent"}, sig : signed]
  BY <1>1, <1>3, <1>4
<1>6. FirstGrant.type \in PayloadTypes
  BY <1>4 DEF PayloadTypes
<1>7. FirstGrant \in SignedEnvelopes
  BY <1>1, <1>4, <1>5, <1>6 DEF SignedEnvelopes
<1>8. QED
  BY <1>1, <1>3, <1>7

LEMMA InitTypes ==
    ASSUME TrustAssumption, DocAssumption, Init
    PROVE  TypeOK
<1>1. FirstGrant \in SignedEnvelopes
  BY FirstGrantSigned
<1>2. dir = [f \in Files |-> IF f = 1 THEN FirstGrant ELSE NoFile]
  BY DEF Init, TrustInit
<1>3. dir \in [Files -> SignedEnvelopes \cup {NoFile, Junk}]
  BY <1>1, <1>2
<1>4. IsFiniteSet(runs)
  BY FS_EmptySet DEF Init
<1>5. clock \in 0..MaxTime /\ acts \in 0..MaxActs
  BY DEF Init, TrustInit, TrustAssumption
<1>6. /\ root \in RootDocs /\ pc = "down" /\ failed = FALSE
      /\ runs = {} /\ receipts = {} /\ pres = {} /\ linked = {}
  BY DEF Init, TrustInit, TrustAssumption
<1>7. QED
  BY <1>3, <1>4, <1>5, <1>6 DEF TypeOK

(* The report of a new run. *)
LEMMA NewReport ==
    ASSUME TypeOK, TrustAssumption, NEW t \in Tools,
           NEW link \in {NoLink} \cup [id : RecordIds, digest : PreDocs \X {"EdDSA"}]
    PROVE  Report(t, link) \in RunDocs
<1>1. Cardinality(runs) \in Nat /\ clock \in Nat
  BY FS_CardinalityType DEF TypeOK, TrustAssumption
<1>2. QED
  BY <1>1 DEF Report, RunDocs

LEMMA RunsGrow ==
    ASSUME TypeOK, NEW doc \in RunDocs, runs' = runs \cup {doc}
    PROVE  runs' \subseteq RunDocs /\ IsFiniteSet(runs')
  BY FS_AddElement DEF TypeOK

(* What the server and the host sign. *)
LEMMA ReceiptSigned ==
    ASSUME NEW doc, doc \in runs' \cup PreDocs, NEW type \in ReceiptTypes,
           signed' = signed \cup SignaturesOf(Enveloped(type, doc))
    PROVE  Enveloped(type, doc) \in SignedEnvelopes'
<1>1. SignaturesOf(Enveloped(type, doc)) = {Signature(ReceiptKey, type, doc)}
  BY DEF SignaturesOf, DsseSign, Enveloped
<1> DEFINE e == Enveloped(type, doc)
<1>2. /\ e.type = type /\ e.payload = doc /\ e.exact = TRUE
      /\ e.sigs = {[keyid |-> ReceiptId, alg |-> "EdDSA",
                    sig |-> Signature(ReceiptKey, type, doc)]}
      /\ e = [type |-> e.type, payload |-> e.payload, exact |-> e.exact, sigs |-> e.sigs]
  BY DEF DsseSign, Enveloped
<1>3. e.sigs \subseteq [keyid : KeyIds \cup {ReceiptId}, alg : {"EdDSA", "absent"},
                       sig : signed']
  BY <1>1, <1>2
<1>4. e.type \in PayloadTypes
  BY <1>2 DEF PayloadTypes
<1>5. QED
  BY <1>1, <1>2, <1>3, <1>4 DEF SignedEnvelopes

(* A step that leaves the evidence alone but for signatures, and puts typed *)
(* envelopes into files.                                                    *)
LEMMA FilesTyped ==
    ASSUME TypeOK, signed \subseteq signed', runs' = runs, receipts' = receipts,
           pres' = pres, linked' = linked,
           clock' \in 0..MaxTime, acts' \in 0..MaxActs, root' \in RootDocs,
           dir' \in [Files -> SignedEnvelopes' \cup {NoFile, Junk}],
           pc' \in {"down", "scan", "files", "up"}, failed' \in BOOLEAN
    PROVE  TypeOK'
<1>1. SignedEnvelopes \subseteq SignedEnvelopes'
  BY EnvelopesGrow
<1>2. \A D : SignedRecords(D) \subseteq [doc : D, alg : {"EdDSA"}, sig : signed']
  BY DEF SignedRecords
<1>3. pres' \subseteq [doc : PreDocs, alg : {"EdDSA"}, sig : signed']
  BY <1>2 DEF TypeOK
<1>4. linked' \subseteq [doc : runs', alg : {"EdDSA"}, sig : signed']
  BY <1>2 DEF TypeOK
<1>5. QED
  BY <1>1, <1>3, <1>4 DEF TypeOK, SignedRecords

LEMMA EnvelopesOfFiles ==
    ASSUME TypeOK
    PROVE  Envelopes(Files) \subseteq SignedEnvelopes /\ AllEnvelopes \subseteq SignedEnvelopes
  BY DEF TypeOK, Envelopes, AllEnvelopes

(* The bound on acts. *)
LEMMA ActTyped ==
    ASSUME TypeOK, TrustAssumption, Act
    PROVE  acts' \in 0..MaxActs
  BY DEF TypeOK, TrustAssumption, Act

LEMMA OperatorTypes ==
    ASSUME TypeOK, TrustAssumption, DocAssumption, OperatorNext, UNCHANGED evidence
    PROVE  TypeOK'
<1>1. /\ acts' \in 0..MaxActs /\ UNCHANGED <<runs, receipts, pres, linked, pc, failed>>
      /\ clock' = clock
  BY ActTyped DEF OperatorNext, Issue, SignByHand, Edit, Discard, EditRoot, Put, evidence, loader
<1>2. CASE /\ signed \subseteq signed' /\ root' \in RootDocs
           /\ dir' \in [Files -> SignedEnvelopes' \cup {NoFile, Junk}]
  BY <1>1, <1>2, FilesTyped DEF TypeOK
<1>3. ASSUME NEW f \in Files, NEW d \in Grants, NEW k \in Keys, NEW id \in KeyIds,
             Put(f, DsseSign(k, GrantAudience, d, "EdDSA", id))
      PROVE  TypeOK'
  <2> DEFINE e == DsseSign(k, GrantAudience, d, "EdDSA", id)
  <2>1. signed' = signed \cup SignaturesOf(e) /\ dir' = [dir EXCEPT ![f] = e] /\ root' = root
    BY <1>3 DEF Put
  <2>2. e \in SignedEnvelopes'
    BY <1>1, <2>1, SignedByOperators
  <2>3. SignedEnvelopes \subseteq SignedEnvelopes'
    BY <1>1, <2>1, EnvelopesGrow
  <2>4. dir' \in [Files -> SignedEnvelopes' \cup {NoFile, Junk}]
    BY <2>1, <2>2, <2>3 DEF TypeOK
  <2>5. QED
    BY <1>2, <2>1, <2>4 DEF TypeOK
<1>4. CASE Issue
  <2>1. PICK f \in Files, d \in Docs, k \in Keys, id \in KeyIds :
           Put(f, Issued([d EXCEPT !.extra = FALSE], k, id))
    BY <1>4 DEF Issue
  <2> DEFINE g == [[d EXCEPT !.extra = FALSE] EXCEPT !.id = id]
  <2>2. g \in Grants
    BY GrantEdits DEF DocAssumption
  <2>3. Put(f, DsseSign(k, GrantAudience, g, "EdDSA", id))
    BY <2>1 DEF Issued
  <2> HIDE DEF g
  <2>4. QED
    BY <1>3, <2>2, <2>3
<1>5. CASE SignByHand
  BY <1>3, <1>5 DEF SignByHand, DocAssumption
<1>6. CASE Edit
  <2>1. signed' = signed /\ root' = root
    BY <1>6 DEF Edit
  <2>2. PICK f \in Files :
           /\ dir[f] \notin {NoFile, Junk}
           /\ \E e \in Altered(dir[f], Envelopes(Files)) : dir' = [dir EXCEPT ![f] = e]
    BY <1>6 DEF Edit
  <2>3. PICK e \in Altered(dir[f], Envelopes(Files)) : dir' = [dir EXCEPT ![f] = e]
    BY <2>2
  <2>4. dir[f] \in SignedEnvelopes
    BY <2>2 DEF TypeOK
  <2>5. e \in SignedEnvelopes
    BY <2>4, AlteredSigned, EnvelopesOfFiles
  <2>6. SignedEnvelopes \subseteq SignedEnvelopes'
    BY <1>1, <2>1, EnvelopesGrow
  <2>7. dir' \in [Files -> SignedEnvelopes' \cup {NoFile, Junk}]
    BY <2>5, <2>6, <2>3 DEF TypeOK
  <2>8. QED
    BY <1>2, <2>1, <2>7 DEF TypeOK
<1>7. CASE Discard
  <2>1. signed' = signed /\ root' = root
    BY <1>7 DEF Discard
  <2>2. SignedEnvelopes \subseteq SignedEnvelopes'
    BY <1>1, <2>1, EnvelopesGrow
  <2>3. dir' \in [Files -> SignedEnvelopes' \cup {NoFile, Junk}]
    BY <1>7, <2>2 DEF Discard, TypeOK
  <2>4. QED
    BY <1>2, <2>1, <2>3 DEF TypeOK
<1>8. CASE EditRoot
  <2>1. signed' = signed /\ root' \in RootDocs /\ dir' = dir
    BY <1>8 DEF EditRoot
  <2>2. SignedEnvelopes \subseteq SignedEnvelopes'
    BY <1>1, <2>1, EnvelopesGrow
  <2>3. QED
    BY <1>2, <2>1, <2>2 DEF TypeOK
<1>9. QED
  BY <1>4, <1>5, <1>6, <1>7, <1>8 DEF OperatorNext

(* Time, the steps of a starting server, and steps that change nothing. *)
LEMMA LoaderTypes ==
    ASSUME TypeOK, TrustAssumption,
           Tick \/ LoaderNext \/ UNCHANGED trustVars, UNCHANGED evidence
    PROVE  TypeOK'
<1>1. /\ UNCHANGED <<runs, receipts, pres, linked, acts, root, dir, signed>>
      /\ clock' \in 0..MaxTime
  BY DEF Tick, LoaderNext, Start, Scan, ReadFile, Serve, ServeRefused, Stop, Exit,
         trustVars, evidence, operator, loader, TypeOK, TrustAssumption
<1>2. pc' \in {"down", "scan", "files", "up"} /\ failed' \in BOOLEAN
  BY DEF Tick, LoaderNext, Start, Scan, ReadFile, Serve, ServeRefused, Stop, Exit,
         trustVars, loader, TypeOK
<1>3. SignedEnvelopes \subseteq SignedEnvelopes'
  BY <1>1, EnvelopesGrow
<1>4. dir' \in [Files -> SignedEnvelopes' \cup {NoFile, Junk}]
  BY <1>1, <1>3 DEF TypeOK
<1>5. QED
  BY <1>1, <1>2, <1>4, FilesTyped DEF TypeOK

(* The runs, receipts and records of the host. *)
LEMMA EvidenceTypes ==
    ASSUME TypeOK, TrustAssumption, ReceiptAssumption, EvidenceNext
    PROVE  TypeOK'
<1>1. /\ acts' \in 0..MaxActs /\ UNCHANGED <<clock, root, loader>>
      /\ pc' \in {"down", "scan", "files", "up"} /\ failed' \in BOOLEAN
  BY ActTyped DEF EvidenceNext, Call, CallWithoutReceipt, CopyReceipt, Attest,
                  AttestEnveloped, RunAttested, operator, loader, TypeOK
<1>2. ASSUME signed \subseteq signed', runs \subseteq runs',
             runs' \subseteq RunDocs, IsFiniteSet(runs'),
             dir' \in [Files -> SignedEnvelopes \cup {NoFile, Junk}],
             receipts' \subseteq SignedEnvelopes',
             pres' \subseteq [doc : PreDocs, alg : {"EdDSA"}, sig : signed'],
             linked' \subseteq [doc : runs', alg : {"EdDSA"}, sig : signed']
      PROVE  TypeOK'
  <2>1. SignedEnvelopes \subseteq SignedEnvelopes'
    BY <1>2, EnvelopesGrow
  <2>2. dir' \in [Files -> SignedEnvelopes' \cup {NoFile, Junk}]
    BY <1>2, <2>1
  <2>3. pres' \subseteq SignedRecords(PreDocs)' /\ linked' \subseteq SignedRecords(runs)'
    BY <1>2 DEF SignedRecords
  <2>4. clock' \in 0..MaxTime /\ root' \in RootDocs
    BY <1>1 DEF TypeOK
  <2>5. QED
    BY <1>1, <1>2, <2>2, <2>3, <2>4 DEF TypeOK
<1>3. ASSUME signed \subseteq signed', runs \subseteq runs'
      PROVE  /\ receipts \subseteq SignedEnvelopes'
             /\ pres \subseteq [doc : PreDocs, alg : {"EdDSA"}, sig : signed']
             /\ linked \subseteq [doc : runs', alg : {"EdDSA"}, sig : signed']
  BY <1>3, EnvelopesGrow DEF TypeOK, SignedRecords
<1>4. CASE Call
  <2>1. PICK t \in Tools :
           /\ runs' = runs \cup {Report(t, NoLink)}
           /\ receipts' = receipts \cup {Receipt(Report(t, NoLink))}
           /\ signed' = signed \cup SignaturesOf(Receipt(Report(t, NoLink)))
    BY <1>4 DEF Call
  <2> DEFINE doc == Report(t, NoLink)
  <2>2. runs' \subseteq RunDocs /\ IsFiniteSet(runs')
    BY <2>1, NewReport, RunsGrow
  <2>3. Receipt(doc) \in SignedEnvelopes'
    BY <2>1, ReceiptSigned DEF Receipt, ReceiptTypes
  <2>4. UNCHANGED <<dir, pres, linked>>
    BY <1>4 DEF Call, operator
  <2>5. QED
    BY <1>2, <1>3, <2>1, <2>2, <2>3, <2>4 DEF TypeOK
<1>5. CASE CallWithoutReceipt
  <2>1. PICK t \in Tools : runs' = runs \cup {Report(t, NoLink)}
    BY <1>5 DEF CallWithoutReceipt
  <2>2. runs' \subseteq RunDocs /\ IsFiniteSet(runs')
    BY <2>1, NewReport, RunsGrow
  <2>3. UNCHANGED <<dir, signed, receipts, pres, linked>>
    BY <1>5 DEF CallWithoutReceipt, operator
  <2>4. QED
    BY <1>2, <1>3, <2>1, <2>2, <2>3 DEF TypeOK
<1>6. CASE CopyReceipt
  <2>1. UNCHANGED <<signed, runs, receipts, pres, linked>>
    BY <1>6 DEF CopyReceipt, evidence
  <2>2. dir' \in [Files -> SignedEnvelopes \cup {NoFile, Junk}]
    BY <1>6 DEF CopyReceipt, TypeOK
  <2>3. runs' \subseteq RunDocs /\ IsFiniteSet(runs')
    BY <2>1 DEF TypeOK
  <2>4. QED
    BY <1>2, <1>3, <2>1, <2>2, <2>3
<1>7. CASE Attest
  <2>1. PICK id \in RecordIds, m \in Modules :
           LET p == Sign(ReceiptKey, [form |-> "pre", id |-> id, module |-> m], "EdDSA") IN
           pres' = pres \cup {p} /\ signed' = signed \cup {p.sig}
    BY <1>7 DEF Attest
  <2> DEFINE d == [form |-> "pre", id |-> id, module |-> m]
             p == Sign(ReceiptKey, d, "EdDSA")
  <2>2. d \in PreDocs
    BY DEF PreDocs
  <2>3. p = [doc |-> d, alg |-> "EdDSA", sig |-> p.sig]
    BY DEF Sign
  <2>4. UNCHANGED <<dir, runs, receipts, linked>>
    BY <1>7 DEF Attest, operator
  <2> HIDE DEF d
  <2>5. pres' \subseteq [doc : PreDocs, alg : {"EdDSA"}, sig : signed']
    BY <1>3, <2>1, <2>2, <2>3, <2>4 DEF d
  <2>6. QED
    BY <1>2, <1>3, <2>1, <2>4, <2>5 DEF TypeOK
<1>8. CASE RunAttested
  <2>1. PICK p \in pres, t \in Tools :
           LET doc == Report(t, LinkTo(p))
               r == Sign(ReceiptKey, doc, "EdDSA") IN
           /\ runs' = runs \cup {doc}
           /\ linked' = linked \cup {r}
           /\ signed' = signed \cup {r.sig}
    BY <1>8 DEF RunAttested
  <2> DEFINE doc == Report(t, LinkTo(p))
             r == Sign(ReceiptKey, doc, "EdDSA")
  <2>2. LinkTo(p) \in [id : RecordIds, digest : PreDocs \X {"EdDSA"}]
    BY DEF LinkTo, Digest, TypeOK, SignedRecords, PreDocs
  <2>3. runs' \subseteq RunDocs /\ IsFiniteSet(runs')
    BY <2>1, <2>2, NewReport, RunsGrow
  <2>4. r = [doc |-> doc, alg |-> "EdDSA", sig |-> r.sig]
    BY DEF Sign
  <2>5. UNCHANGED <<dir, receipts, pres>>
    BY <1>8 DEF RunAttested, operator
  <2> HIDE DEF doc
  <2>6. linked' \subseteq [doc : runs', alg : {"EdDSA"}, sig : signed']
    BY <1>3, <2>1, <2>4 DEF doc
  <2>7. QED
    BY <1>2, <1>3, <2>1, <2>3, <2>5, <2>6 DEF TypeOK
<1>9. CASE AttestEnveloped
  <2>1. PICK id \in RecordIds, m \in Modules :
           LET e == Enveloped(PreExecType, [form |-> "pre", id |-> id, module |-> m]) IN
           receipts' = receipts \cup {e} /\ signed' = signed \cup SignaturesOf(e)
    BY <1>9 DEF AttestEnveloped
  <2> DEFINE d == [form |-> "pre", id |-> id, module |-> m]
  <2>2. d \in PreDocs
    BY DEF PreDocs
  <2>3. UNCHANGED <<dir, runs, pres, linked>>
    BY <1>9 DEF AttestEnveloped, operator
  <2>4. receipts' = receipts \cup {Enveloped(PreExecType, d)}
        /\ signed' = signed \cup SignaturesOf(Enveloped(PreExecType, d))
    BY <2>1
  <2> HIDE DEF d
  <2>5. Enveloped(PreExecType, d) \in SignedEnvelopes'
    BY <2>2, <2>4, ReceiptSigned DEF ReceiptTypes
  <2>6. QED
    BY <1>2, <1>3, <2>3, <2>4, <2>5 DEF TypeOK
<1>10. QED
  BY <1>4, <1>5, <1>6, <1>7, <1>8, <1>9 DEF EvidenceNext

--------------------------------------------------------------------------------
(***************************************************************************)
(* The load of the grants                                                  *)
(***************************************************************************)

(* What a grant in force was verified against stays true as time passes and *)
(* keys sign more.                                                          *)
LEMMA StaysVerified ==
    ASSUME NEW g, VerifiedWhenRead(g), pinned' = pinned, signed \subseteq signed',
           clock \in Nat, clock' \in Nat, clock <= clock'
    PROVE  VerifiedWhenRead(g)'
<1>1. g.at \in 0..clock'
  BY DEF VerifiedWhenRead
<1>2. Entries(pinned)' = Entries(pinned)
  BY DEF Entries
<1>3. PICK k \in Entries(pinned) :
        /\ k.id = g.doc.id
        /\ k.status # "retired"
        /\ k.from <= g.at /\ (k.until # NoBound => g.at < k.until)
        /\ [by |-> k.key, over |-> <<GrantAudience, g.doc>>] \in signed
  BY DEF VerifiedWhenRead
<1>4. g.doc.form = "grant" /\ (g.doc.until # NoBound => g.at < g.doc.until)
  BY DEF VerifiedWhenRead
<1>5. QED
  BY <1>1, <1>2, <1>3, <1>4 DEF VerifiedWhenRead

LEMMA LoadKept ==
    ASSUME LoadProgress, UNCHANGED loader, signed \subseteq signed',
           clock \in Nat, clock' \in Nat, clock <= clock'
    PROVE  LoadProgress'
<1>1. UNCHANGED <<pc, pinned, listed, todo, found, failed>>
  BY DEF loader
<1>2. \A g \in found : VerifiedWhenRead(g)'
  BY <1>1, StaysVerified DEF LoadProgress
<1>3. QED
  BY <1>1, <1>2 DEF LoadProgress, Loading, FilesFound

(* A file that is accepted holds a document that a key of the pinned root   *)
(* signed as a grant.                                                       *)
LEMMA AcceptedVerified ==
    ASSUME TypeOK, LoadProgress, TrustAssumption, DocAssumption, pc = "files",
           NEW f \in Files, Accepts(f)
    PROVE  VerifiedWhenRead([file |-> f, doc |-> dir[f].payload, at |-> clock])
<1> DEFINE e == dir[f]
           doc == e.payload
<1>1. e \in SignedEnvelopes /\ clock \in Nat
  BY DEF Accepts, TypeOK, TrustAssumption
<1>2. e.type = GrantAudience
  BY DEF Accepts, VerifyEnvelope, LoadProgress, RootLoads
<1>3. doc.form = "grant" /\ ~Expired(doc, clock)
  BY DEF Accepts, VerifyEnvelope, IsGrant
<1>4. doc \in Grants
  BY <1>1, <1>3 DEF SignedEnvelopes, TypeOK, RunDocs, PreDocs
<1>5. doc.until # NoBound => clock < doc.until
  BY <1>1, <1>3, <1>4 DEF Expired, Grants
<1>6. PICK s \in e.sigs : s.keyid = doc.id
  BY DEF Accepts, VerifyEnvelope
<1>7. PICK k \in KeyNamed(pinned, s.keyid) :
        /\ k.status # "retired" /\ WindowOpen(k, clock)
        /\ s.sig = Signature(k.key, e.type, doc)
  BY DEF Accepts, VerifyEnvelope, SignatureHolds, VerifiesUnder
<1>8. s.sig \in signed
  BY <1>1 DEF SignedEnvelopes
<1>9. [by |-> k.key, over |-> <<GrantAudience, doc>>] \in signed
  BY <1>2, <1>7, <1>8 DEF Signature, Pae
<1>10. k \in Entries(pinned) /\ k.id = doc.id
  BY <1>6, <1>7 DEF KeyNamed
<1>11. k.from <= clock /\ (k.until # NoBound => clock < k.until)
  BY <1>7 DEF WindowOpen
<1> DEFINE g == [file |-> f, doc |-> doc, at |-> clock]
<1>12. g.doc = doc /\ g.at = clock /\ clock \in 0..clock
  BY <1>1
<1> HIDE DEF g, doc
<1>13. /\ g.doc.form = "grant" /\ g.at \in 0..clock
       /\ g.doc.until # NoBound => g.at < g.doc.until
  BY <1>3, <1>5, <1>12
<1>14. /\ k.status # "retired" /\ k.id = g.doc.id
       /\ k.from <= g.at /\ (k.until # NoBound => g.at < k.until)
       /\ [by |-> k.key, over |-> <<GrantAudience, g.doc>>] \in signed
  BY <1>7, <1>9, <1>10, <1>11, <1>12
<1>15. VerifiedWhenRead(g)
  BY <1>10, <1>13, <1>14 DEF VerifiedWhenRead
<1>16. QED
  BY <1>15 DEF g, doc

(* A start: nothing is in force before every file was read.                 *)
LEMMA ExitProgress ==
    ASSUME Exit PROVE LoadProgress'
  BY DEF Exit, LoadProgress, Loading, FilesFound

LEMMA StartProgress ==
    ASSUME TypeOK, LoadProgress, TrustAssumption, Start \/ Scan \/ Serve
    PROVE  LoadProgress'
<1>1. CASE Start
  <2>1. /\ pc' = "scan" /\ pinned' = root /\ root \in RootDocs /\ RootLoads(root)
        /\ listed' = {} /\ todo' = {} /\ found' = {} /\ failed' = FALSE
    BY <1>1 DEF Start, LoadProgress, Loading, TypeOK
  <2>2. QED
    BY <2>1 DEF LoadProgress, Loading, FilesFound, TrustAssumption
<1>2. CASE Scan
  <2>1. /\ pc' = "files" /\ pinned' = pinned /\ found' = {}
        /\ todo' = listed' /\ listed' \subseteq Files /\ failed' = (listed' = {})
    BY <1>2 DEF Scan, LoadProgress, Loading
  <2>2. pinned \in RootDocs /\ RootLoads(pinned) /\ pinned # NoRoot
    BY <1>2 DEF Scan, LoadProgress
  <2>3. QED
    BY <2>1, <2>2 DEF LoadProgress, Loading, FilesFound
<1>3. CASE Serve
  <2>1. /\ pc = "files" /\ pc' = "up" /\ ~failed /\ todo = {}
        /\ UNCHANGED <<clock, pinned, listed, todo, found, failed, signed>>
    BY <1>3 DEF Serve, Loaded
  <2>2. \A g \in found : VerifiedWhenRead(g)'
    BY <2>1, StaysVerified DEF LoadProgress, TypeOK, TrustAssumption
  <2>3. QED
    BY <2>1, <2>2 DEF LoadProgress, Loading, FilesFound
<1>4. QED
  BY <1>1, <1>2, <1>3

LEMMA ReadProgress ==
    ASSUME TypeOK, LoadProgress, TrustAssumption, DocAssumption, ReadFile
    PROVE  LoadProgress'
<1>1. PICK f \in Files :
        /\ IsNext(f) /\ todo' = todo \ {f}
        /\ \/ /\ Accepts(f)
              /\ found' = found \cup {[file |-> f, doc |-> dir[f].payload, at |-> clock]}
              /\ failed' = failed
           \/ failed' = TRUE /\ found' = found
  BY DEF ReadFile
<1>2. /\ pc = "files" /\ f \in todo
      /\ UNCHANGED <<clock, pc, pinned, listed, signed>>
  BY <1>1 DEF ReadFile, IsNext
<1>3. clock \in Nat /\ clock' \in Nat /\ clock <= clock'
  BY <1>2 DEF TypeOK, TrustAssumption
<1>4. \A g \in found : VerifiedWhenRead(g)'
  BY <1>2, <1>3, StaysVerified DEF LoadProgress
<1>5. CASE failed' = TRUE /\ found' = found
  BY <1>1, <1>2, <1>4, <1>5 DEF LoadProgress, Loading, FilesFound
<1>6. CASE /\ Accepts(f)
           /\ found' = found \cup {[file |-> f, doc |-> dir[f].payload, at |-> clock]}
           /\ failed' = failed
  <2>1. PICK h : h = [file |-> f, doc |-> dir[f].payload, at |-> clock]
    OBVIOUS
  <2>2. VerifiedWhenRead(h)
    BY <1>2, <1>6, <2>1, AcceptedVerified
  <2>3. VerifiedWhenRead(h)'
    BY <1>2, <1>3, <2>2, StaysVerified
  <2>4. h.file = f /\ \A g \in found : g.doc.tool # h.doc.tool
    BY <1>6, <2>1 DEF Accepts
  <2>5. found' = found \cup {h}
    BY <1>6, <2>1
  <2>6. \A g \in found' : VerifiedWhenRead(g)'
    BY <1>4, <2>3, <2>5
  <2>7. \A g, k \in found' : g.doc.tool = k.doc.tool => g = k
    BY <2>4, <2>5 DEF LoadProgress
  <2>8. {g.file : g \in found'} = {g.file : g \in found} \cup {f}
    BY <2>4, <2>5
  <2>9. {g.file : g \in found'} \subseteq listed' \ todo'
    BY <1>1, <1>2, <2>8 DEF LoadProgress, FilesFound
  <2>10. ~failed' => listed' # {} /\ {g.file : g \in found'} = listed' \ todo'
    BY <1>1, <1>2, <1>6, <2>8 DEF LoadProgress, Loading, FilesFound
  <2>11. QED
    BY <1>1, <1>2, <2>6, <2>7, <2>9, <2>10 DEF LoadProgress, Loading, FilesFound
<1>7. QED
  BY <1>1, <1>5, <1>6

LEMMA LoadStep ==
    ASSUME TypeOK, LoadProgress, TrustAssumption, DocAssumption, [Next]_vars
    PROVE  LoadProgress'
<1>1. clock \in Nat
  BY DEF TypeOK, TrustAssumption
<1>2. CASE LoaderNext
  BY <1>2, ExitProgress, StartProgress, ReadProgress
     DEF LoaderNext, Stop, ServeRefused
<1>3. CASE Tick
  <2>1. UNCHANGED loader /\ signed' = signed /\ clock' = clock + 1
    BY <1>3 DEF Tick
  <2>2. QED
    BY <1>1, <2>1, LoadKept
<1>4. CASE OperatorNext
  <2>1. UNCHANGED loader /\ signed \subseteq signed' /\ clock' = clock
    BY <1>4 DEF OperatorNext, Issue, SignByHand, Edit, Discard, EditRoot, Put
  <2>2. QED
    BY <1>1, <2>1, LoadKept
<1>5. CASE EvidenceNext
  <2>1. UNCHANGED loader /\ signed \subseteq signed' /\ clock' = clock
    BY <1>5 DEF EvidenceNext, Call, CallWithoutReceipt, CopyReceipt, Attest,
                AttestEnveloped, RunAttested
  <2>2. QED
    BY <1>1, <2>1, LoadKept
<1>6. CASE UNCHANGED vars
  <2>1. UNCHANGED loader /\ signed' = signed /\ clock' = clock
    BY <1>6 DEF vars, trustVars
  <2>2. QED
    BY <1>1, <2>1, LoadKept
<1>7. QED
  BY <1>2, <1>3, <1>4, <1>5, <1>6 DEF Next, TrustNext

--------------------------------------------------------------------------------
(***************************************************************************)
(* What signatures mean                                                    *)
(***************************************************************************)

(* Operators sign grants, and a grant is no receipt and no record.          *)
LEMMA OperatorsSign ==
    ASSUME OperatorNext
    PROVE  \A s \in signed' \ signed : s.over[1] = GrantAudience
<1>1. ASSUME NEW f \in Files, NEW k, NEW d, NEW id,
             Put(f, DsseSign(k, GrantAudience, d, "EdDSA", id))
      PROVE  \A s \in signed' \ signed : s.over[1] = GrantAudience
  <2>1. SignaturesOf(DsseSign(k, GrantAudience, d, "EdDSA", id))
          = {Signature(k, GrantAudience, d)}
    BY DEF SignaturesOf, DsseSign
  <2>2. Signature(k, GrantAudience, d).over[1] = GrantAudience
    BY DEF Signature, Pae
  <2>3. QED
    BY <1>1, <2>1, <2>2 DEF Put
<1>2. CASE Issue
  BY <1>1, <1>2 DEF Issue, Issued
<1>3. CASE SignByHand
  BY <1>1, <1>3 DEF SignByHand
<1>4. CASE Edit \/ Discard \/ EditRoot
  BY <1>4 DEF Edit, Discard, EditRoot
<1>5. QED
  BY <1>2, <1>3, <1>4 DEF OperatorNext

(* Signatures made before keep their meaning: runs, envelopes and the       *)
(* records they were made for are never forgotten.                          *)
LEMMA MeaningKept ==
    ASSUME SignaturesMean, runs \subseteq runs', attested \subseteq attested',
           receipts \subseteq receipts',
           \A s \in signed' \ signed : s.by = ReceiptKey =>
             /\ s.over[1] = ReportType => s.over[2] \in runs'
             /\ s.over[1] = PreExecType => Enveloped(PreExecType, s.over[2]) \in receipts'
             /\ s.over[1] = NativeRecord /\ s.over[2][1].form = "run" =>
                  [pre |-> s.over[2][1].link.digest, run |-> s.over[2][1]] \in attested'
    PROVE  SignaturesMean'
  BY DEF SignaturesMean, Enveloped

LEMMA MeaningStep ==
    ASSUME TypeOK, SignaturesMean, [Next]_vars
    PROVE  SignaturesMean'
<1>1. GrantAudience # PreExecType /\ GrantAudience # ReportType
      /\ GrantAudience # NativeRecord /\ ReportType # PreExecType
      /\ ReportType # NativeRecord /\ NativeRecord # PreExecType
  BY DEF GrantAudience, PreExecType, ReportType, NativeRecord
<1>2. CASE OperatorNext /\ UNCHANGED evidence
  <2>1. runs \subseteq runs' /\ attested \subseteq attested' /\ receipts \subseteq receipts'
    BY <1>2 DEF evidence
  <2>2. \A s \in signed' \ signed : s.over[1] = GrantAudience
    BY <1>2, OperatorsSign
  <2>3. QED
    BY <1>1, <2>1, <2>2, MeaningKept
<1>3. ASSUME signed' = signed, runs \subseteq runs', attested' = attested,
             receipts' = receipts
      PROVE  SignaturesMean'
  BY <1>3, MeaningKept
<1>4. CASE /\ Tick \/ LoaderNext \/ UNCHANGED trustVars
           /\ UNCHANGED evidence
  <2>1. signed' = signed
    BY <1>4 DEF Tick, LoaderNext, Start, Scan, ReadFile, Serve, ServeRefused, Stop,
                Exit, trustVars
  <2>2. QED
    BY <1>3, <1>4, <2>1 DEF evidence
<1>5. CASE CallWithoutReceipt \/ CopyReceipt
  BY <1>3, <1>5 DEF CallWithoutReceipt, CopyReceipt, evidence
<1>6. CASE Call
  <2>1. PICK t \in Tools :
           /\ runs' = runs \cup {Report(t, NoLink)}
           /\ signed' = signed \cup SignaturesOf(Receipt(Report(t, NoLink)))
    BY <1>6 DEF Call
  <2>2. attested' = attested /\ receipts \subseteq receipts'
    BY <1>6 DEF Call
  <2>3. PICK doc : doc = Report(t, NoLink)
    OBVIOUS
  <2>4. SignaturesOf(Receipt(doc)) = {Signature(ReceiptKey, ReportType, doc)}
    BY DEF SignaturesOf, DsseSign, Receipt, Enveloped
  <2>5. \A s \in signed' \ signed : s.over[1] = ReportType /\ s.over[2] = doc
    BY <2>1, <2>3, <2>4 DEF Signature, Pae
  <2>6. QED
    BY <1>1, <2>1, <2>2, <2>3, <2>5, MeaningKept
<1>7. CASE Attest
  <2>1. PICK id \in RecordIds, m \in Modules :
           signed' = signed \cup
             {Sign(ReceiptKey, [form |-> "pre", id |-> id, module |-> m], "EdDSA").sig}
    BY <1>7 DEF Attest
  <2>2. UNCHANGED <<runs, receipts, attested>>
    BY <1>7 DEF Attest
  <2>3. \A s \in signed' \ signed :
           s.over[1] = NativeRecord /\ s.over[2][1].form = "pre"
    BY <2>1 DEF Sign, Signature, Pae
  <2>4. QED
    BY <1>1, <2>2, <2>3, MeaningKept
<1>8. CASE RunAttested
  <2>1. PICK p \in pres, t \in Tools :
           /\ runs' = runs \cup {Report(t, LinkTo(p))}
           /\ attested' = attested \cup {[pre |-> Digest(p), run |-> Report(t, LinkTo(p))]}
           /\ signed' = signed \cup {Sign(ReceiptKey, Report(t, LinkTo(p)), "EdDSA").sig}
           /\ receipts' = receipts
    BY <1>8 DEF RunAttested
  <2>2. PICK doc : doc = Report(t, LinkTo(p))
    OBVIOUS
  <2>3. doc.link.digest = Digest(p)
    BY <2>2 DEF Report, LinkTo
  <2>4. \A s \in signed' \ signed : s.over[1] = NativeRecord /\ s.over[2][1] = doc
    BY <2>1, <2>2 DEF Sign, Signature, Pae
  <2>5. QED
    BY <1>1, <2>1, <2>2, <2>3, <2>4, MeaningKept
<1>9. CASE AttestEnveloped
  <2>1. PICK d : /\ receipts' = receipts \cup {Enveloped(PreExecType, d)}
                 /\ signed' = signed \cup SignaturesOf(Enveloped(PreExecType, d))
    BY <1>9 DEF AttestEnveloped
  <2>2. runs' = runs /\ attested' = attested
    BY <1>9 DEF AttestEnveloped
  <2>3. SignaturesOf(Enveloped(PreExecType, d)) = {Signature(ReceiptKey, PreExecType, d)}
    BY DEF SignaturesOf, DsseSign, Enveloped
  <2>4. \A s \in signed' \ signed : s.over[1] = PreExecType /\ s.over[2] = d
    BY <2>1, <2>3 DEF Signature, Pae
  <2>5. QED
    BY <1>1, <2>1, <2>2, <2>4, MeaningKept
<1>10. QED
  BY <1>2, <1>4, <1>5, <1>6, <1>7, <1>8, <1>9 DEF Next, TrustNext, EvidenceNext, vars

(* What the host puts into an envelope is a report or a record. *)
LEMMA EnvelopedAs ==
    ASSUME NEW type, NEW doc
    PROVE  Enveloped(type, doc).type = type /\ Enveloped(type, doc).payload = doc
  BY DEF Enveloped, DsseSign

LEMMA EnvelopesStep ==
    ASSUME HostEnvelopes, [Next]_vars
    PROVE  HostEnvelopes'
<1>1. ASSUME NEW type, NEW doc, runs \subseteq runs',
             receipts' \subseteq receipts \cup {Enveloped(type, doc)},
             \/ type = ReportType /\ doc \in runs'
             \/ type = PreExecType /\ doc \in PreDocs
      PROVE  HostEnvelopes'
  <2>1. \A e \in receipts' :
          /\ \/ e.type = ReportType /\ e.payload \in runs'
             \/ e.type = PreExecType /\ e.payload \in PreDocs
          /\ e = Enveloped(e.type, e.payload)
    BY <1>1, EnvelopedAs DEF HostEnvelopes
  <2>2. QED
    BY <2>1 DEF HostEnvelopes, Enveloped
<1>2. CASE receipts' = receipts /\ runs \subseteq runs'
  BY <1>2 DEF HostEnvelopes, Enveloped
<1>3. CASE Call
  <2>1. PICK t \in Tools :
           /\ runs' = runs \cup {Report(t, NoLink)}
           /\ receipts' = receipts \cup {Enveloped(ReportType, Report(t, NoLink))}
    BY <1>3 DEF Call, Receipt
  <2>2. PICK doc : doc = Report(t, NoLink)
    OBVIOUS
  <2>3. QED
    BY <1>1, <2>1, <2>2
<1>4. CASE AttestEnveloped
  <2>1. PICK id \in RecordIds, m \in Modules :
           receipts' = receipts \cup
             {Enveloped(PreExecType, [form |-> "pre", id |-> id, module |-> m])}
    BY <1>4 DEF AttestEnveloped
  <2>2. PICK d : d = [form |-> "pre", id |-> id, module |-> m]
    OBVIOUS
  <2>3. d \in PreDocs /\ runs' = runs
    BY <1>4, <2>2 DEF PreDocs, AttestEnveloped
  <2>4. QED
    BY <1>1, <2>1, <2>2, <2>3
<1>5. CASE CallWithoutReceipt \/ CopyReceipt \/ Attest \/ RunAttested
  BY <1>2, <1>5 DEF CallWithoutReceipt, CopyReceipt, Attest, RunAttested, evidence
<1>6. CASE UNCHANGED evidence
  BY <1>2, <1>6 DEF evidence
<1>7. QED
  BY <1>3, <1>4, <1>5, <1>6 DEF Next, EvidenceNext, vars

--------------------------------------------------------------------------------
(***************************************************************************)
(* The invariant and what follows from it                                  *)
(***************************************************************************)

LEMMA EvidenceInit ==
    ASSUME TrustAssumption, DocAssumption, Init
    PROVE  EvidenceInv
<1>1. TypeOK
  BY InitTypes
<1>2. LoadProgress
  BY DEF Init, TrustInit, LoadProgress, Loading, FilesFound
<1>3. SignaturesMean
  <2>1. \A s \in signed : s.over[1] = GrantAudience
    BY FirstGrantSigned DEF Signature, Pae
  <2>2. QED
    BY <2>1 DEF SignaturesMean, GrantAudience, PreExecType, ReportType, NativeRecord
<1>4. HostEnvelopes
  BY DEF Init, HostEnvelopes
<1>5. QED
  BY <1>1, <1>2, <1>3, <1>4 DEF EvidenceInv

LEMMA EvidenceStep ==
    ASSUME TrustAssumption, DocAssumption, ReceiptAssumption, EvidenceInv, [Next]_vars
    PROVE  EvidenceInv'
<1>1. TypeOK /\ LoadProgress /\ SignaturesMean /\ HostEnvelopes
  BY DEF EvidenceInv
<1>2. TypeOK'
  BY <1>1, OperatorTypes, LoaderTypes, EvidenceTypes
     DEF Next, TrustNext, vars
<1>3. LoadProgress'
  BY <1>1, LoadStep
<1>4. SignaturesMean'
  BY <1>1, MeaningStep
<1>5. HostEnvelopes'
  BY <1>1, EnvelopesStep
<1>6. QED
  BY <1>2, <1>3, <1>4, <1>5 DEF EvidenceInv

(***************************************************************************)
(* Whatever is on disk or was answered, its signatures were made by their  *)
(* keys for what they stand for, and a load is what it has verified.       *)
(***************************************************************************)
THEOREM EvidenceInvariant == Spec => []EvidenceInv
<1>1. Init => EvidenceInv
  BY EvidenceInit, TrustAssumption, DocAssumption
<1>2. EvidenceInv /\ [Next]_vars => EvidenceInv'
  BY EvidenceStep, TrustAssumption, DocAssumption, ReceiptAssumption
<1>3. QED
  BY <1>1, <1>2, PTL DEF Spec

(***************************************************************************)
(* A server in service enforces all the grants its scan found, or none:    *)
(* one file that is refused keeps it from serving.                         *)
(***************************************************************************)
THEOREM TrustInvariant == Spec => []TrustInv
<1>1. EvidenceInv => TrustInv
  <2>1. LoadProgress => AllOrNothing
    BY DEF LoadProgress, Loading, AllOrNothing
  <2>2. QED
    BY <2>1 DEF EvidenceInv, TrustInv
<1>2. QED
  BY <1>1, EvidenceInvariant, PTL

(***************************************************************************)
(* A server in service enforces only what a key of its root signed.        *)
(***************************************************************************)
THEOREM OnlySignedGrantsServe == Spec => []ServedGrantsWereSigned
<1>1. EvidenceInv => ServedGrantsWereSigned
  BY DEF EvidenceInv, LoadProgress, ServedGrantsWereSigned
<1>2. QED
  BY <1>1, EvidenceInvariant, PTL

(* The command that issues grants and the loader that verifies them agree.  *)
LEMMA IssuedVerifies ==
    ASSUME TypeOK, LoadProgress, DocAssumption, pc # "down",
           NEW d \in Docs, NEW k \in Entries(pinned),
           d.fit, d.id \in {NoId, k.id}, k.status # "retired",
           k.from <= clock, k.until # NoBound => clock < k.until,
           clock \in Nat, d.until # NoBound => clock < d.until
    PROVE  VerifyEnvelope(pinned, Issued([d EXCEPT !.extra = FALSE], k.key, k.id), clock)
<1> DEFINE g == [[d EXCEPT !.extra = FALSE] EXCEPT !.id = k.id]
           e == Issued([d EXCEPT !.extra = FALSE], k.key, k.id)
           s == [keyid |-> k.id, alg |-> "EdDSA", sig |-> Signature(k.key, GrantAudience, g)]
<1>1. d \in Grants
  BY DEF DocAssumption
<1>2. g.form = "grant" /\ g.extra = FALSE /\ g.fit = d.fit /\ g.id = k.id /\ g.until = d.until
  BY <1>1 DEF Grants
<1>3. e.type = GrantAudience /\ e.payload = g /\ e.exact = TRUE /\ e.sigs = {s}
  BY DEF Issued, DsseSign
<1>4. pinned.audience = GrantAudience /\ k.alg = "EdDSA"
  BY DEF LoadProgress, RootLoads, KeyLoads
<1>5. s.keyid = k.id /\ s.alg = "EdDSA" /\ s.sig = Signature(k.key, GrantAudience, g)
  OBVIOUS
<1> HIDE DEF g, e, s
<1>6. SignatureHolds(pinned, e, s, clock)
  BY <1>3, <1>4, <1>5 DEF SignatureHolds, KeyNamed, WindowOpen, VerifiesUnder
<1>7. IsGrant(e.payload)
  BY <1>2, <1>3 DEF IsGrant
<1>8. ~Expired(e.payload, clock)
  BY <1>1, <1>2, <1>3 DEF Expired, Grants
<1>9. e.payload.id \in {x.keyid : x \in e.sigs}
  BY <1>2, <1>3, <1>5
<1>10. VerifyEnvelope(pinned, e, clock)
  BY <1>3, <1>4, <1>6, <1>7, <1>8, <1>9 DEF VerifyEnvelope
<1>11. QED
  BY <1>10 DEF e

(***************************************************************************)
(* What an operator issues is in force until its key or itself is not.     *)
(***************************************************************************)
THEOREM IssuedGrantsAreAccepted == Spec => []IssuedGrantsLoad
<1>1. EvidenceInv => IssuedGrantsLoad
  BY IssuedVerifies, TrustAssumption, DocAssumption
     DEF EvidenceInv, IssuedGrantsLoad, TypeOK, TrustAssumption
<1>2. QED
  BY <1>1, EvidenceInvariant, PTL

(* An envelope that is accepted, whoever shows it, is signed by the host    *)
(* over the very report it is shown beside.                                 *)
LEMMA AcceptedIsRun ==
    ASSUME EvidenceInv, DocAssumption, NEW e \in Presented, NEW doc, NEW type,
           VerifyAttestation(e, ReceiptKey, doc, type)
    PROVE  \/ type = ReportType /\ doc \in runs
           \/ /\ type = PreExecType /\ Enveloped(PreExecType, doc) \in receipts
              /\ doc \in PreDocs
<1>1. AllEnvelopes \subseteq SignedEnvelopes
  BY EnvelopesOfFiles DEF EvidenceInv
<1>2. e \in SignedEnvelopes
  <2>1. CASE e \in AllEnvelopes
    BY <1>1, <2>1
  <2>2. CASE \E x \in AllEnvelopes : e \in Altered(x, AllEnvelopes)
    BY <1>1, <2>2, AlteredSigned
  <2>3. QED
    BY <2>1, <2>2 DEF Presented
<1>3. PICK s \in e.sigs : s.sig = Signature(ReceiptKey, e.type, e.payload)
  BY DEF VerifyAttestation, DsseVerify
<1>4. s.sig \in signed
  BY <1>2 DEF SignedEnvelopes
<1>5. /\ s.sig.by = ReceiptKey /\ s.sig.over[1] = type /\ s.sig.over[2] = doc
      /\ type \in {ReportType, PreExecType}
  BY <1>3 DEF VerifyAttestation, Signature, Pae, ReceiptTypes
<1>6. CASE type = ReportType
  BY <1>4, <1>5, <1>6 DEF EvidenceInv, SignaturesMean
<1>7. CASE type = PreExecType
  <2>1. Enveloped(PreExecType, doc) \in receipts
    BY <1>4, <1>5, <1>7 DEF EvidenceInv, SignaturesMean
  <2>2. ReportType # PreExecType
    BY DEF ReportType, PreExecType
  <2>3. doc \in PreDocs
    BY <2>1, <2>2, EnvelopedAs DEF EvidenceInv, HostEnvelopes
  <2>4. QED
    BY <1>7, <2>1, <2>3
<1>8. QED
  BY <1>5, <1>6, <1>7

(* The age a caller set, on a clock that is off by no more than Drift.      *)
LEMMA AcceptedIsFresh ==
    ASSUME TrustAssumption, ReceiptAssumption, TypeOK, NEW doc \in runs,
           \E d \in 0..(2 * Drift) :
              clock + d >= Drift /\ IsFresh(doc, clock + d - Drift)
    PROVE  clock <= doc.issued + MaxAge + Drift
<1>1. clock \in Nat /\ doc.issued \in Nat
  BY DEF TypeOK, RunDocs, TrustAssumption
<1>2. PICK d \in 0..(2 * Drift) : clock + d - Drift <= doc.issued + MaxAge
  BY DEF IsFresh
<1>3. QED
  BY <1>1, <1>2 DEF ReceiptAssumption

(***************************************************************************)
(* A receipt is evidence of one run, and of that one only.                 *)
(***************************************************************************)
THEOREM ReceiptsAreEvidence == Spec => []AcceptedReceiptsTellTheRun
<1>1. EvidenceInv => AcceptedReceiptsTellTheRun
  <2> SUFFICES ASSUME EvidenceInv PROVE AcceptedReceiptsTellTheRun
    OBVIOUS
  <2>1. ASSUME NEW e \in receipts
        PROVE  CallerAccepts(e, e.payload, e.type, FALSE)
    <3>1. PICK doc, type : /\ doc = e.payload /\ type = e.type
                           /\ type \in ReceiptTypes /\ e = Enveloped(type, doc)
      BY DEF EvidenceInv, HostEnvelopes, ReceiptTypes
    <3>2. VerifyAttestation(Enveloped(type, doc), ReceiptKey, doc, type)
      <4> DEFINE s == [keyid |-> ReceiptId, alg |-> "EdDSA",
                       sig |-> Signature(ReceiptKey, type, doc)]
                 x == Enveloped(type, doc)
      <4>1. x.type = type /\ x.payload = doc /\ x.sigs = {s}
        BY DEF Enveloped, DsseSign
      <4>2. s.alg = "EdDSA" /\ s.sig = Signature(ReceiptKey, type, doc)
        OBVIOUS
      <4> HIDE DEF s, x
      <4>3. VerifyAttestation(x, ReceiptKey, doc, type)
        BY <3>1, <4>1, <4>2 DEF VerifyAttestation, DsseVerify
      <4>4. QED
        BY <4>3 DEF x
    <3>3. QED
      BY <3>1, <3>2 DEF CallerAccepts
  <2>2. ASSUME NEW e \in Presented, NEW doc \in Shown, NEW type \in PayloadTypes,
               NEW aged \in BOOLEAN, CallerAccepts(e, doc, type, aged)
        PROVE  /\ type = ReportType => doc \in runs
               /\ type = PreExecType => Enveloped(PreExecType, doc) \in receipts
               /\ aged => doc \in runs /\ clock <= doc.issued + MaxAge + Drift
    <3>1. \/ type = ReportType /\ doc \in runs
          \/ /\ type = PreExecType /\ Enveloped(PreExecType, doc) \in receipts
             /\ doc \in PreDocs
      BY <2>2, AcceptedIsRun, DocAssumption DEF CallerAccepts
    <3>2. ASSUME aged PROVE doc \in runs /\ clock <= doc.issued + MaxAge + Drift
      <4>1. \E d \in 0..(2 * Drift) :
               clock + d >= Drift /\ IsFresh(doc, clock + d - Drift)
        BY <2>2, <3>2 DEF CallerAccepts
      <4>2. doc \in runs
        BY <3>1, <4>1 DEF IsFresh, PreDocs
      <4>3. QED
        BY <4>1, <4>2, AcceptedIsFresh, TrustAssumption, ReceiptAssumption DEF EvidenceInv
    <3>3. ReportType # PreExecType
      BY DEF ReportType, PreExecType
    <3>4. QED
      BY <3>1, <3>2, <3>3
  <2>3. QED
    BY <2>1, <2>2 DEF AcceptedReceiptsTellTheRun
<1>2. QED
  BY <1>1, EvidenceInvariant, PTL

(***************************************************************************)
(* A receipt chains only to the record its run was made for.               *)
(***************************************************************************)
THEOREM ChainsAreTrue == Spec => []ChainBindsTheRun
<1>1. EvidenceInv => ChainBindsTheRun
  <2> SUFFICES ASSUME EvidenceInv, NEW p \in ShownPres, NEW r \in ShownLinked,
                      VerifyChain(p, r, ReceiptKey)
               PROVE  [pre |-> Digest(p), run |-> r.doc] \in attested
    BY DEF ChainBindsTheRun
  <2>1. PICK x \in linked : r.sig = x.sig /\ r.doc.form = "run"
    BY DEF ShownLinked, EvidenceInv, TypeOK, SignedRecords, RunDocs
  <2>2. r.sig \in signed
    BY <2>1 DEF EvidenceInv, TypeOK, SignedRecords
  <2>3. r.sig = Signature(ReceiptKey, NativeRecord, <<r.doc, r.alg>>)
    BY DEF VerifyChain, Verify
  <2>4. r.sig.by = ReceiptKey /\ r.sig.over[1] = NativeRecord /\ r.sig.over[2][1] = r.doc
    BY <2>3 DEF Signature, Pae
  <2>5. [pre |-> r.doc.link.digest, run |-> r.doc] \in attested
    BY <2>1, <2>2, <2>4 DEF EvidenceInv, SignaturesMean
  <2>6. r.doc.link.digest = Digest(p)
    BY DEF VerifyChain
  <2>7. QED
    BY <2>5, <2>6
<1>2. QED
  BY <1>1, EvidenceInvariant, PTL
================================================================================
