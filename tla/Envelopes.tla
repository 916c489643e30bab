------------------------------- MODULE Envelopes -------------------------------
(***************************************************************************)
(* The two forms in which this code signs a document, and what it takes to *)
(* verify one (execution_report.py): DSSE envelopes, whose signatures      *)
(* cover a payload together with its type, and the native records of       *)
(* SEP-2787, which carry one signature over all their other fields.        *)
(*                                                                         *)
(* Canonical bytes, SHA-256 and the PAE are injective: a document stands   *)
(* for its bytes and for its digest, and a pair for its PAE.  A signature  *)
(* names its key and what it covers; whoever holds no key can copy one and *)
(* not make one.                                                           *)
(*                                                                         *)
(* An envelope is a record:                                                *)
(*   type     payloadType                                                  *)
(*   payload  the document                                                 *)
(*   sigs     the set of its signature entries, each with                  *)
(*            keyid, alg ("absent" when it has none), sig                  *)
(*   exact    all base64 in it has the canonical spelling                  *)
(***************************************************************************)

EXTENDS Naturals

CONSTANT NoId   \* no key is named

GrantAudience == "egress-grant"
ReportType == "execution-report"
PreExecType == "pre-execution-record"
ReceiptTypes == {ReportType, PreExecType}
PayloadTypes == ReceiptTypes \cup {GrantAudience}
NativeRecord == "record"

Pae(type, payload) == <<type, payload>>

Signature(key, type, payload) == [by |-> key, over |-> Pae(type, payload)]

DsseSign(key, type, payload, alg, id) ==
    [type |-> type, payload |-> payload, exact |-> TRUE,
     sigs |-> {[keyid |-> id, alg |-> alg, sig |-> Signature(key, type, payload)]}]

\* Every signature listed verifies under the one key; a spelling that is not
\* canonical is accepted here.
DsseVerify(e, key, alg) ==
    /\ e.sigs # {}
    /\ \A s \in e.sigs : /\ s.alg \in {alg, "absent"}
                         /\ s.sig = Signature(key, e.type, e.payload)

\* A native record: alg is among the fields the signature covers.
Sign(key, doc, alg) ==
    [doc |-> doc, alg |-> alg, sig |-> Signature(key, NativeRecord, <<doc, alg>>)]

Verify(r, key) == r.sig = Signature(key, NativeRecord, <<r.doc, r.alg>>)

\* The digest of a signed record: everything except its signature.
Digest(r) == <<r.doc, r.alg>>

VerifyChain_ById(pre, receipt, key) ==  \* mutant: the digest is not compared
    /\ Verify(pre, key)
    /\ Verify(receipt, key)
    /\ receipt.doc.link.id = pre.doc.id

VerifyChain(pre, receipt, key) ==
    /\ Verify(pre, key)
    /\ Verify(receipt, key)
    /\ receipt.doc.link = [id |-> pre.doc.id, digest |-> Digest(pre)]

VerifyAttestation_SignatureOnly(e, key, doc, type) ==
    /\ type \in ReceiptTypes        \* mutant: the payload is not compared with
    /\ e.type = type                \* the document
    /\ DsseVerify(e, key, "EdDSA")

\* verify_execution_attestation of an envelope shown beside a document, but for
\* the age of the receipt.
VerifyAttestation(e, key, doc, type) ==
    /\ type \in ReceiptTypes
    /\ e.type = type
    /\ e.payload = doc
    /\ DsseVerify(e, key, "EdDSA")

================================================================================
