----------------------- MODULE EgressMediation_proofs -----------------------
(***************************************************************************)
(* Proofs about host-side egress: for any runs, tools, policies, slots and *)
(* answers of the origins, what is sent lies within the walls, is paid for *)
(* by a slot of its own, and is what the audit tells.                      *)
(***************************************************************************)
EXTENDS EgressMediation, TLAPS

(***************************************************************************)
(* The redirects among a sequence of requests.                             *)
(***************************************************************************)
LEMMA RedirectedType ==
    ASSUME NEW s \in Seq(Requests), s # <<>>
    PROVE  /\ Redirected(s) \in Seq(Urls)
           /\ Len(Redirected(s)) = Len(s) - 1
           /\ \A i \in 1..(Len(s) - 1) : Redirected(s)[i] = s[i + 1].url
<1> DEFINE n == Len(s) - 1
<1>1. n \in Nat
  OBVIOUS
<1>2. ASSUME NEW i \in 1..n
      PROVE  s[i + 1].url \in Urls
  <2>1. s[i + 1] \in Requests
    BY <1>1
  <2>2. QED
    BY <2>1 DEF Requests
<1>3. Redirected(s) \in [1..n -> Urls]
  BY <1>2 DEF Redirected
<1>4. Redirected(s) \in Seq(Urls) /\ Len(Redirected(s)) = n
  <2> HIDE DEF n
  <2>1. QED
    BY <1>1, <1>3
<1>5. QED
  BY <1>4 DEF Redirected

(* None before the first answer. *)
LEMMA NothingRedirected ==
    ASSUME NEW s \in Seq(Requests), Len(s) <= 1
    PROVE  Redirected(s) = <<>>
<1>1. 1..(Len(s) - 1) = {}
  OBVIOUS
<1>2. Redirected(s) \in [1..0 -> Urls]
  BY <1>1 DEF Redirected
<1>3. Redirected(s) \in Seq(Urls) /\ Len(Redirected(s)) = 0
  BY <1>2
<1>4. QED
  BY <1>3

(* One more, when one more request is sent. *)
LEMMA RedirectedAppend ==
    ASSUME NEW d \in Seq(Requests), d # <<>>, NEW request \in Requests
    PROVE  Redirected(Append(d, request)) = Append(Redirected(d), request.url)
<1> DEFINE n == Len(d)
           e == Append(d, request)
           s == Append(Redirected(d), request.url)
<1>1. n \in Nat /\ n >= 1
  OBVIOUS
<1>2. /\ e \in Seq(Requests) /\ e # <<>>
      /\ Len(e) = n + 1
      /\ \A i \in 1..n : e[i] = d[i]
      /\ e[n + 1] = request
  BY <1>1
<1>3. /\ Redirected(e) \in Seq(Urls)
      /\ Len(Redirected(e)) = n
      /\ \A i \in 1..n : Redirected(e)[i] = e[i + 1].url
  <2> HIDE DEF e, n
  <2>1. Len(e) - 1 = n
    BY <1>1, <1>2
  <2>2. QED
    BY <1>2, <2>1, RedirectedType
<1>4. /\ s \in Seq(Urls)
      /\ Len(s) = n
      /\ \A i \in 1..(n - 1) : s[i] = d[i + 1].url
      /\ s[n] = request.url
  <2>1. request.url \in Urls
    BY DEF Requests
  <2>2. QED
    BY <1>1, <2>1, RedirectedType
<1>5. ASSUME NEW i \in 1..n
      PROVE  Redirected(e)[i] = s[i]
  <2>1. CASE i = n
    BY <2>1, <1>1, <1>2, <1>3, <1>4
  <2>2. CASE i # n
    <3>1. i \in 1..(n - 1) /\ i + 1 \in 1..n
      BY <2>2, <1>1
    <3>2. QED
      BY <3>1, <1>2, <1>3, <1>4
  <2>3. QED
    BY <2>1, <2>2
<1>6. QED
  BY <1>3, <1>4, <1>5

(* The limit of a body is a number.                                        *)
LEMMA ByteLimitType ==
    ASSUME EgressAssumption, NEW t \in Tools
    PROVE  /\ ByteLimit(t) \in Nat
           /\ \A p \in {Policy(t)} \cup Ceiling(t) : ByteLimit(t) <= p.bytes
<1> DEFINE walls == {Policy(t)} \cup Ceiling(t)
           limits == {p.bytes : p \in walls}
<1>1. Policy(t) \in Policies /\ ServerPolicy \in Policies
  BY DEF EgressAssumption, Policy
<1>2. \A p \in walls : p.bytes \in Nat
  BY <1>1 DEF Ceiling, Policies
<1>3. \E n \in limits : \A p \in walls : n <= p.bytes
  <2>1. CASE Ceiling(t) = {}
    BY <2>1, <1>2
  <2>2. CASE Ceiling(t) = {ServerPolicy} /\ Policy(t).bytes <= ServerPolicy.bytes
    BY <2>2, <1>2
  <2>3. CASE Ceiling(t) = {ServerPolicy} /\ ServerPolicy.bytes <= Policy(t).bytes
    BY <2>3, <1>2
  <2>4. Ceiling(t) = {} \/ Ceiling(t) = {ServerPolicy}
    BY DEF Ceiling
  <2>5. Policy(t).bytes \in Nat /\ ServerPolicy.bytes \in Nat
    BY <1>1 DEF Policies
  <2>6. QED
    BY <2>1, <2>2, <2>3, <2>4, <2>5
<1>4. ByteLimit(t) \in limits /\ \A p \in walls : ByteLimit(t) <= p.bytes
  BY <1>3 DEF ByteLimit
<1>5. QED
  BY <1>2, <1>4

------------------------------------------------------------------------------
(***************************************************************************)
(* Type correctness.                                                       *)
(***************************************************************************)
EntryType == [decision : {"none", "allowed", "denied"},
              limit : Labels, hops : Seq(Urls), fetched : BOOLEAN,
              bytes : Nat, truncated : BOOLEAN]

LEMMA EntryTypes ==
    /\ NoAudit \in EntryType
    /\ \A limit \in Labels, hops \in Seq(Urls) : Denied(limit, hops) \in EntryType
    /\ \A hops \in Seq(Urls) : FetchFailed(hops) \in EntryType
    /\ \A hops \in Seq(Urls), bytes \in Nat, truncated \in BOOLEAN :
          Delivered(hops, bytes, truncated) \in EntryType
<1>1. <<>> \in Seq(Urls)
  OBVIOUS
<1>2. NoAudit \in EntryType
  BY <1>1 DEF NoAudit, EntryType, Labels
<1>3. "none" \in Labels
  BY DEF Labels
<1>4. \A hops \in Seq(Urls), bytes \in Nat, truncated \in BOOLEAN :
          Delivered(hops, bytes, truncated) \in EntryType
  BY <1>3, Zenon DEF Delivered, EntryType
<1>5. QED
  BY <1>2, <1>4 DEF NoAudit, EntryType, Denied, FetchFailed

LEMMA AnswerType ==
    ASSUME TypeOK, NEW r \in Runs, NEW entry \in EntryType, Answer(r, entry)
    PROVE  /\ server' \in BOOLEAN /\ strict' \in BOOLEAN
           /\ pc' \in [Runs -> {"new", "ran", "charged", "opening", "fetching",
                               "done", "raised"}]
           /\ tool' \in [Runs -> Tools]
           /\ ask' \in [Runs -> Asks]
           /\ audit' \in [Runs -> EntryType]
  BY DEF Answer, Goto, TypeOK, EntryType

LEMMA InitType ==
    ASSUME EgressAssumption, Init
    PROVE  TypeOK
<1>1. /\ <<>> \in Seq(Urls) /\ <<>> \in Seq(Requests)
      /\ Silent \in Asks /\ NoAudit \in EntryType
  BY EntryTypes DEF Asks
<1>2. QED
  BY <1>1 DEF Init, Meter!Init, TypeOK, EntryType

(* The steps that only answer, and change nothing else. *)
Answers(r) ==
    /\ UNCHANGED <<meterVars, slot, issued, opened>>
    /\ \E entry \in EntryType : Answer(r, entry)

LEMMA AnswersType ==
    ASSUME TypeOK, NEW r \in Runs, Answers(r),
           followed' \in [Runs -> Seq(Urls)], sent' \in [Runs -> Nat]
    PROVE  TypeOK'
<1>1. PICK entry \in EntryType : Answer(r, entry)
  BY DEF Answers
<1>2. QED
  BY <1>1, AnswerType DEF Answers, TypeOK, EntryType, meterVars

(* Which steps those are. *)
LEMMA AnsweringSteps ==
    ASSUME EgressAssumption, TypeOK, NEW r \in Runs,
           \/ StayQuiet(r) \/ DenyUngranted(r) \/ DenyRequest(r) \/ DenyByCeiling(r)
           \/ DenyByBook(r) \/ RefuseRedirect(r) \/ RefuseFetch(r) \/ FailFetch(r)
           \/ Deliver(r)
    PROVE  /\ Answers(r)
           /\ followed' = followed
           /\ sent' \in [Runs -> Nat]
<1> USE EntryTypes DEF Answers, Labels
<1>1. followed[r] \in Seq(Urls) /\ <<>> \in Seq(Urls)
  BY DEF TypeOK
<1>2. CASE StayQuiet(r)
  BY <1>2 DEF StayQuiet, TypeOK
<1>3. CASE DenyUngranted(r)
  BY <1>1, <1>3 DEF DenyUngranted, TypeOK
<1>4. CASE DenyRequest(r)
  BY <1>1, <1>4 DEF DenyRequest, TypeOK
<1>5. CASE DenyByCeiling(r)
  BY <1>1, <1>5 DEF DenyByCeiling, TypeOK
<1>6. CASE DenyByBook(r)
  BY <1>1, <1>6 DEF DenyByBook, TypeOK
<1>7. CASE RefuseRedirect(r)
  <2>1. PICK url \in Urls : Answer(r, Denied(HopLabel(tool[r], url), Append(followed[r], url)))
    BY <1>7 DEF RefuseRedirect
  <2>2. HopLabel(tool[r], url) \in Labels /\ Append(followed[r], url) \in Seq(Urls)
    BY <1>1 DEF HopLabel
  <2>3. Denied(HopLabel(tool[r], url), Append(followed[r], url)) \in EntryType
    BY <2>2
  <2>4. QED
    BY <1>7, <2>1, <2>3 DEF RefuseRedirect, TypeOK
<1>8. CASE RefuseFetch(r)
  BY <1>1, <1>8 DEF RefuseFetch, TypeOK
<1>9. CASE FailFetch(r)
  BY <1>1, <1>9 DEF FailFetch, TypeOK
<1>10. CASE Deliver(r)
  <2> DEFINE limit == ByteLimit(tool[r])
  <2>1. limit \in Nat
    BY ByteLimitType DEF TypeOK
  <2> HIDE DEF limit
  <2>2. PICK size \in 0..MaxBody :
           LET total == Received(size, limit)
           IN  /\ sent' = [sent EXCEPT ![r] = size]
               /\ Answer(r, Delivered(followed[r],
                                      IF total > limit THEN limit ELSE total,
                                      total > limit))
    BY <1>10 DEF Deliver, limit
  <2>3. size \in Nat /\ Received(size, limit) \in Nat
    BY <2>1, <2>2 DEF Received, EgressAssumption
  <2>4. (IF Received(size, limit) > limit THEN limit ELSE Received(size, limit)) \in Nat
    BY <2>1, <2>3
  <2>5. (Received(size, limit) > limit) \in BOOLEAN
    OBVIOUS
  <2>6. Answers(r)
    BY <1>1, <1>10, <2>2, <2>4, <2>5, Zenon DEF Deliver
  <2>7. QED
    BY <1>10, <2>2, <2>3, <2>6 DEF Deliver, TypeOK
<1>11. QED
  BY <1>2, <1>3, <1>4, <1>5, <1>6, <1>7, <1>8, <1>9, <1>10

Answering(r) ==
    \/ StayQuiet(r) \/ DenyUngranted(r) \/ DenyRequest(r) \/ DenyByCeiling(r)
    \/ DenyByBook(r) \/ RefuseRedirect(r) \/ RefuseFetch(r) \/ FailFetch(r)
    \/ Deliver(r)

(* The steps that only leave by an exception. *)
Raising(r) == Refuse(r) \/ RunRaises(r) \/ RequestRaises(r)

Other(r) ==
    \/ Raising(r) \/ RunReturns(r) \/ Charge(r)
    \/ FetchUnderGrant(r) \/ FetchUnderPolicy(r)
    \/ OpenRequest(r) \/ FollowRedirect(r) \/ DeliveryRaises(r)

LEMMA RaisingShape ==
    ASSUME TypeOK, NEW r \in Runs, Raising(r)
    PROVE  /\ pc[r] \in {"new", "ran"}
           /\ pc' = [pc EXCEPT ![r] = "raised"]
           /\ UNCHANGED <<server, strict, meterVars, tool, ask, slot, fetchVars>>
  BY DEF Raising, Refuse, RunRaises, RequestRaises, Mediated, Goto

LEMMA OpenRequestShape ==
    ASSUME TypeOK, NEW r \in Runs, OpenRequest(r)
    PROVE  /\ pc[r] = "opening"
           /\ pc' = [pc EXCEPT ![r] = "fetching"]
           /\ opened' = [opened EXCEPT ![r] = Len(issued[r])]
           /\ UNCHANGED <<server, strict, handed, fetched, closed, tool, ask, slot,
                          issued, followed, audit, sent>>
  BY DEF OpenRequest, Goto, meterVars

LEMMA DeliveryRaisesShape ==
    ASSUME EgressAssumption, TypeOK, NEW r \in Runs, DeliveryRaises(r)
    PROVE  /\ pc[r] = "fetching"
           /\ pc' = [pc EXCEPT ![r] = "raised"]
           /\ \E size \in Nat : size > 0 /\ sent' = [sent EXCEPT ![r] = size]
           /\ UNCHANGED <<server, strict, handed, fetched, closed, tool, ask, slot,
                          issued, opened, followed, audit>>
<1>1. PICK size \in 1..MaxBody : sent' = [sent EXCEPT ![r] = size]
  BY DEF DeliveryRaises
<1>2. size \in Nat /\ size > 0
  BY <1>1 DEF EgressAssumption
<1>3. QED
  BY <1>1, <1>2 DEF DeliveryRaises, Goto, meterVars

LEMMA StepsSplit ==
    ASSUME NEW r \in Runs, Steps(r)
    PROVE  Answering(r) \/ Other(r)
  BY DEF Steps, Answering, Other, Raising

(* What a guest asked for is a request once it is permitted. *)
LEMMA SentAreRequests ==
    ASSUME TypeOK, NEW r \in Runs
    PROVE  /\ Permitted(tool[r], ask[r]) => ask[r] \in Requests
           /\ \A url \in Urls : [url |-> url, method |-> "GET"] \in Requests
  BY DEF Permitted, Requests, Methods

LEMMA StepType ==
    ASSUME EgressAssumption, TypeOK, SlotsOwned, NothingYet, NEW r \in Runs, Steps(r)
    PROVE  TypeOK'
<1> USE DEF Goto, meterVars, fetchVars
<1>1. CASE Answering(r)
  <2>1. Answers(r) /\ followed' = followed /\ sent' \in [Runs -> Nat]
    BY <1>1, AnsweringSteps DEF Answering
  <2>2. followed' \in [Runs -> Seq(Urls)]
    BY <2>1 DEF TypeOK
  <2>3. QED
    BY <2>1, <2>2, AnswersType
<1>2. CASE Raising(r)
  <2>1. /\ pc' = [pc EXCEPT ![r] = "raised"]
        /\ UNCHANGED <<server, strict, meterVars, tool, ask, slot, fetchVars>>
    BY <1>2, RaisingShape
  <2>2. QED
    BY <2>1 DEF TypeOK
<1>3. CASE RunReturns(r)
  BY <1>3 DEF RunReturns, TypeOK
<1>4. CASE Charge(r)
  <2>1. PICK n \in Slots[tool[r]] :
           /\ handed' = handed \cup {<<tool[r], n>>}
           /\ fetched' = fetched
           /\ slot' = [slot EXCEPT ![r] = <<tool[r], n>>]
    BY <1>4 DEF Charge, Meter!HandSlot
  <2>2. tool[r] \in Granted /\ n \in Nat
    BY <1>4, <2>1 DEF Charge, EgressAssumption
  <2>3. QED
    BY <1>4, <2>1, <2>2 DEF Charge, TypeOK
<1>5. CASE FetchUnderGrant(r)
  <2>1. ask[r] \in Requests
    BY <1>5 DEF FetchUnderGrant, SlotsOwned, NothingYet, Permitted
  <2>2. issued' \in [Runs -> Seq(Requests)]
    BY <1>5, <2>1 DEF FetchUnderGrant, Issue, TypeOK
  <2>3. fetched' \subseteq handed' /\ handed' = handed
    BY <1>5 DEF FetchUnderGrant, Meter!SpendSlot, TypeOK
  <2>4. QED
    BY <1>5, <2>2, <2>3 DEF FetchUnderGrant, Issue, TypeOK
<1>6. CASE FetchUnderPolicy(r)
  <2>1. ask[r] \in Requests
    BY <1>6, SentAreRequests DEF FetchUnderPolicy
  <2>2. issued' \in [Runs -> Seq(Requests)]
    BY <1>6, <2>1 DEF FetchUnderPolicy, Issue, TypeOK
  <2>3. QED
    BY <1>6, <2>2 DEF FetchUnderPolicy, Issue, TypeOK
<1>7. CASE FollowRedirect(r)
  <2>1. PICK url \in Urls :
           LET trail == Append(followed[r], url)
           IN  /\ followed' = [followed EXCEPT ![r] = trail]
               /\ \/ Answer(r, FetchFailed(trail)) /\ issued' = issued
                  \/ /\ Issue(r, [url |-> url, method |-> "GET"])
                     /\ UNCHANGED <<server, strict, tool, ask, audit>>
    BY <1>7 DEF FollowRedirect
  <2>2. followed' \in [Runs -> Seq(Urls)] /\ Append(followed[r], url) \in Seq(Urls)
    BY <2>1 DEF TypeOK
  <2>3. CASE Answer(r, FetchFailed(Append(followed[r], url))) /\ issued' = issued
    <3>1. FetchFailed(Append(followed[r], url)) \in EntryType
      BY <2>2, EntryTypes
    <3>2. Answers(r) /\ sent' = sent
      BY <1>7, <2>3, <3>1 DEF Answers, FollowRedirect
    <3>3. sent' \in [Runs -> Nat]
      BY <3>2 DEF TypeOK
    <3>4. QED
      BY <2>2, <3>2, <3>3, AnswersType
  <2>4. CASE /\ Issue(r, [url |-> url, method |-> "GET"])
             /\ UNCHANGED <<server, strict, tool, ask, audit>>
    <3>1. issued' \in [Runs -> Seq(Requests)]
      BY <2>4, SentAreRequests DEF Issue, TypeOK
    <3>2. QED
      BY <1>7, <2>2, <2>4, <3>1 DEF FollowRedirect, Issue, TypeOK
  <2>5. QED
    BY <2>1, <2>3, <2>4
<1>8. CASE OpenRequest(r)
  <2>1. /\ pc' = [pc EXCEPT ![r] = "fetching"]
        /\ opened' = [opened EXCEPT ![r] = Len(issued[r])]
        /\ UNCHANGED <<server, strict, handed, fetched, closed, tool, ask, slot,
                       issued, followed, audit, sent>>
    BY <1>8, OpenRequestShape
  <2>2. Len(issued[r]) \in Nat
    BY DEF TypeOK
  <2>3. opened' \in [Runs -> Nat]
    BY <2>1, <2>2 DEF TypeOK
  <2>4. QED
    BY <2>1, <2>3 DEF TypeOK
<1>9. CASE DeliveryRaises(r)
  <2>1. /\ pc' = [pc EXCEPT ![r] = "raised"]
        /\ UNCHANGED <<server, strict, handed, fetched, closed, tool, ask, slot,
                       issued, opened, followed, audit>>
    BY <1>9, DeliveryRaisesShape
  <2>2. PICK size \in Nat : sent' = [sent EXCEPT ![r] = size]
    BY <1>9, DeliveryRaisesShape
  <2>3. sent' \in [Runs -> Nat]
    BY <2>2 DEF TypeOK
  <2>4. QED
    BY <2>1, <2>3 DEF TypeOK
<1>10. QED
  BY <1>1, <1>2, <1>3, <1>4, <1>5, <1>6, <1>7, <1>8, <1>9, StepsSplit DEF Other

------------------------------------------------------------------------------
(***************************************************************************)
(* The rest of the invariant.                                              *)
(***************************************************************************)
LEMMA AnsweringShape ==
    ASSUME EgressAssumption, TypeOK, NEW r \in Runs, Answering(r)
    PROVE  /\ pc[r] \in {"ran", "opening", "fetching"}
           /\ pc' = [pc EXCEPT ![r] = "done"]
           /\ UNCHANGED <<server, strict, handed, fetched, tool, ask, slot,
                          issued, opened, followed>>
           /\ \E entry \in EntryType : audit' = [audit EXCEPT ![r] = entry]
<1>1. Answers(r) /\ followed' = followed
  BY AnsweringSteps DEF Answering
<1>2. pc[r] \in {"ran", "opening", "fetching"}
  BY DEF Answering, StayQuiet, DenyUngranted, DenyRequest, DenyByCeiling, DenyByBook,
         Mediated, RefuseRedirect, RefuseFetch, FailFetch, Deliver
<1>3. QED
  BY <1>1, <1>2 DEF Answers, Answer, Goto, meterVars

LEMMA AppendFills ==
    ASSUME NEW s \in Seq(Requests), NEW request \in Requests
    PROVE  Append(s, request) # <<>>
<1>1. Len(Append(s, request)) = Len(s) + 1 /\ Len(s) \in Nat
  OBVIOUS
<1>2. Len(Append(s, request)) # 0
  BY <1>1
<1>3. Len(<<>>) = 0
  OBVIOUS
<1>4. QED
  BY <1>2, <1>3

LEMMA StepNothingYet ==
    ASSUME EgressAssumption, TypeOK, SlotsOwned, NothingYet, NEW r \in Runs, Steps(r)
    PROVE  NothingYet'
<1> USE DEF NothingYet, Goto, fetchVars
<1>1. CASE Answering(r)
  <2>1. pc' = [pc EXCEPT ![r] = "done"] /\ UNCHANGED <<ask, slot, issued>>
    BY <1>1, AnsweringShape
  <2>2. \A q \in Runs : pc'[q] = IF q = r THEN "done" ELSE pc[q]
    BY <2>1 DEF TypeOK
  <2>3. QED
    BY <2>1, <2>2
<1>2. CASE Raising(r)
  <2>1. pc' = [pc EXCEPT ![r] = "raised"] /\ UNCHANGED <<ask, slot, issued>>
    BY <1>2, RaisingShape
  <2>2. \A q \in Runs : pc'[q] = IF q = r THEN "raised" ELSE pc[q]
    BY <2>1 DEF TypeOK
  <2>3. QED
    BY <2>1, <2>2
<1>3. CASE RunReturns(r)
  BY <1>3 DEF RunReturns, TypeOK
<1>4. CASE Charge(r)
  <2>1. PICK n \in Slots[tool[r]] : slot' = [slot EXCEPT ![r] = <<tool[r], n>>]
    BY <1>4 DEF Charge
  <2>2. <<tool[r], n>> \in Granted \X Nat
    BY <1>4, <2>1 DEF Charge, EgressAssumption
  <2>3. <<tool[r], n>> # NoSlot
    BY <2>2 DEF EgressAssumption
  <2>4. QED
    BY <1>4, <2>1, <2>3 DEF Charge, Mediated, TypeOK
<1>5. CASE FetchUnderGrant(r) \/ FetchUnderPolicy(r)
  <2>1. issued' = [issued EXCEPT ![r] = Append(issued[r], ask[r])]
    BY <1>5 DEF FetchUnderGrant, FetchUnderPolicy, Issue
  <2>2. Append(issued[r], ask[r]) # <<>>
    <3>1. ask[r] \in Requests
      BY <1>5 DEF FetchUnderGrant, FetchUnderPolicy, SlotsOwned, Permitted
    <3>2. QED
      BY <3>1, AppendFills DEF TypeOK
  <2>3. /\ pc' = [pc EXCEPT ![r] = "opening"] /\ UNCHANGED <<ask, slot>>
    BY <1>5 DEF FetchUnderGrant, FetchUnderPolicy, Issue
  <2>4. \A q \in Runs : pc'[q] = IF q = r THEN "opening" ELSE pc[q]
    BY <2>3 DEF TypeOK
  <2>5. issued'[r] # <<>> /\ \A q \in Runs \ {r} : issued'[q] = issued[q]
    BY <2>1, <2>2 DEF TypeOK
  <2>6. QED
    BY <2>3, <2>4, <2>5
<1>6. CASE FollowRedirect(r)
  <2>1. PICK url \in Urls :
           \/ pc' = [pc EXCEPT ![r] = "done"] /\ issued' = issued
           \/ /\ pc' = [pc EXCEPT ![r] = "opening"]
              /\ issued' = [issued EXCEPT ![r] =
                    Append(issued[r], [url |-> url, method |-> "GET"])]
    BY <1>6 DEF FollowRedirect, Answer, Issue
  <2>2. Append(issued[r], [url |-> url, method |-> "GET"]) # <<>>
    BY AppendFills, SentAreRequests DEF TypeOK
  <2>3. UNCHANGED <<ask, slot>>
    BY <1>6 DEF FollowRedirect, Answer
  <2>4. CASE pc' = [pc EXCEPT ![r] = "done"] /\ issued' = issued
    <3>1. \A q \in Runs : pc'[q] = IF q = r THEN "done" ELSE pc[q]
      BY <2>4 DEF TypeOK
    <3>2. QED
      BY <2>3, <2>4, <3>1
  <2>5. CASE /\ pc' = [pc EXCEPT ![r] = "opening"]
             /\ issued' = [issued EXCEPT ![r] =
                   Append(issued[r], [url |-> url, method |-> "GET"])]
    <3>1. \A q \in Runs : pc'[q] = IF q = r THEN "opening" ELSE pc[q]
      BY <2>5 DEF TypeOK
    <3>2. issued'[r] # <<>> /\ \A q \in Runs \ {r} : issued'[q] = issued[q]
      BY <2>2, <2>5 DEF TypeOK
    <3>3. QED
      BY <2>3, <3>1, <3>2
  <2>6. QED
    BY <2>1, <2>4, <2>5
<1>7. CASE OpenRequest(r)
  <2>1. /\ pc[r] = "opening" /\ pc' = [pc EXCEPT ![r] = "fetching"]
        /\ UNCHANGED <<ask, slot, issued>>
    BY <1>7, OpenRequestShape
  <2>2. \A q \in Runs : pc'[q] = IF q = r THEN "fetching" ELSE pc[q]
    BY <2>1 DEF TypeOK
  <2>3. QED
    BY <2>1, <2>2
<1>8. CASE DeliveryRaises(r)
  <2>1. pc' = [pc EXCEPT ![r] = "raised"] /\ UNCHANGED <<ask, slot, issued>>
    BY <1>8, DeliveryRaisesShape
  <2>2. \A q \in Runs : pc'[q] = IF q = r THEN "raised" ELSE pc[q]
    BY <2>1 DEF TypeOK
  <2>3. QED
    BY <2>1, <2>2
<1>9. QED
  BY <1>1, <1>2, <1>3, <1>4, <1>5, <1>6, <1>7, <1>8, StepsSplit DEF Other

(***************************************************************************)
(* Requests are opened one by one, in the order they were issued.          *)
(***************************************************************************)
LEMMA AppendCounts ==
    ASSUME NEW s \in Seq(Requests), NEW request \in Requests
    PROVE  Len(Append(s, request)) = Len(s) + 1
  OBVIOUS

LEMMA EmptyCounts ==
    ASSUME NEW s \in Seq(Requests)
    PROVE  s = <<>> <=> Len(s) = 0
  OBVIOUS

(* One run at a time: what holds of a run whose requests stand still.      *)
InOrder(r) ==
    /\ issued[r] = <<>> => opened[r] = 0
    /\ pc[r] = "opening" => Len(issued[r]) = opened[r] + 1
    /\ pc[r] = "fetching" => Len(issued[r]) = opened[r]

LEMMA IssueInOrder ==
    ASSUME TypeOK, OpenedInOrder, NEW r \in Runs, NEW request \in Requests,
           issued[r] = <<>> \/ pc[r] = "fetching",
           Issue(r, request), UNCHANGED opened
    PROVE  InOrder(r)'
<1>1. /\ issued'[r] = Append(issued[r], request)
      /\ pc'[r] = "opening"
      /\ opened'[r] = opened[r]
  BY DEF Issue, Goto, TypeOK
<1>2. issued[r] \in Seq(Requests) /\ opened[r] \in Nat
  BY DEF TypeOK
<1>3. opened[r] = Len(issued[r])
  BY <1>2, EmptyCounts DEF OpenedInOrder
<1>4. Len(issued'[r]) = opened'[r] + 1
  BY <1>1, <1>2, <1>3, AppendCounts
<1>5. issued'[r] # <<>>
  BY <1>1, <1>2, AppendFills
<1>6. QED
  BY <1>1, <1>4, <1>5 DEF InOrder

LEMMA StepOpened ==
    ASSUME EgressAssumption, TypeOK, NothingYet, SlotsOwned, OpenedInOrder,
           NEW r \in Runs, Steps(r)
    PROVE  OpenedInOrder'
<1>1. ASSUME InOrder(r)',
             \A q \in Runs \ {r} :
                 pc'[q] = pc[q] /\ issued'[q] = issued[q] /\ opened'[q] = opened[q]
      PROVE  OpenedInOrder'
  BY <1>1 DEF OpenedInOrder, InOrder
<1>2. ASSUME UNCHANGED <<issued, opened>>, NEW place \in {"ran", "charged", "done", "raised"},
             pc' = [pc EXCEPT ![r] = place]
      PROVE  OpenedInOrder'
  BY <1>2 DEF OpenedInOrder, TypeOK
<1>3. CASE Answering(r)
  BY <1>2, <1>3, AnsweringShape
<1>4. CASE Raising(r)
  BY <1>2, <1>4, RaisingShape DEF fetchVars
<1>5. CASE RunReturns(r) \/ Charge(r)
  BY <1>2, <1>5 DEF RunReturns, Charge, Goto, fetchVars
<1>6. CASE DeliveryRaises(r)
  BY <1>2, <1>6, DeliveryRaisesShape
<1>7. CASE OpenRequest(r)
  <2>1. /\ pc' = [pc EXCEPT ![r] = "fetching"]
        /\ opened' = [opened EXCEPT ![r] = Len(issued[r])]
        /\ issued' = issued
    BY <1>7, OpenRequestShape
  <2>2. /\ pc'[r] = "fetching" /\ opened'[r] = Len(issued[r])
        /\ \A q \in Runs \ {r} : pc'[q] = pc[q] /\ opened'[q] = opened[q]
    BY <2>1 DEF TypeOK
  <2>3. InOrder(r)'
    BY <2>1, <2>2, EmptyCounts DEF InOrder, TypeOK
  <2>4. QED
    BY <1>1, <2>1, <2>2, <2>3
<1>8. ASSUME NEW request \in Requests, Issue(r, request), UNCHANGED opened,
             issued[r] = <<>> \/ pc[r] = "fetching"
      PROVE  OpenedInOrder'
  <2>1. InOrder(r)'
    BY <1>8, IssueInOrder
  <2>2. \A q \in Runs \ {r} :
            pc'[q] = pc[q] /\ issued'[q] = issued[q] /\ opened'[q] = opened[q]
    BY <1>8 DEF Issue, Goto, TypeOK
  <2>3. QED
    BY <1>1, <2>1, <2>2
<1>9. CASE FetchUnderGrant(r) \/ FetchUnderPolicy(r)
  <2>1. ask[r] \in Requests /\ issued[r] = <<>>
    BY <1>9 DEF FetchUnderGrant, FetchUnderPolicy, Mediated, SlotsOwned, NothingYet, Permitted
  <2>2. Issue(r, ask[r]) /\ UNCHANGED opened
    BY <1>9 DEF FetchUnderGrant, FetchUnderPolicy
  <2>3. QED
    BY <1>8, <2>1, <2>2
<1>10. CASE FollowRedirect(r)
  <2>1. PICK url \in Urls :
           \/ issued' = issued /\ \E entry : Answer(r, entry)
           \/ Issue(r, [url |-> url, method |-> "GET"])
    BY <1>10 DEF FollowRedirect
  <2>2. pc[r] = "fetching" /\ opened' = opened
    BY <1>10 DEF FollowRedirect
  <2>3. CASE issued' = issued /\ \E entry : Answer(r, entry)
    BY <1>2, <2>2, <2>3 DEF Answer, Goto
  <2>4. CASE Issue(r, [url |-> url, method |-> "GET"])
    <3> DEFINE request == [url |-> url, method |-> "GET"]
    <3>1. request \in Requests
      BY SentAreRequests
    <3> HIDE DEF request
    <3>2. Issue(r, request)
      BY <2>4 DEF request
    <3>3. QED
      BY <1>8, <2>2, <3>1, <3>2
  <2>5. QED
    BY <2>1, <2>3, <2>4
<1>11. QED
  BY <1>3, <1>4, <1>5, <1>6, <1>7, <1>9, <1>10, StepsSplit DEF Other

(* The walls do not move. *)
LEMMA WallsStand ==
    ASSUME UNCHANGED server
    PROVE  \A t \in Tools : Ceiling(t)' = Ceiling(t)
  BY DEF Ceiling

LEMMA PermittedStands ==
    ASSUME TypeOK, UNCHANGED <<server, tool, ask>>, NEW r \in Runs
    PROVE  Permitted(tool[r], ask[r])' <=> Permitted(tool[r], ask[r])
  BY WallsStand DEF Permitted, ClearsCeiling, TypeOK

(* Steps that hand out no slot and change no request. *)
SlotsStand == UNCHANGED <<server, tool, ask, handed, slot>>

LEMMA OtherSlotsStand ==
    ASSUME TypeOK, NEW r \in Runs,
           \/ Raising(r) \/ FetchUnderGrant(r) \/ FetchUnderPolicy(r)
           \/ OpenRequest(r) \/ FollowRedirect(r) \/ DeliveryRaises(r)
    PROVE  SlotsStand
  BY DEF SlotsStand, Raising, Refuse, RunRaises, RequestRaises, FetchUnderGrant,
         FetchUnderPolicy, OpenRequest, FollowRedirect, DeliveryRaises,
         Meter!SpendSlot, Answer, meterVars

LEMMA StepSlotsOwned ==
    ASSUME EgressAssumption, TypeOK, NothingYet, SlotsOwned, NEW r \in Runs, Steps(r)
    PROVE  SlotsOwned'
<1>1. CASE SlotsStand
  BY <1>1, PermittedStands DEF SlotsStand, SlotsOwned
<1>2. CASE Answering(r)
  BY <1>1, <1>2, AnsweringShape DEF SlotsStand
<1>3. CASE RunReturns(r)
  <2>1. PICK a \in Asks : ask' = [ask EXCEPT ![r] = a]
    BY <1>3 DEF RunReturns
  <2>2. slot[r] = NoSlot
    BY <1>3 DEF RunReturns, NothingYet
  <2>3. /\ slot' = slot /\ handed' = handed /\ tool' = tool /\ server' = server
        /\ \A q \in Runs \ {r} : ask'[q] = ask[q]
    BY <1>3, <2>1 DEF RunReturns, meterVars, TypeOK
  <2>4. ASSUME NEW q \in Runs \ {r}, Permitted(tool[q], ask[q])
        PROVE  Permitted(tool[q], ask[q])'
    BY <2>3, <2>4, WallsStand DEF Permitted, ClearsCeiling, TypeOK
  <2>5. QED
    BY <2>2, <2>3, <2>4 DEF SlotsOwned
<1>4. CASE Charge(r)
  <2>1. PICK n \in Slots[tool[r]] :
           /\ <<tool[r], n>> \notin handed
           /\ handed' = handed \cup {<<tool[r], n>>}
           /\ slot' = [slot EXCEPT ![r] = <<tool[r], n>>]
    BY <1>4 DEF Charge, Meter!HandSlot
  <2>2. UNCHANGED <<server, tool, ask>> /\ Permitted(tool[r], ask[r])
    BY <1>4 DEF Charge
  <2>3. \A q \in Runs : Permitted(tool[q], ask[q])' <=> Permitted(tool[q], ask[q])
    BY <2>2, PermittedStands
  <2>4. \A q \in Runs : slot[q] # NoSlot => slot[q] \in handed
    BY DEF SlotsOwned
  <2>5. /\ slot'[r] = <<tool[r], n>>
        /\ \A q \in Runs \ {r} : slot'[q] = slot[q]
    BY <2>1 DEF TypeOK
  <2>6. <<tool[r], n>> # NoSlot
    BY <1>4, <2>1 DEF Charge, EgressAssumption
  <2>7. \A q \in Runs \ {r} : slot[q] # <<tool[r], n>>
    BY <2>1, <2>4, <2>6
  <2>8. <<tool[r], n>>[1] = tool[r]
    OBVIOUS
  <2>9. QED
    BY <2>1, <2>2, <2>3, <2>5, <2>7, <2>8 DEF SlotsOwned
<1>5. QED
  BY <1>1, <1>2, <1>3, <1>4, StepsSplit, OtherSlotsStand DEF Other

LEMMA StepSlotsTraced ==
    ASSUME EgressAssumption, TypeOK, NothingYet, SlotsTraced, NEW r \in Runs, Steps(r)
    PROVE  SlotsTraced'
<1>1. CASE handed' = handed /\ slot' = slot
  BY <1>1 DEF SlotsTraced
<1>2. CASE Answering(r)
  BY <1>1, <1>2, AnsweringShape
<1>3. CASE RunReturns(r)
  BY <1>1, <1>3 DEF RunReturns, meterVars
<1>4. CASE Charge(r)
  <2>1. PICK n \in Slots[tool[r]] :
           /\ handed' = handed \cup {<<tool[r], n>>}
           /\ slot' = [slot EXCEPT ![r] = <<tool[r], n>>]
    BY <1>4 DEF Charge, Meter!HandSlot
  <2>2. slot[r] = NoSlot
    BY <1>4 DEF Charge, Mediated, NothingYet
  <2>3. \A b \in handed : b # NoSlot
    BY DEF TypeOK, EgressAssumption
  <2>4. /\ slot'[r] = <<tool[r], n>>
        /\ \A q \in Runs \ {r} : slot'[q] = slot[q]
    BY <2>1 DEF TypeOK
  <2>5. QED
    BY <2>1, <2>2, <2>3, <2>4 DEF SlotsTraced
<1>5. QED
  BY <1>1, <1>2, <1>3, <1>4, StepsSplit, OtherSlotsStand DEF Other, SlotsStand

(***************************************************************************)
(* Whoever has sent something was charged first.                           *)
(***************************************************************************)
LEMMA StepPaid ==
    ASSUME EgressAssumption, TypeOK, NothingYet, SlotsOwned, SlotsOwned', EveryFetchPaid,
           NEW r \in Runs, Steps(r)
    PROVE  EveryFetchPaid'
<1> USE DEF EveryFetchPaid
<1>1. CASE /\ UNCHANGED <<strict, tool, slot, issued>>
           /\ fetched' = fetched
  BY <1>1
<1>2. CASE Answering(r)
  BY <1>1, <1>2, AnsweringShape
<1>3. CASE Raising(r) \/ RunReturns(r) \/ OpenRequest(r) \/ DeliveryRaises(r)
  BY <1>1, <1>3, RaisingShape DEF RunReturns, OpenRequest, DeliveryRaises, meterVars,
     fetchVars
<1>4. CASE Charge(r)
  <2>1. PICK n \in Slots[tool[r]] : slot' = [slot EXCEPT ![r] = <<tool[r], n>>]
    BY <1>4 DEF Charge
  <2>2. issued[r] = <<>> /\ UNCHANGED <<strict, tool, issued, fetched>>
    BY <1>4 DEF Charge, Mediated, NothingYet, Meter!HandSlot, fetchVars
  <2>3. ASSUME NEW q \in Runs, issued[q] # <<>>, tool[q] \in Granted \/ strict
        PROVE  /\ slot'[q] \in fetched
               /\ slot'[q][1] = tool[q]
               /\ \A p \in Runs \ {q} : slot'[p] # slot'[q]
    <3>1. q # r /\ slot'[q] = slot[q]
      BY <2>1, <2>2, <2>3 DEF TypeOK
    <3>2. slot[q] \in fetched /\ slot[q][1] = tool[q]
      BY <2>3
    <3>3. slot'[q] # NoSlot
      BY <3>1, <3>2 DEF TypeOK, EgressAssumption
    <3>4. QED
      BY <3>1, <3>2, <3>3 DEF SlotsOwned
  <2>4. QED
    BY <2>2, <2>3
<1>5. CASE FetchUnderGrant(r)
  <2>1. /\ slot[r] \in fetched' /\ fetched \subseteq fetched'
        /\ slot[r] # NoSlot
        /\ UNCHANGED <<strict, tool, slot>>
    BY <1>5 DEF FetchUnderGrant, Meter!SpendSlot, NothingYet
  <2>2. \A q \in Runs \ {r} : issued'[q] = issued[q]
    BY <1>5 DEF FetchUnderGrant, Issue, TypeOK
  <2>3. /\ slot[r][1] = tool[r]
        /\ \A q \in Runs \ {r} : slot[q] # slot[r]
    BY <2>1 DEF SlotsOwned
  <2>4. QED
    BY <2>1, <2>2, <2>3
<1>6. CASE FetchUnderPolicy(r)
  <2>1. /\ tool[r] \notin Granted /\ ~strict
        /\ UNCHANGED <<strict, tool, slot, fetched>>
    BY <1>6 DEF FetchUnderPolicy, Mediated, LacksGrant, meterVars
  <2>2. \A q \in Runs \ {r} : issued'[q] = issued[q]
    BY <1>6 DEF FetchUnderPolicy, Issue, TypeOK
  <2>3. QED
    BY <2>1, <2>2
<1>7. CASE FollowRedirect(r)
  <2>1. UNCHANGED <<strict, tool, slot, fetched>> /\ issued[r] # <<>>
    BY <1>7 DEF FollowRedirect, Answer, meterVars, NothingYet
  <2>2. \A q \in Runs \ {r} : issued'[q] = issued[q]
    BY <1>7 DEF FollowRedirect, Issue, TypeOK
  <2>3. QED
    BY <2>1, <2>2
<1>8. QED
  BY <1>2, <1>3, <1>4, <1>5, <1>6, <1>7, StepsSplit DEF Other

(***************************************************************************)
(* What is sent lies within the walls: the first request was permitted,    *)
(* a redirect is sent only when the handler admits it.                     *)
(***************************************************************************)
Within(t, s) ==
    \A i \in DOMAIN s :
        /\ \A p \in {Policy(t)} \cup Ceiling(t) : s[i].url \in p.urls
        /\ SchemeOf[s[i].url] = SchemeOf[s[1].url]

LEMMA WithinAppend ==
    ASSUME TypeOK, NEW t \in Tools, NEW s \in Seq(Requests), NEW request \in Requests,
           Within(t, s),
           \A p \in {Policy(t)} \cup Ceiling(t) : request.url \in p.urls,
           s # <<>> => SchemeOf[request.url] = SchemeOf[Last(s).url]
    PROVE  Within(t, Append(s, request))
<1> DEFINE n == Len(s)
           e == Append(s, request)
<1>1. /\ n \in Nat /\ DOMAIN s = 1..n /\ DOMAIN e = 1..(n + 1)
      /\ \A i \in 1..n : e[i] = s[i]
      /\ e[n + 1] = request
  OBVIOUS
<1>2. CASE n = 0
  BY <1>1, <1>2 DEF Within
<1>3. CASE n >= 1
  <2>1. s # <<>> /\ n \in 1..n /\ 1 \in 1..n
    BY <1>1, <1>3
  <2>2. SchemeOf[request.url] = SchemeOf[s[1].url] /\ e[1] = s[1]
    BY <1>1, <2>1 DEF Within, Last
  <2>3. ASSUME NEW i \in 1..(n + 1)
        PROVE  /\ \A p \in {Policy(t)} \cup Ceiling(t) : e[i].url \in p.urls
               /\ SchemeOf[e[i].url] = SchemeOf[e[1].url]
    <3>1. CASE i = n + 1
      BY <3>1, <1>1, <2>2
    <3>2. CASE i \in 1..n
      BY <3>2, <1>1, <2>2 DEF Within
    <3>3. QED
      BY <3>1, <3>2, <1>1
  <2>4. QED
    BY <1>1, <2>3 DEF Within
<1>4. QED
  BY <1>1, <1>2, <1>3

LEMMA HopsAreWithin ==
    HopsInsideAuthority <=> \A r \in Runs : Within(tool[r], issued[r])
  BY DEF HopsInsideAuthority, Within

(* One more request within the walls, sent for one run. *)
LEMMA StepSends ==
    ASSUME TypeOK, NEW r \in Runs, NEW request \in Requests,
           UNCHANGED <<server, tool>>, Issue(r, request),
           HopsInsideAuthority,
           \A p \in {Policy(tool[r])} \cup Ceiling(tool[r]) : request.url \in p.urls,
           issued[r] # <<>> =>
              SchemeOf[request.url] = SchemeOf[Last(issued[r]).url]
    PROVE  HopsInsideAuthority'
<1>1. tool[r] \in Tools /\ issued[r] \in Seq(Requests)
  BY DEF TypeOK
<1>2. Within(tool[r], issued[r])
  BY HopsAreWithin
<1>3. Within(tool[r], Append(issued[r], request))
  BY <1>1, <1>2, WithinAppend
<1>4. /\ issued'[r] = Append(issued[r], request)
      /\ \A q \in Runs \ {r} : issued'[q] = issued[q]
  BY DEF Issue, TypeOK
<1>5. \A q \in Runs : Within(tool[q], issued'[q])
  BY <1>2, <1>3, <1>4, HopsAreWithin
<1>6. \A q \in Runs : Ceiling(tool[q])' = Ceiling(tool[q])
  BY WallsStand DEF TypeOK
<1>7. QED
  BY <1>5, <1>6 DEF HopsInsideAuthority, Within

LEMMA StepAuthority ==
    ASSUME EgressAssumption, TypeOK, NothingYet, SlotsOwned, HopsInsideAuthority,
           NEW r \in Runs, Steps(r)
    PROVE  HopsInsideAuthority'
<1>1. CASE UNCHANGED <<server, tool, issued>>
  BY <1>1, WallsStand DEF HopsInsideAuthority, TypeOK
<1>2. CASE Answering(r)
  BY <1>1, <1>2, AnsweringShape
<1>3. CASE \/ Raising(r) \/ RunReturns(r) \/ Charge(r)
           \/ OpenRequest(r) \/ DeliveryRaises(r)
  BY <1>1, <1>3, RaisingShape DEF RunReturns, Charge, OpenRequest, DeliveryRaises, fetchVars
<1>4. CASE FetchUnderGrant(r) \/ FetchUnderPolicy(r)
  <2>1. Permitted(tool[r], ask[r]) /\ issued[r] = <<>>
    BY <1>4 DEF FetchUnderGrant, FetchUnderPolicy, Mediated, NothingYet, SlotsOwned
  <2>2. /\ ask[r] \in Requests
        /\ \A p \in {Policy(tool[r])} \cup Ceiling(tool[r]) : ask[r].url \in p.urls
    BY <2>1 DEF Permitted, ClearsCeiling, Admits
  <2>3. Issue(r, ask[r]) /\ UNCHANGED <<server, tool>>
    BY <1>4 DEF FetchUnderGrant, FetchUnderPolicy
  <2>4. QED
    BY <2>1, <2>2, <2>3, StepSends
<1>5. CASE FollowRedirect(r)
  <2>1. PICK url \in Urls :
           /\ ~HopRefused(r, url)
           /\ \/ Answer(r, FetchFailed(Append(followed[r], url))) /\ issued' = issued
              \/ /\ Issue(r, [url |-> url, method |-> "GET"])
                 /\ UNCHANGED <<server, tool>>
    BY <1>5 DEF FollowRedirect
  <2>2. CASE Answer(r, FetchFailed(Append(followed[r], url))) /\ issued' = issued
    BY <1>1, <2>2 DEF Answer
  <2>3. CASE /\ Issue(r, [url |-> url, method |-> "GET"])
             /\ UNCHANGED <<server, tool>>
    <3> DEFINE request == [url |-> url, method |-> "GET"]
    <3>1. request \in Requests /\ request.url = url
      BY SentAreRequests
    <3>2. \A p \in {Policy(tool[r])} \cup Ceiling(tool[r]) : url \in p.urls
      BY <2>1 DEF HopRefused, OffPolicy, OffCeiling
    <3>3. SchemeOf[url] = SchemeOf[Last(issued[r]).url]
      BY <2>1 DEF HopRefused
    <3> HIDE DEF request
    <3>4. Issue(r, request) /\ UNCHANGED <<server, tool>>
      BY <2>3 DEF request
    <3>5. QED
      BY <3>1, <3>2, <3>3, <3>4, StepSends
  <2>4. QED
    BY <2>1, <2>2, <2>3
<1>6. QED
  BY <1>2, <1>3, <1>4, <1>5, StepsSplit DEF Other

(***************************************************************************)
(* The trail is true: the handler refuses on the stdlib's behalf, so what  *)
(* it records as followed is issued, and only the last of it is unopened.  *)
(***************************************************************************)
LEMMA AllowedEntries ==
    ASSUME NEW hops
    PROVE  /\ NoAudit.decision = "none"
           /\ \A limit : Denied(limit, hops).decision = "denied"
           /\ FetchFailed(hops).hops = hops
           /\ \A bytes, cut : Delivered(hops, bytes, cut).hops = hops
  BY DEF NoAudit, Denied, FetchFailed, Delivered

(* An entry other than Deliver's fetched nothing. *)
LEMMA UnfetchedEntries ==
    /\ ~NoAudit.fetched
    /\ \A limit, hops : ~Denied(limit, hops).fetched
    /\ \A hops : ~FetchFailed(hops).fetched
  BY DEF NoAudit, Denied, FetchFailed

(* What an entry that says "allowed" tells of one run.                     *)
Truthful(r) ==
    audit[r].decision = "allowed" =>
        /\ audit[r].hops = Redirected(issued[r])
        /\ opened[r] + 1 >= Len(issued[r])
        /\ audit[r].fetched => opened[r] = Len(issued[r])

LEMMA AnsweringTrue ==
    ASSUME EgressAssumption, TypeOK, TrailTrue, OpenedInOrder, NEW r \in Runs,
           Answering(r)
    PROVE  Truthful(r)'
<1> DEFINE entry == audit'[r]
           count == Len(issued[r])
<1>1. \A e : Answer(r, e) => entry = e
  BY DEF Answer, TypeOK
<1>2. /\ pc[r] # "done" => followed[r] = Redirected(issued[r])
      /\ count \in Nat /\ opened[r] \in Nat
  BY DEF TrailTrue, TypeOK
<1>3. issued'[r] = issued[r] /\ opened'[r] = opened[r]
  BY AnsweringShape
<1> HIDE DEF entry
<1>4. SUFFICES \/ entry.decision # "allowed"
               \/ /\ entry.hops = Redirected(issued[r])
                  /\ opened[r] + 1 >= count
                  /\ entry.fetched => opened[r] = count
  BY <1>3 DEF Truthful, entry
<1>5. CASE StayQuiet(r)
  BY <1>1, <1>5, AllowedEntries DEF StayQuiet
<1>6. CASE DenyUngranted(r) \/ DenyRequest(r) \/ DenyByCeiling(r) \/ DenyByBook(r)
  <2>1. PICK limit, hops : Answer(r, Denied(limit, hops))
    BY <1>6 DEF DenyUngranted, DenyRequest, DenyByCeiling, DenyByBook
  <2>2. Denied(limit, hops).decision = "denied"
    BY DEF Denied, NoAudit
  <2>3. QED
    BY <1>1, <2>1, <2>2
<1>7. CASE RefuseRedirect(r) \/ RefuseFetch(r)
  <2>1. PICK limit, hops : Answer(r, Denied(limit, hops))
    BY <1>7 DEF RefuseRedirect, RefuseFetch
  <2>2. Denied(limit, hops).decision = "denied"
    BY DEF Denied, NoAudit
  <2>3. QED
    BY <1>1, <2>1, <2>2
<1>8. CASE FailFetch(r)
  <2>1. entry = FetchFailed(followed[r]) /\ pc[r] \in {"opening", "fetching"}
    BY <1>1, <1>8 DEF FailFetch
  <2>2. entry.hops = followed[r] /\ ~entry.fetched
    BY <2>1, AllowedEntries, UnfetchedEntries
  <2>3. count = opened[r] + 1 \/ count = opened[r]
    BY <2>1 DEF OpenedInOrder
  <2>4. opened[r] + 1 >= count
    BY <1>2, <2>3
  <2>5. QED
    BY <1>2, <2>1, <2>2, <2>4
<1>9. CASE Deliver(r)
  <2>1. PICK bytes, cut : Answer(r, Delivered(followed[r], bytes, cut))
    BY <1>9 DEF Deliver
  <2>2. entry.hops = followed[r] /\ pc[r] = "fetching"
    BY <1>1, <1>9, <2>1, AllowedEntries DEF Deliver
  <2>3. count = opened[r]
    BY <2>2 DEF OpenedInOrder
  <2>4. opened[r] + 1 >= count
    BY <1>2, <2>3
  <2>5. QED
    BY <1>2, <2>2, <2>3, <2>4
<1>10. QED
  BY <1>5, <1>6, <1>7, <1>8, <1>9 DEF Answering

(* While a run is not done its trail is what it sent; redirects extend both. *)
LEMMA StepTrail ==
    ASSUME EgressAssumption, TypeOK, NothingYet, SlotsOwned, OpenedInOrder, TrailTrue,
           AuditTellsHops, NEW r \in Runs, Steps(r)
    PROVE  TrailTrue' /\ AuditTellsHops'
<1>1. ASSUME UNCHANGED <<followed, issued, opened, audit>>,
             \A q \in Runs : pc[q] = "done" => pc'[q] = "done"
      PROVE  TrailTrue' /\ AuditTellsHops'
  BY <1>1 DEF TrailTrue, AuditTellsHops
<1>1a. ASSUME NEW q \in Runs, pc[q] # "done", audit'[q] = audit[q]
       PROVE  Truthful(q)'
  <2>1. audit[q].decision = "none"
    BY <1>1a, AllowedEntries DEF TrailTrue
  <2>2. QED
    BY <1>1a, <2>1 DEF Truthful
<1>1b. ASSUME Truthful(r)',
              \A q \in Runs \ {r} : UNCHANGED <<audit[q], issued[q], opened[q]>>
       PROVE  AuditTellsHops'
  BY <1>1b DEF AuditTellsHops, Truthful
<1>2. CASE Answering(r)
  <2>1. /\ UNCHANGED <<followed, issued, opened>>
        /\ pc'[r] = "done"
        /\ \A q \in Runs \ {r} : pc'[q] = pc[q] /\ audit'[q] = audit[q]
    BY <1>2, AnsweringShape DEF TypeOK
  <2>2. Truthful(r)'
    BY <1>2, AnsweringTrue
  <2>3. TrailTrue'
    BY <2>1 DEF TrailTrue
  <2>4. QED
    BY <1>1b, <2>1, <2>2, <2>3
<1>3. CASE Raising(r) \/ RunReturns(r) \/ Charge(r)
  BY <1>1, <1>3, RaisingShape DEF RunReturns, Charge, Mediated, Goto, fetchVars, TypeOK
<1>7. CASE DeliveryRaises(r)
  BY <1>1, <1>7, DeliveryRaisesShape DEF TypeOK
<1>8. CASE OpenRequest(r)
  <2>1. /\ UNCHANGED <<followed, issued, audit>>
        /\ pc[r] # "done" /\ pc'[r] # "done"
        /\ \A q \in Runs \ {r} : pc'[q] = pc[q] /\ opened'[q] = opened[q]
    BY <1>8, OpenRequestShape DEF TypeOK
  <2>2. TrailTrue'
    BY <2>1 DEF TrailTrue
  <2>3. Truthful(r)'
    BY <1>1a, <2>1
  <2>4. QED
    BY <1>1b, <2>1, <2>2, <2>3
<1>4. CASE FetchUnderGrant(r) \/ FetchUnderPolicy(r)
  <2>1. /\ issued[r] = <<>> /\ pc[r] # "done" /\ ask[r] \in Requests
    BY <1>4 DEF FetchUnderGrant, FetchUnderPolicy, Mediated, NothingYet, SlotsOwned, Permitted
  <2>2. /\ UNCHANGED <<followed, audit, opened>>
        /\ issued'[r] = Append(<<>>, ask[r])
        /\ \A q \in Runs \ {r} : pc'[q] = pc[q] /\ issued'[q] = issued[q]
    BY <1>4, <2>1 DEF FetchUnderGrant, FetchUnderPolicy, Goto, Issue, TypeOK
  <2>3. Redirected(issued[r]) = <<>>
    <3>1. <<>> \in Seq(Requests) /\ Len(<<>>) <= 1
      OBVIOUS
    <3>2. QED
      BY <2>1, <3>1, NothingRedirected
  <2>4. Redirected(issued'[r]) = <<>>
    <3>1. Append(<<>>, ask[r]) \in Seq(Requests) /\ Len(Append(<<>>, ask[r])) <= 1
      BY <2>1
    <3>2. QED
      BY <2>2, <3>1, NothingRedirected
  <2>5. Truthful(r)'
    BY <1>1a, <2>1, <2>2
  <2>6. TrailTrue'
    BY <2>1, <2>2, <2>3, <2>4 DEF TrailTrue
  <2>7. QED
    BY <1>1b, <2>2, <2>5, <2>6
<1>5. CASE FollowRedirect(r)
  <2> DEFINE sofar == Redirected(issued[r])
  <2>1. PICK url \in Urls :
           /\ ~HopRefused(r, url)
           /\ followed' = [followed EXCEPT ![r] = Append(followed[r], url)]
           /\ ~StdlibStops(sofar, url) =>
                  /\ Issue(r, [url |-> url, method |-> "GET"])
                  /\ UNCHANGED <<audit, opened>>
    BY <1>5 DEF FollowRedirect
  <2>2. ~StdlibStops(sofar, url)
    BY <2>1 DEF HopRefused, LoopLimit, StdlibStops
  <2>3. /\ followed'[r] = Append(followed[r], url)
        /\ issued'[r] = Append(issued[r], [url |-> url, method |-> "GET"])
        /\ UNCHANGED <<audit, opened>>
        /\ \A q \in Runs \ {r} :
              UNCHANGED <<pc[q], followed[q], issued[q]>>
    BY <2>1, <2>2 DEF Issue, Goto, TypeOK
  <2>4. /\ pc[r] = "fetching" /\ issued[r] # <<>>
        /\ issued[r] \in Seq(Requests) /\ followed[r] = sofar
    BY <1>5 DEF FollowRedirect, NothingYet, TypeOK, TrailTrue
  <2>5. Redirected(issued'[r]) = Append(sofar, url)
    <3>1. [url |-> url, method |-> "GET"] \in Requests
      BY SentAreRequests
    <3>2. QED
      BY <2>3, <2>4, <3>1, RedirectedAppend
  <2>6. Truthful(r)'
    BY <1>1a, <2>3, <2>4
  <2>7. TrailTrue'
    BY <2>3, <2>4, <2>5 DEF TrailTrue
  <2>8. QED
    BY <1>1b, <2>3, <2>6, <2>7
<1>6. QED
  BY <1>2, <1>3, <1>4, <1>5, <1>7, <1>8, StepsSplit DEF Other

(* What is told of a body that was received up to the limit. *)
LEMMA ReceivedTold ==
    ASSUME NEW size \in Nat, NEW limit \in Nat
    PROVE  LET total == Received(size, limit)
               bytes == IF total > limit THEN limit ELSE total
           IN  bytes <= limit /\ (total > limit <=> bytes < size)
  BY DEF Received

(* An entry other than NoAudit decides. *)
LEMMA DecidedEntries ==
    /\ \A limit, hops : Denied(limit, hops).decision = "denied"
    /\ \A hops : FetchFailed(hops).decision = "allowed"
    /\ \A hops, bytes, cut : Delivered(hops, bytes, cut).decision = "allowed"
<1>1. \A limit, hops : Denied(limit, hops).decision = "denied"
  BY DEF NoAudit, Denied
<1>2. \A hops : FetchFailed(hops).decision = "allowed"
  BY DEF NoAudit, FetchFailed
<1>3. \A hops, bytes, cut : Delivered(hops, bytes, cut).decision = "allowed"
  BY DEF Delivered
<1>4. QED
  BY <1>1, <1>2, <1>3

(* The lengths one run tells of. *)
Told(r) ==
    audit[r].fetched =>
        /\ \A p \in {Policy(tool[r])} \cup Ceiling(tool[r]) : audit[r].bytes <= p.bytes
        /\ audit[r].truncated <=> audit[r].bytes < sent[r]

LEMMA DeliverTold ==
    ASSUME EgressAssumption, TypeOK, NEW r \in Runs, Deliver(r)
    PROVE  Told(r)' /\ \A q \in Runs \ {r} : sent'[q] = sent[q]
<1> DEFINE limit == ByteLimit(tool[r])
           total(size) == Received(size, limit)
           bytes(size) == IF total(size) > limit THEN limit ELSE total(size)
           cut(size) == total(size) > limit
<1>1. limit \in Nat /\ \A p \in {Policy(tool[r])} \cup Ceiling(tool[r]) : limit <= p.bytes
  BY ByteLimitType DEF TypeOK
<1>2. \A p \in {Policy(tool[r])} \cup Ceiling(tool[r]) : p.bytes \in Nat
  BY DEF TypeOK, EgressAssumption, Policy, Ceiling, Policies
<1>3. PICK size \in 0..MaxBody :
         /\ sent' = [sent EXCEPT ![r] = size]
         /\ Answer(r, Delivered(followed[r], bytes(size), cut(size)))
  BY DEF Deliver
<1> HIDE DEF limit
<1>4. size \in Nat
  BY <1>3 DEF EgressAssumption
<1>5. /\ bytes(size) \in Nat /\ bytes(size) <= limit
      /\ cut(size) <=> bytes(size) < size
  BY <1>1, <1>4 DEF Received
<1> HIDE DEF total, bytes, cut
<1>6. audit'[r] = Delivered(followed[r], bytes(size), cut(size))
  BY <1>3 DEF Answer, TypeOK
<1>7. audit'[r].bytes = bytes(size) /\ audit'[r].truncated = cut(size)
  BY <1>6 DEF Delivered
<1>8. sent'[r] = size /\ \A q \in Runs \ {r} : sent'[q] = sent[q]
  BY <1>3 DEF TypeOK
<1>9. UNCHANGED <<server, tool>>
  BY <1>3 DEF Answer
<1>10. \A p \in {Policy(tool[r])} \cup Ceiling(tool[r]) : audit'[r].bytes <= p.bytes
  BY <1>1, <1>2, <1>5, <1>7
<1>11. QED
  BY <1>5, <1>7, <1>8, <1>9, <1>10 DEF Told, Ceiling

(* The handler refuses a hop before the stdlib would: following one answers *)
(* nothing.                                                                 *)
LEMMA FollowingStands ==
    ASSUME NEW r \in Runs, FollowRedirect(r)
    PROVE  /\ UNCHANGED <<server, strict, tool, ask, audit, sent, slot, fetched, opened>>
           /\ pc' = [pc EXCEPT ![r] = "opening"]
           /\ \E request : issued' = [issued EXCEPT ![r] = Append(issued[r], request)]
<1>1. PICK url \in Urls :
         /\ ~HopRefused(r, url)
         /\ ~StdlibStops(Redirected(issued[r]), url) =>
               /\ UNCHANGED <<server, strict, tool, ask, audit>>
               /\ Issue(r, [url |-> url, method |-> "GET"])
  BY DEF FollowRedirect
<1>2. ~StdlibStops(Redirected(issued[r]), url)
  BY <1>1 DEF HopRefused, LoopLimit, StdlibStops
<1>3. QED
  BY <1>1, <1>2 DEF FollowRedirect, Issue, Goto, meterVars

(* Only Deliver says that something was fetched. *)
LEMMA StepTruncation ==
    ASSUME EgressAssumption, TypeOK, TrailTrue, TruncationTold, NEW r \in Runs, Steps(r)
    PROVE  TruncationTold'
<1>1. ASSUME UNCHANGED <<server, tool>>, Told(r)',
             \A q \in Runs \ {r} : audit'[q] = audit[q] /\ sent'[q] = sent[q]
      PROVE  TruncationTold'
  <2>1. ASSUME NEW q \in Runs PROVE Told(q)'
    <3>1. CASE q = r
      BY <1>1, <3>1
    <3>2. CASE q # r
      BY <1>1, <3>2 DEF TruncationTold, Told, Ceiling
    <3>3. QED
      BY <3>1, <3>2
  <2>2. QED
    BY <2>1 DEF TruncationTold, Told
<1>2. CASE Deliver(r)
  <2>1. UNCHANGED <<server, tool>> /\ \A q \in Runs \ {r} : audit'[q] = audit[q]
    <3>1. /\ UNCHANGED <<server, tool>>
          /\ \E entry : audit' = [audit EXCEPT ![r] = entry]
      BY <1>2, AnsweringShape DEF Answering
    <3>2. QED
      BY <3>1 DEF TypeOK
  <2>2. QED
    BY <1>1, <1>2, <2>1, DeliverTold
<1>3. CASE Answering(r) /\ ~Deliver(r)
  <2>1. UNCHANGED <<server, tool>> /\ \A q \in Runs \ {r} : audit'[q] = audit[q]
    <3>1. /\ UNCHANGED <<server, tool>>
          /\ \E entry : audit' = [audit EXCEPT ![r] = entry]
      BY <1>3, AnsweringShape
    <3>2. QED
      BY <3>1 DEF TypeOK
  <2>2. \A entry : Answer(r, entry) => audit'[r] = entry
    BY DEF Answer, TypeOK
  <2>3. sent' = sent
    BY <1>3 DEF Answering, StayQuiet, DenyUngranted, DenyRequest, DenyByCeiling,
           DenyByBook, RefuseRedirect, RefuseFetch, FailFetch
  <2>4. ~audit'[r].fetched
    BY <1>3, <2>2, UnfetchedEntries
    DEF Answering, StayQuiet, DenyUngranted, DenyRequest, DenyByCeiling,
        DenyByBook, RefuseRedirect, RefuseFetch, FailFetch
  <2>5. QED
    BY <1>1, <2>1, <2>3, <2>4 DEF Told
<1>4. CASE FollowRedirect(r)
  BY <1>1, <1>4, FollowingStands DEF TruncationTold, Told, Ceiling
<1>5. CASE Other(r) /\ ~FollowRedirect(r) /\ ~DeliveryRaises(r)
  <2>1. UNCHANGED <<server, tool, audit, sent>>
    BY <1>5, RaisingShape DEF Other, RunReturns, Charge, FetchUnderGrant,
           FetchUnderPolicy, OpenRequest, fetchVars
  <2>2. QED
    BY <1>1, <2>1 DEF TruncationTold, Told, Ceiling
<1>6. CASE DeliveryRaises(r)
  <2>1. /\ UNCHANGED <<server, tool, audit>> /\ pc[r] = "fetching"
        /\ \E size : sent' = [sent EXCEPT ![r] = size]
    BY <1>6, DeliveryRaisesShape
  <2>2. ~audit'[r].fetched
    BY <2>1, UnfetchedEntries DEF TrailTrue
  <2>3. \A q \in Runs \ {r} : sent'[q] = sent[q]
    BY <2>1 DEF TypeOK
  <2>4. QED
    BY <1>1, <2>1, <2>2, <2>3 DEF Told
<1>7. QED
  BY <1>2, <1>3, <1>4, <1>5, <1>6, StepsSplit

(***************************************************************************)
(* No silent drop: a run that passed the isolation check and was quiet had *)
(* nothing to answer.                                                      *)
(***************************************************************************)
LEMMA PlacesAndWalls ==
    ASSUME EgressAssumption, TypeOK, NEW r \in Runs, Steps(r)
    PROVE  /\ UNCHANGED <<server, strict, tool>>
           /\ \A q \in Runs \ {r} : pc'[q] = pc[q]
<1>1. CASE Answering(r)
  <2>1. UNCHANGED <<server, strict, tool>> /\ pc' = [pc EXCEPT ![r] = "done"]
    BY <1>1, AnsweringShape
  <2>2. QED
    BY <2>1 DEF TypeOK
<1>2. CASE Raising(r)
  <2>1. UNCHANGED <<server, strict, tool>> /\ pc' = [pc EXCEPT ![r] = "raised"]
    BY <1>2, RaisingShape
  <2>2. QED
    BY <2>1 DEF TypeOK
<1>3. CASE RunReturns(r) \/ Charge(r) \/ FetchUnderGrant(r) \/ FetchUnderPolicy(r)
  BY <1>3 DEF RunReturns, Charge, FetchUnderGrant, FetchUnderPolicy, Issue, Goto, TypeOK
<1>4. CASE OpenRequest(r)
  <2>1. UNCHANGED <<server, strict, tool>> /\ pc' = [pc EXCEPT ![r] = "fetching"]
    BY <1>4, OpenRequestShape
  <2>2. QED
    BY <2>1 DEF TypeOK
<1>5. CASE DeliveryRaises(r)
  <2>1. UNCHANGED <<server, strict, tool>> /\ pc' = [pc EXCEPT ![r] = "raised"]
    BY <1>5, DeliveryRaisesShape
  <2>2. QED
    BY <2>1 DEF TypeOK
<1>6. CASE FollowRedirect(r)
  <2>1. UNCHANGED <<server, strict, tool>> /\ pc' = [pc EXCEPT ![r] = "opening"]
    BY <1>6, FollowingStands
  <2>2. QED
    BY <2>1 DEF TypeOK
<1>7. QED
  BY <1>1, <1>2, <1>3, <1>4, <1>5, <1>6, StepsSplit DEF Other

LEMMA StepConflicts ==
    ASSUME EgressAssumption, TypeOK, ConflictsRefused, NEW r \in Runs, Steps(r)
    PROVE  ConflictsRefused'
<1>1. \A q \in Runs : IsolationConflict(tool[q])' <=> IsolationConflict(tool[q])
  BY PlacesAndWalls DEF IsolationConflict, Isolated, HasPolicy
<1>2. \A q \in Runs \ {r} : pc'[q] = pc[q]
  BY PlacesAndWalls
<1>3. \/ pc[r] \notin {"new", "raised"}
      \/ ~IsolationConflict(tool[r])
      \/ pc'[r] = "raised"
  <2>1. CASE Raising(r)
    BY <2>1, RaisingShape DEF TypeOK
  <2>2. CASE Answering(r)
    BY <2>2, AnsweringShape
  <2>3. CASE ~Raising(r) /\ ~Answering(r)
    BY <2>3, StepsSplit DEF Other, RunReturns, Charge, FetchUnderGrant, FetchUnderPolicy,
       Mediated, OpenRequest, FollowRedirect, DeliveryRaises
  <2>4. QED
    BY <2>1, <2>2, <2>3
<1>4. QED
  BY <1>1, <1>2, <1>3 DEF ConflictsRefused

(* One run: if it ended unaudited, how it did.                             *)
Unaudited(r) ==
    /\ pc[r] \in {"done", "raised"}
    /\ ask[r] # Silent
    /\ HasSurface(r)
    /\ audit[r].decision = "none"

LeftBy(r) ==
    /\ pc[r] = "raised"
    /\ \/ ask[r] = Nested /\ slot[r] = NoSlot /\ issued[r] = <<>>
       \/ /\ issued[r] # <<>> /\ opened[r] = Len(issued[r])
          /\ sent[r] > 0
          /\ tool[r] \in Granted => slot[r] \in fetched

LEMMA AnsweredEach ==
    EveryAskAnswered <=> \A r \in Runs : Unaudited(r) => LeftBy(r)
  BY DEF EveryAskAnswered, Unaudited, LeftBy

(* What a step leaves alone of the other runs.                             *)
OthersStand(r) ==
    \A q \in Runs \ {r} :
        UNCHANGED <<pc[q], ask[q], audit[q], slot[q], issued[q], opened[q], sent[q]>>

LEMMA StepOthers ==
    ASSUME EgressAssumption, TypeOK, NEW r \in Runs, Steps(r)
    PROVE  OthersStand(r) /\ fetched \subseteq fetched'
<1> USE DEF OthersStand
<1>1. CASE Answering(r)
  <2>1. sent' = sent \/ Deliver(r)
    BY <1>1 DEF Answering, StayQuiet, DenyUngranted, DenyRequest, DenyByCeiling,
       DenyByBook, RefuseRedirect, RefuseFetch, FailFetch
  <2>2. \A q \in Runs \ {r} : sent'[q] = sent[q]
    BY <2>1, DeliverTold
  <2>3. /\ pc' = [pc EXCEPT ![r] = "done"]
        /\ UNCHANGED <<ask, slot, issued, opened, fetched>>
        /\ \E entry : audit' = [audit EXCEPT ![r] = entry]
    BY <1>1, AnsweringShape
  <2>4. \A q \in Runs \ {r} : pc'[q] = pc[q] /\ audit'[q] = audit[q]
    BY <2>3 DEF TypeOK
  <2>5. QED
    BY <2>2, <2>3, <2>4
<1>2. CASE Raising(r)
  <2>1. /\ pc' = [pc EXCEPT ![r] = "raised"]
        /\ UNCHANGED <<ask, audit, slot, issued, opened, sent, fetched>>
    BY <1>2, RaisingShape DEF meterVars, fetchVars
  <2>2. \A q \in Runs \ {r} : pc'[q] = pc[q]
    BY <2>1 DEF TypeOK
  <2>3. QED
    BY <2>1, <2>2
<1>3. CASE RunReturns(r) \/ Charge(r)
  BY <1>3 DEF RunReturns, Charge, Meter!HandSlot, Goto, TypeOK, meterVars, fetchVars
<1>4. CASE FetchUnderGrant(r) \/ FetchUnderPolicy(r)
  BY <1>4 DEF FetchUnderGrant, FetchUnderPolicy, Meter!SpendSlot, Issue, Goto, TypeOK,
     meterVars
<1>5. CASE OpenRequest(r)
  <2>1. /\ pc' = [pc EXCEPT ![r] = "fetching"]
        /\ opened' = [opened EXCEPT ![r] = Len(issued[r])]
        /\ UNCHANGED <<ask, audit, slot, issued, sent, fetched>>
    BY <1>5, OpenRequestShape
  <2>2. \A q \in Runs \ {r} : pc'[q] = pc[q] /\ opened'[q] = opened[q]
    BY <2>1 DEF TypeOK
  <2>3. QED
    BY <2>1, <2>2
<1>6. CASE DeliveryRaises(r)
  <2>1. /\ pc' = [pc EXCEPT ![r] = "raised"]
        /\ \E size : sent' = [sent EXCEPT ![r] = size]
        /\ UNCHANGED <<ask, audit, slot, issued, opened, fetched>>
    BY <1>6, DeliveryRaisesShape
  <2>2. \A q \in Runs \ {r} : pc'[q] = pc[q] /\ sent'[q] = sent[q]
    BY <2>1 DEF TypeOK
  <2>3. QED
    BY <2>1, <2>2
<1>7. CASE FollowRedirect(r)
  <2>1. /\ pc' = [pc EXCEPT ![r] = "opening"]
        /\ \E request : issued' = [issued EXCEPT ![r] = Append(issued[r], request)]
        /\ UNCHANGED <<ask, audit, slot, opened, sent, fetched>>
    BY <1>7, FollowingStands
  <2>2. \A q \in Runs \ {r} : pc'[q] = pc[q] /\ issued'[q] = issued[q]
    BY <2>1 DEF TypeOK
  <2>3. QED
    BY <2>1, <2>2
<1>8. QED
  BY <1>1, <1>2, <1>3, <1>4, <1>5, <1>6, <1>7, StepsSplit DEF Other

LEMMA StepAnswered ==
    ASSUME EgressAssumption, TypeOK, NothingYet, OpenedInOrder, TrailTrue, EveryFetchPaid,
           ConflictsRefused, EveryAskAnswered, NEW r \in Runs, Steps(r)
    PROVE  EveryAskAnswered'
<1>1. \A q \in Runs : HasSurface(q)' <=> HasSurface(q)
  BY PlacesAndWalls DEF HasSurface, HasPolicy, Isolated
<1>2. ASSUME NEW q \in Runs \ {r}, Unaudited(q)'
      PROVE  LeftBy(q)'
  <2>1. UNCHANGED <<pc[q], ask[q], audit[q], slot[q], issued[q], opened[q], sent[q]>>
    BY StepOthers DEF OthersStand
  <2>2. UNCHANGED <<tool>> /\ fetched \subseteq fetched'
    BY PlacesAndWalls, StepOthers
  <2>3. Unaudited(q)
    BY <1>1, <1>2, <2>1 DEF Unaudited
  <2>4. LeftBy(q)
    BY <2>3, AnsweredEach
  <2>5. QED
    BY <2>1, <2>2, <2>4 DEF LeftBy
<1>3. SUFFICES ASSUME Unaudited(r)' PROVE LeftBy(r)'
  BY <1>2, AnsweredEach DEF EveryAskAnswered, Unaudited, LeftBy
<1>4. CASE StayQuiet(r)
  <2>1. ~IsolationConflict(tool[r])
    BY <1>4 DEF StayQuiet, ConflictsRefused
  <2>2. ask[r] = Silent \/ ~HasSurface(r)
    BY <1>4, <2>1
    DEF StayQuiet, ArtifactSeen, IsolationConflict, LacksGrant, HasPolicy, HasSurface
  <2>3. ask'[r] = ask[r]
    BY <1>4 DEF StayQuiet, Answer
  <2>4. QED
    BY <1>1, <1>3, <2>2, <2>3 DEF Unaudited
<1>5. CASE Answering(r) /\ ~StayQuiet(r)
  <2>1. \A entry : Answer(r, entry) => audit'[r] = entry
    BY DEF Answer, TypeOK
  <2>2. \E entry : Answer(r, entry) /\ entry.decision # "none"
    <3>1. CASE Deliver(r) \/ FailFetch(r)
      BY <3>1, DecidedEntries DEF Deliver, FailFetch
    <3>2. CASE DenyUngranted(r) \/ DenyRequest(r) \/ DenyByCeiling(r) \/ DenyByBook(r)
               \/ RefuseRedirect(r) \/ RefuseFetch(r)
      BY <3>2, DecidedEntries DEF DenyUngranted, DenyRequest, DenyByCeiling, DenyByBook,
         RefuseRedirect, RefuseFetch
    <3>3. QED
      BY <1>5, <3>1, <3>2 DEF Answering
  <2>3. QED
    BY <1>3, <2>1, <2>2 DEF Unaudited
<1>6. CASE Refuse(r) \/ RunRaises(r)
  <2>1. ask'[r] = Silent
    BY <1>6 DEF Refuse, RunRaises, NothingYet
  <2>2. QED
    BY <1>3, <2>1 DEF Unaudited
<1>7. CASE RequestRaises(r)
  BY <1>7 DEF RequestRaises, Mediated, Goto, NothingYet, LeftBy, TypeOK, fetchVars
<1>8. CASE DeliveryRaises(r)
  <2>1. /\ pc[r] = "fetching" /\ pc'[r] = "raised" /\ sent'[r] > 0
        /\ UNCHANGED <<tool, slot, fetched, issued, opened>>
    <3>1. /\ pc[r] = "fetching" /\ pc' = [pc EXCEPT ![r] = "raised"]
          /\ UNCHANGED <<tool, slot, fetched, issued, opened>>
      BY <1>8, DeliveryRaisesShape
    <3>2. PICK size \in Nat : size > 0 /\ sent' = [sent EXCEPT ![r] = size]
      BY <1>8, DeliveryRaisesShape
    <3>3. QED
      BY <3>1, <3>2 DEF TypeOK
  <2>2. issued[r] # <<>> /\ opened[r] = Len(issued[r])
    BY <2>1 DEF NothingYet, OpenedInOrder
  <2>3. tool[r] \in Granted => slot[r] \in fetched
    BY <2>2 DEF EveryFetchPaid
  <2>4. QED
    BY <2>1, <2>2, <2>3 DEF LeftBy
<1>9. CASE RunReturns(r) \/ Charge(r) \/ FetchUnderGrant(r) \/ FetchUnderPolicy(r)
  <2>1. pc'[r] \notin {"done", "raised"}
    BY <1>9 DEF RunReturns, Charge, FetchUnderGrant, FetchUnderPolicy, Issue, Goto, TypeOK
  <2>2. QED
    BY <1>3, <2>1 DEF Unaudited
<1>10. CASE OpenRequest(r) \/ FollowRedirect(r)
  <2>1. pc'[r] \notin {"done", "raised"}
    <3>1. pc' = [pc EXCEPT ![r] = "fetching"] \/ pc' = [pc EXCEPT ![r] = "opening"]
      BY <1>10, OpenRequestShape, FollowingStands
    <3>2. QED
      BY <3>1 DEF TypeOK
  <2>2. QED
    BY <1>3, <2>1 DEF Unaudited
<1>11. QED
  BY <1>4, <1>5, <1>6, <1>7, <1>8, <1>9, <1>10, StepsSplit DEF Other, Raising

------------------------------------------------------------------------------
LEMMA EgressInit ==
    ASSUME EgressAssumption, Init
    PROVE  EgressInv
<1>1. TypeOK
  BY InitType
<1>2. <<>> \in Seq(Requests) /\ Len(<<>>) <= 1 /\ DOMAIN <<>> = {}
  OBVIOUS
<1>3. Redirected(<<>>) = <<>>
  BY <1>2, NothingRedirected
<1>4. NoAudit.decision = "none"
  BY AllowedEntries
<1>5. /\ \A r \in Runs : /\ pc[r] = "new" /\ slot[r] = NoSlot /\ issued[r] = <<>>
                         /\ followed[r] = <<>> /\ audit[r] = NoAudit
                         /\ ask[r] = Silent /\ opened[r] = 0
      /\ handed = {}
  BY DEF Init, Meter!Init
<1>6. NothingYet /\ OpenedInOrder /\ SlotsOwned /\ SlotsTraced
  BY <1>5 DEF NothingYet, OpenedInOrder, SlotsOwned, SlotsTraced
<1>7. EveryFetchPaid /\ HopsInsideAuthority
  BY <1>2, <1>5 DEF EveryFetchPaid, HopsInsideAuthority
<1>8. TrailTrue /\ AuditTellsHops
  BY <1>3, <1>4, <1>5 DEF TrailTrue, AuditTellsHops
<1>9. TruncationTold /\ ConflictsRefused /\ EveryAskAnswered
  BY <1>5, UnfetchedEntries DEF TruncationTold, ConflictsRefused, EveryAskAnswered
<1>10. QED
  BY <1>1, <1>6, <1>7, <1>8, <1>9 DEF EgressInv

(* What the invariant does not mention may change: the grants closed. *)
LEMMA EgressStutter ==
    ASSUME EgressInv, closed' \subseteq Granted,
           UNCHANGED <<server, strict, handed, fetched, pc, tool, ask, slot, fetchVars>>
    PROVE  EgressInv'
<1> USE DEF EgressInv, fetchVars
<1>1. TypeOK'
  BY DEF TypeOK
<1>2. /\ NothingYet' /\ OpenedInOrder' /\ SlotsTraced' /\ EveryFetchPaid'
      /\ TrailTrue' /\ AuditTellsHops'
  BY DEF NothingYet, OpenedInOrder, SlotsTraced, EveryFetchPaid, TrailTrue, AuditTellsHops
<1>3. SlotsOwned'
  BY PermittedStands DEF SlotsOwned
<1>4. HopsInsideAuthority'
  BY WallsStand DEF HopsInsideAuthority, TypeOK
<1>5. TruncationTold' /\ ConflictsRefused' /\ EveryAskAnswered'
  BY DEF TruncationTold, ConflictsRefused, EveryAskAnswered, HasSurface, Ceiling,
         IsolationConflict, HasPolicy
<1>6. QED
  BY <1>1, <1>2, <1>3, <1>4, <1>5

LEMMA EgressStep ==
    ASSUME EgressAssumption, EgressInv, [Next]_vars
    PROVE  EgressInv'
<1>1. CASE Close \/ Rest \/ UNCHANGED vars
  <2>1. /\ closed' \subseteq Granted
        /\ UNCHANGED <<server, strict, handed, fetched, pc, tool, ask, slot, fetchVars>>
    BY <1>1 DEF Close, Rest, vars, meterVars, EgressInv, TypeOK
  <2>2. QED
    BY <2>1, EgressStutter
<1>2. ASSUME NEW r \in Runs, Steps(r)
      PROVE  EgressInv'
  <2> USE <1>2 DEF EgressInv
  <2>1. TypeOK'
    BY StepType
  <2>2. NothingYet' /\ OpenedInOrder'
    BY StepNothingYet, StepOpened
  <2>3. SlotsOwned'
    BY StepSlotsOwned
  <2>4. SlotsTraced'
    BY StepSlotsTraced
  <2>5. EveryFetchPaid'
    BY <2>3, StepPaid
  <2>6. HopsInsideAuthority'
    BY StepAuthority
  <2>7. TrailTrue' /\ AuditTellsHops'
    BY StepTrail
  <2>8. TruncationTold'
    BY StepTruncation
  <2>9. ConflictsRefused' /\ EveryAskAnswered'
    BY StepConflicts, StepAnswered
  <2>10. QED
    BY <2>1, <2>2, <2>3, <2>4, <2>5, <2>6, <2>7, <2>8, <2>9
<1>3. QED
  BY <1>1, <1>2 DEF Next

(***************************************************************************)
(* The invariant holds in every state the mediator reaches.                *)
(***************************************************************************)
THEOREM EgressInvariant == Spec => []EgressInv
<1>1. Init => EgressInv
  BY EgressAssumption, EgressInit
<1>2. EgressInv /\ [Next]_vars => EgressInv'
  BY EgressAssumption, EgressStep
<1>3. QED
  BY <1>1, <1>2, PTL DEF Spec

(***************************************************************************)
(* Whatever an origin answers, every request issued, hops included, is     *)
(* within the tool's policy and the server-wide ceiling, under one scheme. *)
(***************************************************************************)
THEOREM NothingLeavesTheWalls == Spec => []HopsInsideAuthority
<1>1. EgressInv => HopsInsideAuthority
  BY DEF EgressInv
<1>2. QED
  BY <1>1, EgressInvariant, PTL

(***************************************************************************)
(* No request is sent under a grant, or under the strict posture, without  *)
(* a slot that was charged for this run alone.                             *)
(***************************************************************************)
THEOREM ChargedBeforeSent == Spec => []EveryFetchPaid
<1>1. EgressInv => EveryFetchPaid
  BY DEF EgressInv
<1>2. QED
  BY <1>1, EgressInvariant, PTL

(***************************************************************************)
(* A request that either allowlist refuses spends no call of a grant.      *)
(***************************************************************************)
THEOREM RefusalsCostNothing == Spec => []SlotsBuyPermittedRequests
<1>1. EgressInv => SlotsBuyPermittedRequests
  <2> SUFFICES ASSUME EgressInv, NEW b \in handed
               PROVE  \E r \in Runs :
                        /\ slot[r] = b
                        /\ ask[r] \in Requests
                        /\ \A p \in {Policy(tool[r])} \cup Ceiling(tool[r]) : Admits(p, ask[r])
    BY DEF SlotsBuyPermittedRequests
  <2>1. PICK r \in Runs : slot[r] = b
    BY DEF EgressInv, SlotsTraced
  <2>2. slot[r] # NoSlot
    BY <2>1, EgressAssumption DEF EgressInv, TypeOK, EgressAssumption
  <2>3. Permitted(tool[r], ask[r])
    BY <2>2 DEF EgressInv, SlotsOwned
  <2>4. QED
    BY <2>1, <2>3 DEF Permitted, ClearsCeiling
<1>2. QED
  BY <1>1, EgressInvariant, PTL

(***************************************************************************)
(* An entry that says "allowed" lists exactly the redirects that were      *)
(* issued, and all of them opened but for the last of a failed fetch.      *)
(***************************************************************************)
THEOREM AuditIsTrue == Spec => []AuditTellsHops
<1>1. EgressInv => AuditTellsHops
  BY DEF EgressInv
<1>2. QED
  BY <1>1, EgressInvariant, PTL

(***************************************************************************)
(* A delivered body is within every wall, and told as cut when it was cut. *)
(***************************************************************************)
THEOREM CutsAreTold == Spec => []TruncationTold
<1>1. EgressInv => TruncationTold
  BY DEF EgressInv
<1>2. QED
  BY <1>1, EgressInvariant, PTL

(***************************************************************************)
(* Where a tool has an egress surface, a guest that asked is answered; a   *)
(* run is left unaudited only by a request nested too deep, uncharged and  *)
(* unsent, or by the body of a fetch that was charged and came to its end. *)
(***************************************************************************)
THEOREM NoAskIsDropped == Spec => []EveryAskAnswered
<1>1. EgressInv => EveryAskAnswered
  BY DEF EgressInv
<1>2. QED
  BY <1>1, EgressInvariant, PTL
==============================================================================
