--------------------------- MODULE SubmissionProofs ---------------------------
(***************************************************************************)
(* What editing and deleting submissions guarantees, for every number of   *)
(* submissions, CRM IDs, requests, lost workers and resubmissions.         *)
(***************************************************************************)
EXTENDS SubmissionLifecycle, TLAPS

(* A request on its way: before its write with what its page carried, in a *)
(* deletion with what that has read.                                       *)
Asked   == [at : {"gate", "write", "ids", "enqueue"}, kind : Kinds, deal : Deals, k : Analysts,
            link : Deals \cup {NoDeal}, crm : CrmIds, shown : Deal, terms : Contract]
Reading == [at : {"jobs", "irpJobs", "exports", "commit"}, kind : {"delete"}, deal : Deals,
            ids : BOOLEAN, blocked : BOOLEAN, failed : SUBSET {"job", "finalize"},
            tried : SUBSET Requests]
RequestsTyped == request \in [Requests -> {[at |-> "idle"], Ended} \cup Asked \cup Reading]

(* A deal that still has the marker a page carried has what the page       *)
(* showed, but for a link a deletion cleared.                              *)
PageKept(r) ==
    LET q == request[r] was == deal[q.deal] IN
    q.at \in {"gate", "write"} /\ q.kind \in {"edit", "owner", "status"} =>
        /\ was.status # "absent" /\ q.shown.version <= was.version
        /\ Exists(q.deal) /\ was.version = q.shown.version =>
               /\ was.text = q.shown.text /\ was.owner = q.shown.owner
               /\ was.status = q.shown.status /\ was.link \in {q.shown.link, NoDeal}
               /\ q.at = "write" /\ q.kind # "status" => was.status = "ACTIVE"

(* The same of a contract; the request that added it has ended.            *)
TermsKept(r) ==
    LET q == request[r] c == contract[q.k] IN
    q.at \in {"gate", "write"} /\ q.kind \in {"change", "mark"} =>
        /\ q.terms.version <= c.version
        /\ c.deal = q.deal /\ c.version = q.terms.version => c = q.terms
        /\ q.k \in Requests => request[q.k] = Ended

(* A request adds at most one contract, with its last step.                *)
AddedLast == \A r \in Requests : contract[r].deal # NoDeal => request[r] = Ended

PagesKept == AddedLast /\ \A r \in Requests : PageKept(r) /\ TermsKept(r)

-----------------------------------------------------------------------------
(* Requests *)

LEMMA AskedHere ==
    ASSUME RequestsTyped, NEW r \in Requests, request[r].at \in {"gate", "write", "ids", "enqueue"}
    PROVE  request[r] \in Asked
  BY DEF RequestsTyped, Ended, Asked, Reading

LEMMA ReadingHere ==
    ASSUME RequestsTyped, NEW r \in Requests,
           request[r].at \in {"jobs", "irpJobs", "exports", "commit"}
    PROVE  request[r] \in Reading
  BY DEF RequestsTyped, Ended, Asked, Reading

LEMMA EndTyped ==
    ASSUME RequestsTyped, NEW r \in Requests, End(r)
    PROVE  RequestsTyped'
  BY DEF RequestsTyped, End

LEMMA MoveTyped ==
    ASSUME RequestsTyped, NEW r \in Requests, NEW q \in Asked \cup Reading,
           request' = [request EXCEPT ![r] = q]
    PROVE  RequestsTyped'
  BY DEF RequestsTyped

(* A step of one request leaves the others where they are, and no other    *)
(* step moves a request.                                                   *)
RequestOp(r) ==
    \/ Ask(r) \/ Gate(r) \/ EditStep(r) \/ RequestGroup(r) \/ RequestExport(r)
    \/ InsertImport(r) \/ EnqueueImport(r) \/ DeleteStep(r) \/ RequestLost(r)

LEMMA OthersWait ==
    ASSUME RequestsTyped, NEW r \in Requests, RequestOp(r)
    PROVE  \E q : request' = [request EXCEPT ![r] = q]
<1>1. Gate(r) => \E q : request' = [request EXCEPT ![r] = q]
  BY DEF Gate
<1>2. EditStep(r) => request' = [request EXCEPT ![r] = Ended]
  BY DEF EditStep, Update, Reassign, SetStatus, Create, Attach, Detach, AddContract, UpdateContract,
     SetContractStatus, RemoveContract, End
<1>3. RequestGroup(r) \/ RequestExport(r) \/ RequestLost(r) \/ EnqueueImport(r)
        => request' = [request EXCEPT ![r] = Ended]
  BY DEF RequestGroup, RequestExport, RequestLost, EnqueueImport, End
<1>4. InsertImport(r) => \E q : request' = [request EXCEPT ![r] = q]
  BY DEF InsertImport, End
<1>5. DeleteStep(r) => \E q : request' = [request EXCEPT ![r] = q]
  BY DEF DeleteStep, ReadIds, ReadJobs, ReadIrpJobs, ReadExports, DeleteCommit, End
<1>6. Ask(r) => \E q : request' = [request EXCEPT ![r] = q]
  BY DEF Ask
<1> QED
  BY <1>1, <1>2, <1>3, <1>4, <1>5, <1>6 DEF RequestOp

LEMMA PageTyped ==
    ASSUME TypeOK, NEW kind \in Kinds, NEW d \in Deals, NEW k \in Analysts,
           NEW l \in Deals \cup {NoDeal}, NEW c \in CrmIds
    PROVE  Page(kind, d, k, l, c) \in Asked
<1> DEFINE shown == IF kind \in {"edit", "owner", "status"} THEN deal[d] ELSE NotShown
<1>1. NotShown \in Deal
  BY DEF NotShown, Deal, Analysts
<1>2. shown \in Deal /\ contract[k] \in Contract
  BY <1>1 DEF TypeOK
<1> HIDE DEF shown
<1>3. [at |-> "gate", kind |-> kind, deal |-> d, k |-> k, link |-> l, crm |-> c,
       shown |-> shown, terms |-> contract[k]] \in Asked
  BY <1>2 DEF Asked
<1> QED
  BY <1>3 DEF Page, shown

LEMMA AskTyped ==
    ASSUME TypeOK, RequestsTyped, NEW r \in Requests, Ask(r)
    PROVE  RequestsTyped'
  BY ZenonT(60), PageTyped, MoveTyped DEF Ask

LEMMA DeleteReadsTyped ==
    ASSUME TypeOK, RequestsTyped, NEW r \in Requests,
           ReadIds(r) \/ ReadJobs(r) \/ ReadIrpJobs(r) \/ ReadExports(r)
    PROVE  RequestsTyped'
<1>1. CASE ReadIds(r)
  <2> DEFINE q == [at |-> "jobs", kind |-> "delete", deal |-> request[r].deal,
                   ids |-> group[request[r].deal].row # "absent", blocked |-> FALSE,
                   failed |-> {}, tried |-> {}]
  <2>1. request[r].deal \in Deals
    BY <1>1, AskedHere DEF ReadIds, At, Asked
  <2>2. q \in Reading
    BY <2>1 DEF Reading
  <2>3. request' = [request EXCEPT ![r] = q]
    BY <1>1 DEF ReadIds
  <2> QED
    BY <2>2, <2>3, MoveTyped
<1>2. CASE ReadJobs(r)
  <2>1. request[r] \in Reading
    BY <1>2, ReadingHere DEF ReadJobs, At
  <2>2. PICK b \in BOOLEAN, f \in SUBSET {"job", "finalize"}, t \in SUBSET Requests :
            request' = [request EXCEPT ![r].at = "irpJobs", ![r].failed = f, ![r].blocked = b,
                                       ![r].tried = t]
    BY <1>2 DEF ReadJobs, ImportsWith
  <2>3. [request[r] EXCEPT !.at = "irpJobs", !.failed = f, !.blocked = b, !.tried = t] \in Reading
    BY <2>1 DEF Reading
  <2> QED
    BY <2>2, <2>3, MoveTyped DEF RequestsTyped
<1>3. CASE ReadIrpJobs(r)
  <2>1. request[r] \in Reading
    BY <1>3, ReadingHere DEF ReadIrpJobs, At
  <2>2. PICK b \in BOOLEAN : request' = [request EXCEPT ![r].at = "exports", ![r].blocked = b]
    BY <1>3, <2>1 DEF ReadIrpJobs, Reading
  <2>3. [request[r] EXCEPT !.at = "exports", !.blocked = b] \in Reading
    BY <2>1 DEF Reading
  <2> QED
    BY <2>2, <2>3, MoveTyped DEF RequestsTyped
<1>4. CASE ReadExports(r)
  <2>1. request[r] \in Reading
    BY <1>4, ReadingHere DEF ReadExports, At
  <2>2. PICK b \in BOOLEAN : request' = [request EXCEPT ![r].at = "commit", ![r].blocked = b]
    BY <1>4, <2>1 DEF ReadExports, Reading
  <2>3. [request[r] EXCEPT !.at = "commit", !.blocked = b] \in Reading
    BY <2>1 DEF Reading
  <2> QED
    BY <2>2, <2>3, MoveTyped DEF RequestsTyped
<1> QED
  BY <1>1, <1>2, <1>3, <1>4

(* What begins during a deletion is one of the kinds of work.              *)
LEMMA NoteTyped ==
    ASSUME TypeOK, NEW d, NEW work \in Work, Note(d, work) \/ NoteRequest(d, work)
    PROVE  during' \in [Deals -> SUBSET Work]
  BY DEF TypeOK, Note, NoteRequest

(* A job's move keeps the groups typed, and creates no row for a           *)
(* submission that is gone.                                                *)
LEMMA GroupMoveTyped ==
    ASSUME TypeOK, NEW d \in Deals, NEW g \in Group, Move(d, g),
           g.row = "absent" \/ group[d].row # "absent" \/ Exists(d)
    PROVE  /\ group' \in [Deals -> Group]
           /\ \A e \in Deals : group'[e].row # "absent" => Exists(e)
  BY DEF TypeOK, Move

(* What the three tables analysts edit must keep, while the rest is left.  *)
RowsKept ==
    /\ deal' \in [Deals -> Deal] /\ contract' \in [Analysts -> Contract] /\ edms' \subseteq Deals
    /\ \A d \in Deals : Exists(d) => Exists(d)'
    /\ \A d \in Deals : Resolves(deal[d].link)'
    /\ \A k \in Analysts : Resolves(contract[k].deal)'
    /\ (\A d \in edms : Exists(d))'

LEMMA RowsTyped ==
    ASSUME TypeOK, RowsKept, UNCHANGED <<group, export, imports, during>>
    PROVE  TypeOK'
<1> QED
  BY DEF TypeOK, RowsKept, Exists, Resolves

LEMMA DealMoveTyped ==
    ASSUME TypeOK, NEW d \in Deals, NEW w \in Deal, deal' = [deal EXCEPT ![d] = w],
           Exists(d) => w.status \in {"ACTIVE", "closed"}, Resolves(w.link),
           UNCHANGED <<contract, edms>>
    PROVE  RowsKept
<1>1. \A e \in Deals : Exists(e) => Exists(e)'
  BY DEF TypeOK, Exists
<1>2. deal' \in [Deals -> Deal]
  BY DEF TypeOK
<1>3. \A l \in Deals \cup {NoDeal} : Resolves(l) => Resolves(l)'
  BY <1>1 DEF Resolves
<1>4. \A e \in Deals : deal'[e].link \in Deals \cup {NoDeal} /\ Resolves(deal'[e].link)
  BY DEF TypeOK, Deal
<1>5. \A k \in Analysts : contract[k].deal \in Deals \cup {NoDeal}
  BY DEF TypeOK, Contract
<1>6. edms' \subseteq Deals /\ (\A e \in edms : Exists(e))'
  BY <1>1 DEF TypeOK, Exists
<1>7. (\A e \in Deals : Resolves(deal[e].link))' /\ (\A k \in Analysts : Resolves(contract[k].deal))'
  BY <1>3, <1>4, <1>5 DEF TypeOK, Resolves, Exists
<1> QED
  BY <1>1, <1>2, <1>5, <1>6, <1>7 DEF TypeOK, RowsKept

LEMMA ContractMoveTyped ==
    ASSUME TypeOK, NEW k \in Analysts, NEW c \in Contract, contract' = [contract EXCEPT ![k] = c],
           Resolves(c.deal), UNCHANGED <<deal, edms>>
    PROVE  RowsKept
<1>1. contract' \in [Analysts -> Contract] /\ \A e \in Analysts : Resolves(contract'[e].deal)
  BY DEF TypeOK
<1>2. \A l \in Deals \cup {NoDeal} : Resolves(l) => Resolves(l)'
  BY DEF Resolves, Exists
<1>3. \A e \in Analysts : contract'[e].deal \in Deals \cup {NoDeal}
  BY <1>1 DEF Contract
<1>4. \A e \in Deals : deal'[e].link \in Deals \cup {NoDeal} /\ Resolves(deal'[e].link)
  BY DEF TypeOK, Deal
<1>5. \A e \in Deals : Exists(e) => Exists(e)'
  BY DEF Exists
<1>6. edms' \subseteq Deals /\ (\A e \in edms : Exists(e))'
  BY <1>5 DEF TypeOK, Exists
<1>7. (\A e \in Deals : Resolves(deal[e].link))' /\ (\A e \in Analysts : Resolves(contract[e].deal))'
  BY <1>3, <1>4, <1>1 DEF TypeOK, Resolves, Exists
<1> QED
  BY <1>1, <1>2, <1>5, <1>6, <1>7 DEF TypeOK, RowsKept

(* A bumped deal is a deal with the next marker.                           *)
LEMMA BumpTyped ==
    /\ \A w \in Deal : Bump(w) \in Deal /\ Bump(w).version = w.version + 1 /\ Bump(w).status = w.status
                       /\ Bump(w).link = w.link /\ Bump(w).text = w.text /\ Bump(w).owner = w.owner
    /\ \A c \in Contract : Bump(c) \in Contract /\ Bump(c).version = c.version + 1
                           /\ Bump(c).deal = c.deal
  BY DEF Bump, Deal, Contract

LEMMA EditTyped ==
    ASSUME TypeOK, RequestsTyped, NEW r \in Requests, EditStep(r)
    PROVE  TypeOK'
<1> DEFINE d == request[r].deal
<1>1. request[r] \in Asked
  BY AskedHere DEF EditStep, At, Update, Reassign, SetStatus, Create, Attach, Detach, AddContract,
     UpdateContract, SetContractStatus, RemoveContract
<1>2. d \in Deals /\ deal[d] \in Deal /\ r \in Analysts
  BY <1>1 DEF Asked, TypeOK, Analysts
<1>3. request[r].k \in Analysts /\ contract[request[r].k] \in Contract /\ contract[r] \in Contract
  BY <1>1, <1>2 DEF Asked, TypeOK
<1>4. request[r].crm \in CrmIds /\ request[r].link \in Deals \cup {NoDeal}
  BY <1>1 DEF Asked
<1>same. CASE UNCHANGED rows
  <2>1. RowsKept
    BY <1>same DEF RowsKept, TypeOK, Exists, Resolves, rows
  <2> QED
    BY <2>1, RowsTyped DEF EditStep, Update, Reassign, SetStatus, Create, Attach, Detach, AddContract,
       UpdateContract, SetContractStatus, RemoveContract
<1>5. CASE Update(r)
  <2> DEFINE w == Bump([deal[d] EXCEPT !.text = r, !.link = request[r].link])
  <2>1. w \in Deal /\ w.status = deal[d].status /\ w.link = request[r].link
    <3>1. [deal[d] EXCEPT !.text = r, !.link = request[r].link] \in Deal
      BY <1>2, <1>4 DEF Deal
    <3> QED
      BY <3>1, <1>2, BumpTyped DEF Deal
  <2>2. UNCHANGED rows \/ (deal' = [deal EXCEPT ![d] = w] /\ Exists(d) /\ Resolves(request[r].link)
                           /\ UNCHANGED <<contract, edms>>)
    BY <1>5 DEF Update, Unmoved, rows
  <2>3. CASE deal' = [deal EXCEPT ![d] = w] /\ Exists(d) /\ Resolves(request[r].link)
             /\ UNCHANGED <<contract, edms>>
    <3> HIDE DEF w, d
    <3>1. RowsKept
      BY <2>1, <2>3, <1>2, DealMoveTyped DEF Exists
    <3> QED
      BY <3>1, <1>5, RowsTyped DEF Update
  <2> QED
    BY <2>2, <2>3, <1>same
<1>6. CASE Reassign(r)
  <2> DEFINE w == Bump([deal[d] EXCEPT !.owner = r])
  <2>1. w \in Deal /\ w.status = deal[d].status /\ w.link = deal[d].link
    <3>1. [deal[d] EXCEPT !.owner = r] \in Deal
      BY <1>2 DEF Deal
    <3> QED
      BY <3>1, <1>2, BumpTyped DEF Deal
  <2>2. UNCHANGED rows \/ (deal' = [deal EXCEPT ![d] = w] /\ UNCHANGED <<contract, edms>>)
    BY <1>6 DEF Reassign, rows
  <2>3. CASE deal' = [deal EXCEPT ![d] = w] /\ UNCHANGED <<contract, edms>>
    <3>1. Resolves(deal[d].link)
      BY <1>2 DEF TypeOK
    <3> HIDE DEF w, d
    <3>2. RowsKept
      BY <2>1, <2>3, <3>1, <1>2, DealMoveTyped DEF Exists
    <3> QED
      BY <3>2, <1>6, RowsTyped DEF Reassign
  <2> QED
    BY <2>2, <2>3, <1>same
<1>7. CASE SetStatus(r)
  <2>1. PICK s \in {"ACTIVE", "closed"} :
            deal' = IF ~ Unmoved(r) THEN deal ELSE [deal EXCEPT ![d] = Bump([@ EXCEPT !.status = s])]
    BY <1>7 DEF SetStatus
  <2> DEFINE w == Bump([deal[d] EXCEPT !.status = s])
  <2>2. w \in Deal /\ w.status = s /\ w.link = deal[d].link
    <3>1. [deal[d] EXCEPT !.status = s] \in Deal
      BY <1>2 DEF Deal
    <3> QED
      BY <3>1, <1>2, BumpTyped DEF Deal
  <2>3. UNCHANGED rows \/ (deal' = [deal EXCEPT ![d] = w] /\ UNCHANGED <<contract, edms>>)
    BY <1>7, <2>1 DEF SetStatus, rows
  <2>4. CASE deal' = [deal EXCEPT ![d] = w] /\ UNCHANGED <<contract, edms>>
    <3>1. Resolves(deal[d].link)
      BY <1>2 DEF TypeOK
    <3> HIDE DEF w, d
    <3>2. RowsKept
      BY <2>2, <2>4, <3>1, <1>2, DealMoveTyped
    <3> QED
      BY <3>2, <1>7, RowsTyped DEF SetStatus
  <2> QED
    BY <2>3, <2>4, <1>same
<1>8. CASE Create(r)
  <2> DEFINE w == [deal[d] EXCEPT !.status = "ACTIVE", !.text = r, !.owner = r, !.link = request[r].link]
             c == [contract[r] EXCEPT !.deal = d, !.crm = request[r].crm]
  <2>1. w \in Deal /\ w.status = "ACTIVE" /\ w.link = request[r].link
    BY <1>2, <1>4 DEF Deal
  <2>2. c \in Contract /\ c.deal = d
    BY <1>2, <1>3, <1>4 DEF Contract
  <2>3. CASE Resolves(request[r].link) /\ deal' = [deal EXCEPT ![d] = w]
    <3> HIDE DEF w, c, d
    <3>1. edms' = edms
      BY <1>8 DEF Create
    <3>2. deal' \in [Deals -> Deal] /\ deal'[d] = w
      BY <2>1, <2>3, <1>2 DEF TypeOK
    <3>3. \A e \in Deals : Exists(e) => Exists(e)'
      BY <2>1, <2>3, <1>2 DEF TypeOK, Exists
    <3>4. \A l \in Deals \cup {NoDeal} : Resolves(l) => Resolves(l)'
      BY <3>3 DEF Resolves
    <3>5. \A e \in Deals : deal'[e].link \in Deals \cup {NoDeal} /\ Resolves(deal'[e].link)
      BY <2>1, <2>3, <1>2 DEF TypeOK, Deal
    <3>6. deal'[d].status = "ACTIVE"
      BY <3>2, <2>1
    <3>7. contract' = [contract EXCEPT ![r] = c] \/ UNCHANGED contract
      BY <1>8, <2>3 DEF Create, c, d
    <3>8. contract' \in [Analysts -> Contract]
      BY <3>7, <2>2, <1>2 DEF TypeOK
    <3>9. \A e \in Analysts : contract'[e].deal \in Deals \cup {NoDeal}
                              /\ (contract'[e].deal = d \/ contract'[e].deal = contract[e].deal)
      BY <3>7, <3>8, <2>2, <1>2 DEF TypeOK, Contract
    <3>10. (\A e \in Analysts : Resolves(contract[e].deal))'
      BY <3>4, <3>6, <3>9 DEF TypeOK, Resolves, Exists
    <3>11. (\A e \in Deals : Resolves(deal[e].link))'
      BY <3>4, <3>5 DEF Resolves, Exists
    <3>12. edms' \subseteq Deals /\ (\A e \in edms : Exists(e))'
      BY <3>1, <3>3 DEF TypeOK, Exists
    <3>13. RowsKept
      BY <3>2, <3>3, <3>8, <3>10, <3>11, <3>12 DEF RowsKept
    <3> QED
      BY <3>13, <1>8, RowsTyped DEF Create
  <2> QED
    BY <2>3, <1>8, <1>same DEF Create, rows
<1>9. CASE Attach(r) \/ Detach(r)
  <2>1. UNCHANGED <<deal, contract>> /\ \A e \in edms' : e \in edms \/ (e = d /\ Exists(d))
    BY <1>9 DEF Attach, Detach
  <2>2. RowsKept
    BY <2>1, <1>2 DEF RowsKept, TypeOK, Exists, Resolves
  <2> QED
    BY <2>2, <1>9, RowsTyped DEF Attach, Detach
<1>10. CASE AddContract(r) \/ UpdateContract(r) \/ SetContractStatus(r) \/ RemoveContract(r)
  <2>1. PICK k \in Analysts, c \in Contract :
            contract' = [contract EXCEPT ![k] = c] /\ Resolves(c.deal)
    <3>1. CASE contract' = contract
      BY <3>1, <1>3 DEF TypeOK
    <3>2. CASE AddContract(r) /\ contract' # contract
      <4> DEFINE c == [contract[r] EXCEPT !.deal = d, !.crm = request[r].crm]
      <4>1. c \in Contract /\ c.deal = d
        BY <1>2, <1>3, <1>4 DEF Contract
      <4>2. contract' = [contract EXCEPT ![r] = c] /\ Exists(d)
        BY <3>2 DEF AddContract
      <4> QED
        BY <4>1, <4>2, <1>2 DEF Resolves
    <3>3. CASE UpdateContract(r) /\ contract' # contract
      <4> DEFINE k == request[r].k
                 c == Bump([contract[k] EXCEPT !.crm = request[r].crm, !.text = r])
      <4>1. [contract[k] EXCEPT !.crm = request[r].crm, !.text = r] \in Contract
        BY <1>2, <1>3, <1>4 DEF Contract
      <4>2. c \in Contract /\ c.deal = contract[k].deal
        BY <4>1, <1>3, BumpTyped DEF Contract
      <4>3. contract' = [contract EXCEPT ![k] = c]
        BY <3>3 DEF UpdateContract
      <4>4. Resolves(contract[k].deal)
        BY <1>3 DEF TypeOK
      <4> QED
        BY <4>2, <4>3, <4>4, <1>3
    <3>4. CASE SetContractStatus(r) /\ contract' # contract
      <4> DEFINE k == request[r].k
                 c == Bump([contract[k] EXCEPT !.text = r])
      <4>1. [contract[k] EXCEPT !.text = r] \in Contract
        BY <1>2, <1>3 DEF Contract
      <4>2. c \in Contract /\ c.deal = contract[k].deal
        BY <4>1, <1>3, BumpTyped DEF Contract
      <4>3. contract' = [contract EXCEPT ![k] = c]
        BY <3>4 DEF SetContractStatus
      <4>4. Resolves(contract[k].deal)
        BY <1>3 DEF TypeOK
      <4> QED
        BY <4>2, <4>3, <4>4, <1>3
    <3>5. CASE RemoveContract(r)
      <4> DEFINE k == request[r].k
                 c == [contract[k] EXCEPT !.deal = NoDeal]
      <4>1. c \in Contract /\ c.deal = NoDeal
        BY <1>3 DEF Contract
      <4>2. contract' = [contract EXCEPT ![k] = c]
        BY <3>5 DEF RemoveContract
      <4> QED
        BY <4>1, <4>2, <1>3 DEF Resolves
    <3> QED
      BY <3>1, <3>2, <3>3, <3>4, <3>5, <1>10
  <2>2. RowsKept
    BY <2>1, <1>10, ContractMoveTyped DEF AddContract, UpdateContract, SetContractStatus, RemoveContract
  <2> QED
    BY <2>2, <1>10, RowsTyped DEF AddContract, UpdateContract, SetContractStatus, RemoveContract
<1> QED
  BY <1>5, <1>6, <1>7, <1>8, <1>9, <1>10 DEF EditStep

(* What the jobs may change while the tables analysts edit stay.           *)
LEMMA JobsTyped ==
    ASSUME TypeOK, UNCHANGED <<rows, imports>>, during' \in [Deals -> SUBSET Work],
           group' \in [Deals -> Group], \A e \in Deals : group'[e].row # "absent" => Exists(e),
           export' \in [Deals -> {"absent", "open", "settled"}]
    PROVE  TypeOK'
  BY DEF TypeOK, rows, Exists, Resolves

LEMMA ImportsTyped ==
    ASSUME TypeOK, UNCHANGED <<rows, group, export>>, during' \in [Deals -> SUBSET Work],
           NEW r \in Requests, NEW i \in Import, imports' = [imports EXCEPT ![r] = i],
           i.row # "absent" => i.deal \in Deals /\ Exists(i.deal)
    PROVE  TypeOK'
<1>1. imports' \in [Requests -> Import]
  BY DEF TypeOK
<1>2. \A q \in Requests : imports'[q].row # "absent" => imports'[q].deal \in Deals /\ Exists(imports'[q].deal)
  BY DEF TypeOK
<1> QED
  BY <1>1, <1>2 DEF TypeOK, rows, Exists, Resolves

(* The job of a group, its row and its irp_job move within their types.    *)
LEMMA GroupTyped ==
    ASSUME TypeOK, NEW d \in Deals, GroupStep(d)
    PROVE  TypeOK'
<1> DEFINE g == group[d]
<1>1. g \in Group /\ during \in [Deals -> SUBSET Work] /\ export \in [Deals -> {"absent", "open", "settled"}]
  BY DEF TypeOK
<1>2. g.row # "absent" => Exists(d)
  BY DEF TypeOK
<1>3. ASSUME NEW h \in Group, Move(d, h), h.row = "absent" \/ g.row # "absent" \/ Exists(d),
             during' \in [Deals -> SUBSET Work], UNCHANGED <<rows, imports, export>>
      PROVE  TypeOK'
  BY <1>1, <1>3, GroupMoveTyped, JobsTyped
<1>f. Fails(g) \in Group /\ Fails(g).row = g.row /\ [Fails(g) EXCEPT !.irp = "failed"] \in Group
      /\ [Fails(g) EXCEPT !.irp = "failed"].row = g.row
  BY <1>1 DEF Fails, Group, JobStatus
<1>4. CASE ClaimGroup(d)
  <2>1. [g EXCEPT !.job = "running", !.at = "look"] \in Group
    BY <1>1 DEF Group, JobStatus
  <2> QED
    BY <2>1, <1>1, <1>2, <1>3, <1>4 DEF ClaimGroup, Group
<1>5. CASE Look(d)
  <2>1. [g EXCEPT !.job = "succeeded", !.at = "idle"] \in Group /\ [g EXCEPT !.at = "members"] \in Group
        /\ [g EXCEPT !.at = "members", !.row = "bare"] \in Group
    BY <1>1 DEF Group, JobStatus
  <2>2. PICK h \in Group : Move(d, h) /\ (h.row = g.row \/ Exists(d))
    BY <2>1, <1>f, <1>1, <1>5 DEF Look, Group
  <2> QED
    BY <2>2, <1>1, <1>2, <1>3, <1>5 DEF Look
<1>6. CASE InsertMembers(d)
  <2>1. [g EXCEPT !.at = "submit", !.row = "full"] \in Group
    BY <1>1 DEF Group
  <2>2. PICK h \in Group : Move(d, h) /\ (h.row = g.row \/ g.row # "absent")
    BY <2>1, <1>f, <1>1, <1>6 DEF InsertMembers, Group
  <2> QED
    BY <2>2, <1>1, <1>2, <1>3, <1>6 DEF InsertMembers
<1>7. CASE Submit(d)
  <2>1. [g EXCEPT !.at = "record"] \in Group /\ [g EXCEPT !.at = "record"].row = g.row
    BY <1>1 DEF Group
  <2>2. PICK h \in Group : Move(d, h) /\ h.row = g.row
    BY <2>1, <1>f, <1>7 DEF Submit
  <2> QED
    BY <2>2, <1>1, <1>2, <1>3, <1>7 DEF Submit
<1>8. CASE Record(d)
  <2>1. [g EXCEPT !.job = "succeeded", !.at = "idle", !.irp = "running"] \in Group
    BY <1>1 DEF Group, JobStatus
  <2>2. PICK h \in Group : Move(d, h) /\ h.row = g.row
    BY <2>1, <1>f, <1>1, <1>8 DEF Record, Group
  <2> QED
    BY <2>2, <1>1, <1>2, <1>3, <1>8 DEF Record
<1>9. CASE Poll(d)
  <2>1. [g EXCEPT !.irp = "finished", !.finalize = "pending"] \in Group /\ [g EXCEPT !.irp = "failed"] \in Group
    BY <1>1 DEF Group, JobStatus
  <2>2. PICK h \in Group : Move(d, h) /\ h.row = g.row
    BY <2>1, <1>1, <1>9 DEF Poll, Group
  <2>3. during' \in [Deals -> SUBSET Work]
    BY <1>9, <1>1, NoteTyped DEF Poll, Work
  <2> QED
    BY <2>2, <2>3, <1>2, <1>3, <1>9 DEF Poll
<1>10. CASE Finalize(d)
  <2>1. \A s \in JobStatus : [g EXCEPT !.finalize = s] \in Group /\ [g EXCEPT !.finalize = s].row = g.row
    BY <1>1 DEF Group
  <2>2. PICK s \in JobStatus : Move(d, [g EXCEPT !.finalize = s])
    BY <1>10 DEF Finalize, JobStatus
  <2> QED
    BY <2>1, <2>2, <1>1, <1>2, <1>3, <1>10 DEF Finalize
<1>11. CASE Crash(d)
  <2>1. [g EXCEPT !.job = "pending", !.at = "idle"] \in Group /\ [g EXCEPT !.finalize = "pending"] \in Group
    BY <1>1 DEF Group, JobStatus
  <2>2. PICK h \in Group : Move(d, h) /\ h.row = g.row
    BY <2>1, <1>1, <1>11 DEF Crash, Group
  <2> QED
    BY <2>2, <1>1, <1>2, <1>3, <1>11 DEF Crash
<1>12. CASE Resubmit(d)
  <2>1. [g EXCEPT !.job = "pending"] \in Group /\ [g EXCEPT !.finalize = "pending"] \in Group
    BY <1>1 DEF Group, JobStatus
  <2>2. PICK h \in Group : Move(d, h) /\ h.row = g.row
    BY <2>1, <1>1, <1>12 DEF Resubmit, Group
  <2>3. during' \in [Deals -> SUBSET Work]
    BY <1>12, NoteTyped DEF Resubmit, Work
  <2> QED
    BY <2>2, <2>3, <1>2, <1>3, <1>12 DEF Resubmit
<1>13. CASE SettleExport(d)
  <2>1. export' \in [Deals -> {"absent", "open", "settled"}]
    BY <1>1, <1>13 DEF SettleExport
  <2> QED
    BY <2>1, <1>13, JobsTyped DEF SettleExport, TypeOK
<1> QED
  BY <1>4, <1>5, <1>6, <1>7, <1>8, <1>9, <1>10, <1>11, <1>12, <1>13 DEF GroupStep

LEMMA RequestWorkTyped ==
    ASSUME TypeOK, RequestsTyped, NEW r \in Requests, RequestGroup(r) \/ RequestExport(r)
    PROVE  TypeOK'
<1> DEFINE d == request[r].deal
<1>1. d \in Deals
  BY AskedHere DEF RequestGroup, RequestExport, At, Asked
<1>2. CASE RequestGroup(r)
  <2>1. during' \in [Deals -> SUBSET Work]
    BY <1>2, NoteTyped DEF RequestGroup, Work, TypeOK
  <2>2. [group[d] EXCEPT !.job = "pending"] \in Group
        /\ [group[d] EXCEPT !.job = "pending"].row = group[d].row
    BY SMTT(60), <1>1 DEF TypeOK, Group, JobStatus
  <2>3. group' = [group EXCEPT ![d] = [group[d] EXCEPT !.job = "pending"]] \/ group' = group
    BY <1>2 DEF RequestGroup
  <2>4. group' \in [Deals -> Group] /\ \A e \in Deals : group'[e].row # "absent" => Exists(e)
    BY <2>2, <2>3, <1>1 DEF TypeOK
  <2> QED
    BY <2>1, <2>4, <1>2, JobsTyped DEF RequestGroup, TypeOK
<1>3. CASE RequestExport(r)
  <2>1. during' \in [Deals -> SUBSET Work]
    BY <1>3, NoteTyped DEF RequestExport, Work
  <2>2. export' \in [Deals -> {"absent", "open", "settled"}]
    BY <1>3 DEF RequestExport, TypeOK
  <2> QED
    BY <2>1, <2>2, <1>3, JobsTyped DEF RequestExport, TypeOK
<1> QED
  BY <1>2, <1>3

LEMMA ImportStepTyped ==
    ASSUME TypeOK, RequestsTyped, NEW r \in Requests, ImportStep(r)
    PROVE  TypeOK'
<1> DEFINE i == imports[r]
<1>1. i \in Import /\ (i.row # "absent" => i.deal \in Deals /\ Exists(i.deal))
      /\ during \in [Deals -> SUBSET Work]
  BY DEF TypeOK
<1>2. \A s \in JobStatus : [i EXCEPT !.job = s] \in Import /\ [i EXCEPT !.job = s].row = i.row
                           /\ [i EXCEPT !.job = s].deal = i.deal
  BY <1>1 DEF Import
<1>3. CASE InsertImport(r)
  <2> DEFINE d == request[r].deal
             h == [i EXCEPT !.deal = d, !.row = "live"]
  <2>1. d \in Deals
    BY <1>3, AskedHere DEF InsertImport, At, Asked
  <2>2. h \in Import /\ h.deal = d
    BY <2>1, <1>1 DEF Import
  <2>3. CASE Exists(d) /\ imports' = [imports EXCEPT ![r] = h]
    <3> HIDE DEF h, d
    <3> QED
      BY <2>1, <2>2, <2>3, <1>1, <1>3, ImportsTyped DEF InsertImport
  <2>4. CASE UNCHANGED imports
    BY <2>4, <1>3, JobsTyped DEF InsertImport, TypeOK
  <2> QED
    BY <2>3, <2>4, <1>3 DEF InsertImport
<1>4. CASE EnqueueImport(r)
  <2> DEFINE h == [i EXCEPT !.row = IF @ = "live" THEN "out" ELSE @]
  <2>1. h \in Import /\ (h.row = "absent" <=> i.row = "absent") /\ h.deal = i.deal
    BY <1>1 DEF Import
  <2>2. CASE imports' = [imports EXCEPT ![r].job = "pending"] /\ NoteRequest(request[r].deal, "imported")
    <3>1. during' \in [Deals -> SUBSET Work]
      BY <2>2, NoteTyped DEF Work
    <3>2. "pending" \in JobStatus /\ imports' = [imports EXCEPT ![r] = [i EXCEPT !.job = "pending"]]
      BY <2>2 DEF JobStatus
    <3> QED
      BY <3>1, <3>2, <1>1, <1>2, <1>4, ImportsTyped DEF EnqueueImport
  <2>3. CASE imports' = [imports EXCEPT ![r] = h] /\ UNCHANGED during
    <3> HIDE DEF h
    <3> QED
      BY <2>1, <2>3, <1>1, <1>4, ImportsTyped DEF EnqueueImport
  <2> QED
    BY <2>2, <2>3, <1>4 DEF EnqueueImport
<1>5. CASE FinalizeImport(r)
  <2>1. PICK s \in JobStatus : imports' = [imports EXCEPT ![r] = [i EXCEPT !.job = s]]
    BY <1>5 DEF FinalizeImport, JobStatus
  <2> QED
    BY <2>1, <1>1, <1>2, <1>5, ImportsTyped DEF FinalizeImport
<1>6. CASE RestartImport(r)
  <2>1. during' \in [Deals -> SUBSET Work]
    BY <1>6, <1>1, NoteTyped DEF RestartImport, Work
  <2>2. "pending" \in JobStatus /\ imports' = [imports EXCEPT ![r] = [i EXCEPT !.job = "pending"]]
    BY <1>6 DEF RestartImport, JobStatus
  <2> QED
    BY <2>1, <2>2, <1>1, <1>2, <1>6, ImportsTyped DEF RestartImport
<1> QED
  BY <1>3, <1>4, <1>5, <1>6 DEF ImportStep

(* A deletion takes every reference to the submission with it.             *)
LEMMA DeletionTyped ==
    ASSUME TypeOK, NEW d \in Deals, deal' = DealsWithout(d),
           contract' = [k \in Analysts |-> IF contract[k].deal = d
                           THEN [contract[k] EXCEPT !.deal = NoDeal] ELSE contract[k]],
           edms' = edms \ {d},
           NEW g \in Group, Move(d, g), g.row = "absent",
           imports' \in [Requests -> Import],
           \A k \in Requests : IF imports[k].deal = d THEN imports'[k].row = "absent"
                               ELSE imports'[k] = imports[k],
           UNCHANGED <<export, during>>
    PROVE  TypeOK'
<1>1. deal' \in [Deals -> Deal]
  <2>1. \A e \in Deals : deal[e] \in Deal
    BY DEF TypeOK
  <2>2. \A w \in Deal : [w EXCEPT !.status = "deleted", !.link = NoDeal] \in Deal
                        /\ [w EXCEPT !.link = IF @ = d THEN NoDeal ELSE @] \in Deal
    BY DEF Deal
  <2> QED
    BY <2>1, <2>2 DEF DealsWithout, Deleted
<1>2. \A e \in Deals : e # d => deal'[e].status = deal[e].status
  BY DEF DealsWithout, TypeOK, Deal
<1>3. \A e \in Deals : e # d /\ Exists(e) => Exists(e)'
  BY <1>2 DEF Exists
<1>4. \A e \in Deals : deal'[e].link \in Deals \cup {NoDeal} /\ deal'[e].link # d
                       /\ (deal'[e].link = NoDeal \/ deal'[e].link = deal[e].link)
  BY SubmissionAssumption DEF DealsWithout, Deleted, TypeOK, Deal
<1>5. (\A e \in Deals : Resolves(deal[e].link))'
  BY <1>3, <1>4 DEF TypeOK, Resolves, Exists
<1>6. contract' \in [Analysts -> Contract]
  BY SMTT(60) DEF TypeOK, Contract
<1>7. \A k \in Analysts : contract'[k].deal \in Deals \cup {NoDeal} /\ contract'[k].deal # d
                          /\ (contract'[k].deal = NoDeal \/ contract'[k].deal = contract[k].deal)
  BY SubmissionAssumption DEF TypeOK, Contract
<1>8. (\A k \in Analysts : Resolves(contract[k].deal))'
  BY <1>3, <1>7 DEF TypeOK, Resolves, Exists
<1>9. edms' \subseteq Deals /\ (\A e \in edms : Exists(e))'
  BY <1>3 DEF TypeOK, Exists
<1>10. group' \in [Deals -> Group] /\ \A e \in Deals : group'[e].row # "absent" => e # d /\ group[e].row # "absent"
  BY DEF TypeOK, Move
<1>11. (\A e \in Deals : group[e].row # "absent" => Exists(e))'
  BY <1>3, <1>10 DEF TypeOK, Exists
<1>12. \A k \in Requests : imports'[k].row # "absent" => imports'[k] = imports[k] /\ imports[k].deal # d
  OBVIOUS
<1>13. (\A k \in Requests : imports[k].row # "absent" => imports[k].deal \in Deals /\ Exists(imports[k].deal))'
  BY SMTT(60), <1>3, <1>12 DEF TypeOK, Exists
<1> QED
  BY <1>1, <1>5, <1>6, <1>8, <1>9, <1>10, <1>11, <1>13 DEF TypeOK

LEMMA DeleteStepTyped ==
    ASSUME TypeOK, RequestsTyped, NEW r \in Requests, DeleteStep(r)
    PROVE  TypeOK'
<1> DEFINE d == request[r].deal
<1>1. CASE ReadIds(r)
  <2>1. during' \in [Deals -> SUBSET Work]
    BY <1>1 DEF ReadIds, TypeOK
  <2> QED
    BY <2>1, <1>1, JobsTyped DEF ReadIds, TypeOK
<1>2. CASE ReadJobs(r) \/ ReadIrpJobs(r) \/ ReadExports(r)
  BY <1>2, JobsTyped DEF ReadJobs, ReadIrpJobs, ReadExports, TypeOK
<1>3. CASE DeleteCommit(r) /\ UNCHANGED rows /\ UNCHANGED <<group, imports>>
  BY <1>3, JobsTyped DEF DeleteCommit, TypeOK
<1>4. CASE DeleteCommit(r) /\ ~ (UNCHANGED <<rows, group, imports>>)
  <2> DEFINE gone(x) == IF x \in request[r].failed THEN Cancelled(group[d][x]) ELSE group[d][x]
             stops(k) == IF k \in request[r].tried THEN Cancelled(imports[k].job) ELSE imports[k].job
             g == [group[d] EXCEPT !.row = "absent", !.job = gone("job"), !.finalize = gone("finalize")]
  <2>1. d \in Deals
    BY <1>4, ReadingHere DEF DeleteCommit, At, Reading
  <2>2. /\ deal' = DealsWithout(d)
        /\ contract' = [k \in Analysts |-> IF contract[k].deal = d
                           THEN [contract[k] EXCEPT !.deal = NoDeal] ELSE contract[k]]
        /\ edms' = edms \ {d} /\ Move(d, g)
        /\ imports' = [k \in Requests |-> IF imports[k].deal = d
                          THEN [imports[k] EXCEPT !.row = "absent", !.job = stops(k)] ELSE imports[k]]
        /\ UNCHANGED <<export, during>>
    BY <1>4 DEF DeleteCommit
  <2>3. g \in Group /\ g.row = "absent"
    <3>1. group[d] \in Group
      BY <2>1 DEF TypeOK
    <3>2. gone("job") \in JobStatus /\ gone("finalize") \in JobStatus
      BY <3>1 DEF Cancelled, Group, JobStatus
    <3> HIDE DEF gone
    <3> QED
      BY <3>1, <3>2 DEF Group
  <2>4. imports' \in [Requests -> Import]
    <3>1. \A k \in Requests : imports[k] \in Import /\ stops(k) \in JobStatus
      BY DEF TypeOK, Import, Cancelled, JobStatus
    <3> HIDE DEF stops
    <3>2. \A k \in Requests : [imports[k] EXCEPT !.row = "absent", !.job = stops(k)] \in Import
      BY <3>1 DEF Import
    <3> QED
      BY <3>1, <3>2, <2>2
  <2>5. \A k \in Requests : IF imports[k].deal = d THEN imports'[k].row = "absent"
                            ELSE imports'[k] = imports[k]
    BY <2>2 DEF TypeOK, Import
  <2> HIDE DEF g, d
  <2> QED
    BY <2>1, <2>2, <2>3, <2>4, <2>5, DeletionTyped
<1> QED
  BY <1>1, <1>2, <1>3, <1>4 DEF DeleteStep, DeleteCommit

LEMMA RequestOpTyped ==
    ASSUME TypeOK, RequestsTyped, NEW r \in Requests, RequestOp(r)
    PROVE  RequestsTyped'
<1>1. CASE Gate(r)
  <2>1. request[r] \in Asked
    BY <1>1, AskedHere DEF Gate
  <2>2. CASE End(r)
    BY <2>2, EndTyped
  <2>3. CASE ~ End(r)
    <3>1. PICK step \in {"ids", "write"} : request' = [request EXCEPT ![r] = [request[r] EXCEPT !.at = step]]
      BY <1>1, <2>3 DEF Gate, End
    <3>2. [request[r] EXCEPT !.at = step] \in Asked
      BY <2>1 DEF Asked
    <3> QED
      BY <3>1, <3>2, MoveTyped
  <2> QED
    BY <2>2, <2>3
<1>2. CASE InsertImport(r)
  <2>1. request[r] \in Asked
    BY <1>2, AskedHere DEF InsertImport, At
  <2>2. CASE End(r)
    BY <2>2, EndTyped
  <2>3. CASE request' = [request EXCEPT ![r] = [request[r] EXCEPT !.at = "enqueue"]]
    <3>1. [request[r] EXCEPT !.at = "enqueue"] \in Asked
      BY <2>1 DEF Asked
    <3> QED
      BY <3>1, <2>3, MoveTyped
  <2> QED
    BY <2>2, <2>3, <1>2 DEF InsertImport
<1>3. CASE EditStep(r) \/ RequestGroup(r) \/ RequestExport(r) \/ EnqueueImport(r) \/ RequestLost(r)
           \/ DeleteCommit(r)
  BY <1>3, EndTyped DEF EditStep, Update, Reassign, SetStatus, Create, Attach, Detach, AddContract,
     UpdateContract, SetContractStatus, RemoveContract, RequestGroup, RequestExport, EnqueueImport,
     RequestLost, DeleteCommit
<1> QED
  BY <1>1, <1>2, <1>3, AskTyped, DeleteReadsTyped DEF RequestOp, DeleteStep

(* Every other step belongs to a worker or to the poller.                  *)
OtherOp == (\E r \in Requests : FinalizeImport(r) \/ RestartImport(r)) \/ (\E d \in Deals : GroupStep(d))

LEMMA NextSplit ==
    ASSUME [Next]_vars
    PROVE  (\E r \in Requests : RequestOp(r)) \/ OtherOp \/ UNCHANGED vars
  BY DEF Next, RequestOp, OtherOp, ImportStep

LEMMA OtherOpLeavesRows ==
    ASSUME OtherOp
    PROVE  UNCHANGED <<rows, request>>
<1>1. ASSUME NEW d \in Deals, GroupStep(d) PROVE UNCHANGED <<rows, request>>
  BY <1>1 DEF GroupStep, ClaimGroup, Look, InsertMembers, Submit, Record, Poll, Finalize, Crash, Resubmit,
     SettleExport
<1> QED
  BY <1>1 DEF OtherOp, FinalizeImport, RestartImport

LEMMA RequestOpKeepsTypes ==
    ASSUME TypeOK, RequestsTyped, NEW r \in Requests, RequestOp(r)
    PROVE  TypeOK'
<1>1. CASE Ask(r) \/ Gate(r) \/ RequestLost(r)
  BY <1>1, JobsTyped DEF Ask, Gate, RequestLost, TypeOK
<1> QED
  BY <1>1, EditTyped, RequestWorkTyped, ImportStepTyped, DeleteStepTyped DEF RequestOp, ImportStep

LEMMA TypesKept ==
    ASSUME TypeOK, RequestsTyped, [Next]_vars
    PROVE  TypeOK' /\ RequestsTyped'
<1>1. CASE \E r \in Requests : RequestOp(r)
  BY <1>1, RequestOpTyped, RequestOpKeepsTypes
<1>2. CASE OtherOp
  <2>1. RequestsTyped'
    BY <1>2, OtherOpLeavesRows DEF RequestsTyped
  <2> QED
    BY <2>1, <1>2, GroupTyped, ImportStepTyped DEF OtherOp, ImportStep
<1>3. CASE UNCHANGED vars
  BY <1>3 DEF vars, rows, TypeOK, RequestsTyped, Resolves, Exists
<1> QED
  BY <1>1, <1>2, <1>3, NextSplit

LEMMA InitTyped ==
    ASSUME Init
    PROVE  TypeOK /\ RequestsTyped
<1> USE SubmissionAssumption
<1>1. NotShown \in Deal
  BY DEF NotShown, Deal, Analysts
<1>2. deal \in [Deals -> Deal] /\ \A d \in Deals : deal[d].link = NoDeal
  <2>1. \A s \in {"ACTIVE", "absent"} : [NotShown EXCEPT !.status = s] \in Deal
                                        /\ [NotShown EXCEPT !.status = s].link = NoDeal
    BY <1>1 DEF Deal, NotShown
  <2> QED
    BY <2>1 DEF Init
<1>3. Exists(First)
  BY DEF Init, Exists, NotShown
<1>4. contract \in [Analysts -> Contract] /\ \A k \in Analysts : contract[k].deal \in {First, NoDeal}
  BY DEF Init, Contract, Analysts
<1>5. group \in [Deals -> Group] /\ \A d \in Deals : group[d].row = "absent"
  BY DEF Init, NoGroup, Group, JobStatus
<1>6. imports \in [Requests -> Import] /\ \A r \in Requests : imports[r].row = "absent"
  BY DEF Init, NoImport, Import, JobStatus
<1>7. during \in [Deals -> SUBSET Work] /\ export \in [Deals -> {"absent", "open", "settled"}]
      /\ edms \subseteq {First}
  BY DEF Init
<1>8. TypeOK
  BY <1>2, <1>3, <1>4, <1>5, <1>6, <1>7 DEF TypeOK, Resolves
<1> QED
  BY <1>8 DEF Init, RequestsTyped

(* Every reachable state of the submissions is well typed, and nothing in  *)
(* it refers to a submission that is gone: no link, contract, attachment,  *)
(* group or import, whatever was deleted while it was being written.       *)
THEOREM TypeCorrect == Spec => []TypeOK
<1>1. Init => TypeOK /\ RequestsTyped
  BY InitTyped
<1>2. (TypeOK /\ RequestsTyped) /\ [Next]_vars => (TypeOK /\ RequestsTyped)'
  BY TypesKept
<1> QED
  BY <1>1, <1>2, PTL DEF Spec

-----------------------------------------------------------------------------
(* What a page carries *)

LEMMA NotEnded ==
    ASSUME NEW r \in Requests, RequestOp(r)
    PROVE  request[r] # Ended
<1>1. EditStep(r) \/ RequestGroup(r) \/ RequestExport(r) \/ InsertImport(r) \/ EnqueueImport(r)
        => request[r].at # "done"
  BY SMTT(60) DEF EditStep, Update, Reassign, SetStatus, Create, Attach, Detach, AddContract, UpdateContract,
     SetContractStatus, RemoveContract, RequestGroup, RequestExport, InsertImport, EnqueueImport, At
<1>2. Ask(r) \/ Gate(r) \/ DeleteStep(r) \/ RequestLost(r) => request[r].at # "done"
  BY DEF Ask, Gate, DeleteStep, ReadIds, ReadJobs, ReadIrpJobs, ReadExports, DeleteCommit, RequestLost, At
<1> QED
  BY <1>1, <1>2 DEF RequestOp, Ended

(* A deal moves on with its marker, or loses a link or is deleted without. *)
DealMovesOn(e) ==
    LET was == deal[e] is == deal'[e] IN
    /\ is.status # "absent" /\ was.version <= is.version
    /\ is.version = was.version /\ is.status \in {"ACTIVE", "closed"} =>
           is.text = was.text /\ is.owner = was.owner /\ is.status = was.status
           /\ is.link \in {was.link, NoDeal}

LEMMA DealsMoveOn ==
    ASSUME TypeOK, RequestsTyped, NEW r \in Requests, RequestOp(r),
           NEW e \in Deals, deal[e].status # "absent"
    PROVE  DealMovesOn(e)
<1> DEFINE d == request[r].deal
<1>1. deal[e] \in Deal /\ deal[e].version \in Nat
  BY DEF TypeOK, Deal
<1>same. CASE deal'[e] = deal[e]
  BY <1>same, <1>1 DEF DealMovesOn
<1>bump. ASSUME NEW w \in Deal, deal' = [deal EXCEPT ![d] = Bump(w)], w.version = deal[d].version,
                d = e, w.status # "absent"
         PROVE  DealMovesOn(e)
  <2>1. deal'[e] = Bump(w)
    BY <1>bump DEF TypeOK
  <2> QED
    BY <2>1, <1>bump, <1>1, BumpTyped DEF DealMovesOn
<1>2. CASE Update(r)
  <2>1. request[r] \in Asked
    BY <1>2, AskedHere DEF Update, At
  <2>2. CASE d = e /\ deal' # deal
    <3> DEFINE w == [deal[d] EXCEPT !.text = r, !.link = request[r].link]
    <3>1. w \in Deal /\ w.version = deal[d].version /\ w.status = deal[d].status
      BY <2>1, <2>2, <1>1 DEF Deal, Asked, Analysts
    <3>2. deal' = [deal EXCEPT ![d] = Bump(w)]
      BY <1>2, <2>2 DEF Update
    <3> HIDE DEF w
    <3> QED
      BY <3>1, <3>2, <2>2, <1>bump
  <2> QED
    BY <2>2, <1>2, <1>same DEF Update, TypeOK
<1>3. CASE Reassign(r)
  <2>2. CASE d = e /\ deal' # deal
    <3> DEFINE w == [deal[d] EXCEPT !.owner = r]
    <3>1. w \in Deal /\ w.version = deal[d].version /\ w.status = deal[d].status
      BY <2>2, <1>1 DEF Deal, Analysts
    <3>2. deal' = [deal EXCEPT ![d] = Bump(w)]
      BY <1>3, <2>2 DEF Reassign
    <3> HIDE DEF w
    <3> QED
      BY <3>1, <3>2, <2>2, <1>bump
  <2> QED
    BY <2>2, <1>3, <1>same DEF Reassign, TypeOK
<1>4. CASE SetStatus(r)
  <2>1. PICK s \in {"ACTIVE", "closed"} :
            deal' = IF ~ Unmoved(r) THEN deal ELSE [deal EXCEPT ![d] = Bump([@ EXCEPT !.status = s])]
    BY <1>4 DEF SetStatus
  <2>2. CASE d = e /\ deal' # deal
    <3> DEFINE w == [deal[d] EXCEPT !.status = s]
    <3>1. w \in Deal /\ w.version = deal[d].version /\ w.status = s
      BY <2>2, <1>1 DEF Deal
    <3>2. deal' = [deal EXCEPT ![d] = Bump(w)]
      BY <2>1, <2>2
    <3> HIDE DEF w
    <3> QED
      BY <3>1, <3>2, <2>2, <1>bump
  <2> QED
    BY <2>1, <2>2, <1>same DEF TypeOK
<1>5. CASE Create(r)
  <2>1. deal' = deal \/ (deal[d].status = "absent" /\ \E w : deal' = [deal EXCEPT ![d] = w])
    BY <1>5 DEF Create
  <2> QED
    BY <2>1, <1>same DEF TypeOK
<1>6. CASE DeleteCommit(r) /\ deal' = DealsWithout(d)
  <2>1. CASE e = d
    <3>1. deal'[e].status = "deleted" /\ deal'[e].version = deal[e].version
      BY <1>6, <2>1, <1>1 DEF DealsWithout, Deleted, Deal
    <3> QED
      BY <3>1, <1>1 DEF DealMovesOn
  <2>2. CASE e # d
    <3>1. deal'[e] = [deal[e] EXCEPT !.link = IF @ = d THEN NoDeal ELSE @]
      BY <1>6, <2>2 DEF DealsWithout
    <3>2. /\ deal'[e].status = deal[e].status /\ deal'[e].version = deal[e].version
          /\ deal'[e].text = deal[e].text /\ deal'[e].owner = deal[e].owner
          /\ deal'[e].link \in {deal[e].link, NoDeal}
      BY <3>1, <1>1 DEF Deal
    <3> QED
      BY <3>2, <1>1 DEF DealMovesOn
  <2> QED
    BY <2>1, <2>2
<1>7. CASE UNCHANGED deal
  BY <1>7, <1>same
<1>8. EditStep(r) => Update(r) \/ Reassign(r) \/ SetStatus(r) \/ Create(r) \/ UNCHANGED deal
  BY SMTT(60) DEF EditStep, Attach, Detach, AddContract, UpdateContract, SetContractStatus, RemoveContract
<1>9. DeleteStep(r) => (DeleteCommit(r) /\ deal' = DealsWithout(d)) \/ UNCHANGED deal
  BY DEF DeleteStep, ReadIds, ReadJobs, ReadIrpJobs, ReadExports, DeleteCommit, rows
<1>10. Ask(r) \/ Gate(r) \/ RequestGroup(r) \/ RequestExport(r) \/ InsertImport(r) \/ EnqueueImport(r)
         \/ RequestLost(r) => UNCHANGED deal
  BY DEF Ask, Gate, RequestGroup, RequestExport, InsertImport, EnqueueImport, RequestLost, rows
<1> QED
  BY <1>2, <1>3, <1>4, <1>5, <1>6, <1>7, <1>8, <1>9, <1>10 DEF RequestOp

(* So does a contract; another request does not add it.                    *)
ContractMovesOn(k) ==
    LET was == contract[k] is == contract'[k] IN
    \/ is = was
    \/ is.deal = was.deal /\ is.version = was.version + 1
    \/ is.deal = NoDeal /\ is.version = was.version

LEMMA ContractsMoveOn ==
    ASSUME TypeOK, RequestsTyped, NEW r \in Requests, RequestOp(r), NEW k \in Analysts, k # r
    PROVE  ContractMovesOn(k)
<1> DEFINE q == request[r]
<1>1. contract[k] \in Contract /\ r \in Analysts
  BY DEF TypeOK, Analysts
<1>2. CASE UNCHANGED contract
  BY <1>2 DEF ContractMovesOn
<1>3. CASE UpdateContract(r) /\ contract' # contract /\ q.k = k
  <2>1. q \in Asked
    BY <1>3, AskedHere DEF UpdateContract, At
  <2> DEFINE c == [contract[k] EXCEPT !.crm = q.crm, !.text = r]
  <2>2. c \in Contract /\ c.deal = contract[k].deal /\ c.version = contract[k].version
    BY <2>1, <1>1 DEF Contract, Asked
  <2>3. contract'[k] = Bump(c)
    BY <1>3 DEF UpdateContract, TypeOK
  <2> HIDE DEF c
  <2> QED
    BY <2>2, <2>3, BumpTyped DEF ContractMovesOn
<1>4. CASE SetContractStatus(r) /\ contract' # contract /\ q.k = k
  <2> DEFINE c == [contract[k] EXCEPT !.text = r]
  <2>2. c \in Contract /\ c.deal = contract[k].deal /\ c.version = contract[k].version
    BY <1>1 DEF Contract
  <2>3. contract'[k] = Bump(c)
    BY <1>4 DEF SetContractStatus, TypeOK
  <2> HIDE DEF c
  <2> QED
    BY <2>2, <2>3, BumpTyped DEF ContractMovesOn
<1>5. CASE RemoveContract(r) /\ q.k = k
  <2>1. contract'[k] = [contract[k] EXCEPT !.deal = NoDeal]
    BY <1>5 DEF RemoveContract, TypeOK
  <2> QED
    BY <2>1, <1>1 DEF ContractMovesOn, Contract
<1>6. CASE (UpdateContract(r) \/ SetContractStatus(r) \/ RemoveContract(r)) /\ q.k # k
  <2>1. contract'[k] = contract[k]
    BY <1>6 DEF UpdateContract, SetContractStatus, RemoveContract, TypeOK
  <2> QED
    BY <2>1 DEF ContractMovesOn
<1>7. CASE Create(r) \/ AddContract(r)
  <2>1. contract'[k] = contract[k]
    BY <1>7 DEF Create, AddContract, TypeOK
  <2> QED
    BY <2>1 DEF ContractMovesOn
<1>8. CASE DeleteCommit(r) /\ contract' # contract
  <2>1. contract'[k] = contract[k] \/ contract'[k] = [contract[k] EXCEPT !.deal = NoDeal]
    BY <1>8 DEF DeleteCommit, rows
  <2> QED
    BY <2>1, <1>1 DEF ContractMovesOn, Contract
<1>9. EditStep(r) => \/ Create(r) \/ AddContract(r) \/ UpdateContract(r) \/ SetContractStatus(r)
                     \/ RemoveContract(r) \/ UNCHANGED contract
  BY DEF EditStep, Update, Reassign, SetStatus, Attach, Detach
<1>10. DeleteStep(r) => DeleteCommit(r) \/ UNCHANGED contract
  BY DEF DeleteStep, ReadIds, ReadJobs, ReadIrpJobs, ReadExports, rows
<1>11. Ask(r) \/ Gate(r) \/ RequestGroup(r) \/ RequestExport(r) \/ InsertImport(r) \/ EnqueueImport(r)
         \/ RequestLost(r) => UNCHANGED contract
  BY DEF Ask, Gate, RequestGroup, RequestExport, InsertImport, EnqueueImport, RequestLost, rows
<1> QED
  BY <1>2, <1>3, <1>4, <1>5, <1>6, <1>7, <1>8, <1>9, <1>10, <1>11 DEF RequestOp

(* A request that has not ended has added nothing yet.                     *)
LEMMA AddedLastKept ==
    ASSUME TypeOK, RequestsTyped, AddedLast, NEW r \in Requests, RequestOp(r)
    PROVE  AddedLast'
<1> SUFFICES ASSUME NEW k \in Requests, contract'[k].deal # NoDeal
             PROVE  request'[k] = Ended
  BY DEF AddedLast, Ended
<1>1. CASE k # r
  <2>1. ContractMovesOn(k)
    BY <1>1, ContractsMoveOn DEF Analysts
  <2>2. request[k] = Ended
    BY <2>1 DEF ContractMovesOn, AddedLast
  <2> QED
    BY <1>1, <2>2, OthersWait DEF RequestsTyped
<1>2. CASE k = r
  <2>1. contract[r].deal = NoDeal
    BY NotEnded DEF AddedLast
  <2>2. contract' # contract
    BY SMTT(60), <1>2, <2>1
  <2>3. EditStep(r) \/ DeleteCommit(r)
    BY ZenonT(60), <2>2 DEF RequestOp, DeleteStep, ReadIds, ReadJobs, ReadIrpJobs, ReadExports, Ask, Gate,
       RequestGroup, RequestExport, InsertImport, EnqueueImport, RequestLost, rows
  <2>4. End(r)
    BY <2>3 DEF DeleteCommit, EditStep, Update, Reassign, SetStatus, Create, Attach, Detach, AddContract,
       UpdateContract, SetContractStatus, RemoveContract
  <2> QED
    BY <1>2, <2>4 DEF End, RequestsTyped
<1> QED
  BY <1>1, <1>2

(* The steps of the others keep what a page carries.                       *)
LEMMA PageOutlivesOthers ==
    ASSUME TypeOK, RequestsTyped, PagesKept, NEW r \in Requests, RequestOp(r),
           NEW q \in Requests, q # r
    PROVE  PageKept(q)' /\ TermsKept(q)'
<1>1. request'[q] = request[q]
  BY OthersWait DEF RequestsTyped
<1>2. ASSUME request[q].at \in {"gate", "write"}
      PROVE  request[q] \in Asked
  BY <1>2, AskedHere
<1>3. ASSUME request[q].at \in {"gate", "write"}, request[q].kind \in {"edit", "owner", "status"}
      PROVE  PageKept(q)'
  <2> DEFINE e == request[q].deal
             shown == request[q].shown
  <2>1. e \in Deals /\ shown \in Deal /\ deal[e] \in Deal
    BY <1>2, <1>3 DEF Asked, TypeOK
  <2>2. PageKept(q) /\ deal[e].status # "absent" /\ shown.version <= deal[e].version
    BY <1>3 DEF PagesKept, PageKept
  <2>3. DealMovesOn(e)
    BY <2>1, <2>2, DealsMoveOn
  <2>4. shown.version \in Nat /\ deal[e].version \in Nat /\ deal'[e].version \in Nat
    <3>1. deal'[e] \in Deal
      BY <2>1, RequestOpKeepsTypes DEF TypeOK
    <3> QED
      BY <3>1, <2>1 DEF Deal
  <2>5. deal'[e].status # "absent" /\ shown.version <= deal'[e].version
    BY <2>2, <2>3, <2>4 DEF DealMovesOn
  <2>6. ASSUME deal'[e].status \in {"ACTIVE", "closed"}, deal'[e].version = shown.version
        PROVE  /\ deal'[e].text = shown.text /\ deal'[e].owner = shown.owner
               /\ deal'[e].status = shown.status /\ deal'[e].link \in {shown.link, NoDeal}
               /\ request[q].at = "write" /\ request[q].kind # "status" => deal'[e].status = "ACTIVE"
    <3>1. deal'[e].version = deal[e].version
      BY <2>2, <2>3, <2>4, <2>6 DEF DealMovesOn
    <3>2. /\ deal'[e].text = deal[e].text /\ deal'[e].owner = deal[e].owner
          /\ deal'[e].status = deal[e].status /\ deal'[e].link \in {deal[e].link, NoDeal}
      BY <3>1, <2>3, <2>6 DEF DealMovesOn
    <3>3. Exists(e) /\ deal[e].version = shown.version
      BY <3>1, <3>2, <2>6 DEF Exists
    <3> QED
      BY <3>2, <3>3, <2>2, <1>3 DEF PageKept
  <2> QED
    BY <2>5, <2>6, <1>1 DEF PageKept, Exists
<1>4. ASSUME request[q].at \in {"gate", "write"}, request[q].kind \in {"change", "mark"}
      PROVE  TermsKept(q)'
  <2> DEFINE k == request[q].k
             terms == request[q].terms
  <2>1. k \in Analysts /\ terms \in Contract /\ contract[k] \in Contract /\ request[q].deal \in Deals
    BY <1>2, <1>4 DEF Asked, TypeOK
  <2>2. /\ terms.version <= contract[k].version
        /\ contract[k].deal = request[q].deal /\ contract[k].version = terms.version => contract[k] = terms
        /\ k \in Requests => request[k] = Ended
    BY <1>4 DEF PagesKept, TermsKept
  <2>3. k # r
    BY <2>2, NotEnded
  <2>4. ContractMovesOn(k)
    BY <2>1, <2>3, ContractsMoveOn
  <2>5. terms.version \in Nat /\ contract[k].version \in Nat /\ NoDeal # request[q].deal
    BY <2>1, SubmissionAssumption DEF Contract
  <2>6. terms.version <= contract'[k].version
    BY <2>2, <2>4, <2>5 DEF ContractMovesOn
  <2>7. contract'[k].deal = request[q].deal /\ contract'[k].version = terms.version => contract'[k] = terms
    BY <2>2, <2>4, <2>5 DEF ContractMovesOn
  <2>8. k \in Requests => request'[k] = Ended
    BY <2>2, <2>3, OthersWait DEF RequestsTyped
  <2> QED
    BY <2>6, <2>7, <2>8, <1>1 DEF TermsKept, Ended
<1> QED
  BY <1>1, <1>3, <1>4 DEF PageKept, TermsKept

(* A page is true when it is made, and the gate only asks for more.        *)
LEMMA PageMadeTrue ==
    ASSUME TypeOK, RequestsTyped, PagesKept, NEW r \in Requests, Ask(r)
    PROVE  PageKept(r)' /\ TermsKept(r)'
<1>1. PICK kind \in Kinds, d \in Deals, k \in Analysts, l \in Deals \cup {NoDeal}, c \in CrmIds :
          /\ IF kind = "create" THEN deal[d].status = "absent" ELSE Exists(d)
          /\ IF kind \in {"change", "mark", "remove"} THEN contract[k].deal = d ELSE k = Nobody
          /\ request' = [request EXCEPT ![r] = Page(kind, d, k, l, c)]
  BY DEF Ask
<1>2. UNCHANGED <<deal, contract>> /\ request[r] # Ended
  BY NotEnded DEF Ask, rows, RequestOp
<1>3. request'[r] = Page(kind, d, k, l, c)
  BY <1>1 DEF RequestsTyped
<1> DEFINE p == request'[r]
<1>4. /\ p.at = "gate" /\ p.kind = kind /\ p.deal = d /\ p.k = k /\ p.terms = contract[k]
      /\ kind \in {"edit", "owner", "status"} => p.shown = deal[d]
  BY <1>3 DEF Page
<1>5. deal[d] \in Deal /\ deal[d].version \in Nat /\ contract[k].version \in Nat
  BY DEF TypeOK, Deal, Contract
<1>6. PageKept(r)'
  BY <1>1, <1>2, <1>4, <1>5 DEF PageKept, Exists
<1>7. kind \in {"change", "mark"} /\ k \in Requests => request'[k] = Ended
  <2> SUFFICES ASSUME kind \in {"change", "mark"}, k \in Requests
               PROVE  request'[k] = Ended
    OBVIOUS
  <2>1. request[k] = Ended
    BY <1>1, SubmissionAssumption DEF PagesKept, AddedLast
  <2> QED
    BY <1>1, <1>2, <2>1 DEF RequestsTyped
<1>8. TermsKept(r)'
  BY <1>2, <1>4, <1>5, <1>7 DEF TermsKept, Ended
<1> QED
  BY <1>6, <1>8

LEMMA PageOutlivesGate ==
    ASSUME TypeOK, RequestsTyped, PagesKept, NEW r \in Requests, Gate(r)
    PROVE  PageKept(r)' /\ TermsKept(r)'
<1>1. UNCHANGED <<deal, contract>>
  BY DEF Gate, rows
<1>2. CASE request' = [request EXCEPT ![r] = Ended]
  BY <1>2 DEF RequestsTyped, Ended, PageKept, TermsKept
<1>3. CASE Passes(r) /\ request' # [request EXCEPT ![r] = Ended]
  <2> DEFINE q == request[r]
             p == request'[r]
  <2>1. q \in Asked /\ q.at = "gate"
    BY AskedHere DEF Gate
  <2>2. p = [q EXCEPT !.at = IF q.kind = "delete" THEN "ids" ELSE "write"]
    BY <1>3 DEF Gate, RequestsTyped
  <2>3. /\ p.kind = q.kind /\ p.deal = q.deal /\ p.k = q.k /\ p.terms = q.terms /\ p.shown = q.shown
        /\ p.at \in {"ids", "write"}
    BY <2>1, <2>2 DEF Asked
  <2>4. q.kind \in {"edit", "owner"} => deal[q.deal].status = "ACTIVE"
    BY <1>3 DEF Passes, Editable
  <2>5. PageKept(r) /\ TermsKept(r)
    BY DEF PagesKept
  <2>6. PageKept(r)'
    BY <2>1, <2>3, <2>4, <2>5, <1>1 DEF PageKept, Exists
  <2>7. q.kind \in {"change", "mark"} /\ q.k \in Requests => request'[q.k] = Ended
    <3>1. q # Ended
      BY <2>1 DEF Ended
    <3> QED
      BY <3>1, <2>1, <2>5, OthersWait DEF TermsKept, RequestOp, RequestsTyped
  <2>8. TermsKept(r)'
    BY <2>1, <2>3, <2>5, <2>7, <1>1 DEF TermsKept, Ended
  <2> QED
    BY <2>6, <2>8
<1> QED
  BY <1>2, <1>3 DEF Gate

LEMMA PagesKeptByRequest ==
    ASSUME TypeOK, RequestsTyped, PagesKept, NEW r \in Requests, RequestOp(r)
    PROVE  PagesKept'
<1>1. PageKept(r)' /\ TermsKept(r)'
  <2>1. CASE ~ (Ask(r) \/ Gate(r))
    <3>1. request'[r].at \notin {"gate", "write"}
      <4>1. EditStep(r) \/ RequestGroup(r) \/ RequestExport(r) \/ EnqueueImport(r) \/ RequestLost(r)
              \/ DeleteCommit(r) => End(r)
        BY DEF EditStep, Update, Reassign, SetStatus, Create, Attach, Detach, AddContract,
           UpdateContract, SetContractStatus, RemoveContract, RequestGroup, RequestExport, EnqueueImport,
           RequestLost, DeleteCommit
      <4>2. End(r) => request'[r].at = "done"
        BY DEF End, Ended, RequestsTyped
      <4>3. InsertImport(r) => End(r) \/ request'[r].at = "enqueue"
        BY AskedHere DEF InsertImport, At, RequestsTyped, Asked
      <4>4. ReadIds(r) => request'[r].at = "jobs"
        BY DEF ReadIds, RequestsTyped
      <4>5. ReadJobs(r) \/ ReadIrpJobs(r) \/ ReadExports(r)
              => request'[r].at \in {"irpJobs", "exports", "commit"}
        <5>1. CASE ReadJobs(r)
          <6>1. request[r] \in Reading
            BY <5>1, ReadingHere DEF ReadJobs, At
          <6>2. PICK b, f, t : request' = [request EXCEPT ![r].at = "irpJobs", ![r].failed = f,
                                              ![r].blocked = b, ![r].tried = t]
            BY <5>1 DEF ReadJobs
          <6> QED
            BY <6>1, <6>2 DEF RequestsTyped, Reading
        <5>2. CASE ReadIrpJobs(r)
          <6>1. request[r] \in Reading
            BY <5>2, ReadingHere DEF ReadIrpJobs, At
          <6>2. PICK b : request' = [request EXCEPT ![r].at = "exports", ![r].blocked = b]
            BY <5>2 DEF ReadIrpJobs
          <6> QED
            BY <6>1, <6>2 DEF RequestsTyped, Reading
        <5>3. CASE ReadExports(r)
          <6>1. request[r] \in Reading
            BY <5>3, ReadingHere DEF ReadExports, At
          <6>2. PICK b : request' = [request EXCEPT ![r].at = "commit", ![r].blocked = b]
            BY <5>3 DEF ReadExports
          <6> QED
            BY <6>1, <6>2 DEF RequestsTyped, Reading
        <5> QED
          BY <5>1, <5>2, <5>3
      <4> QED
        BY SMTT(60), <2>1, <4>1, <4>2, <4>3, <4>4, <4>5 DEF RequestOp, DeleteStep
    <3> QED
      BY <3>1 DEF PageKept, TermsKept
  <2> QED
    BY <2>1, PageMadeTrue, PageOutlivesGate
<1> QED
  BY <1>1, PageOutlivesOthers, AddedLastKept DEF PagesKept

LEMMA PagesStayKept ==
    ASSUME TypeOK, RequestsTyped, PagesKept, [Next]_vars
    PROVE  PagesKept'
<1>1. CASE \E r \in Requests : RequestOp(r)
  BY <1>1, PagesKeptByRequest
<1>2. CASE UNCHANGED <<rows, request>>
  BY <1>2 DEF rows, PagesKept, AddedLast, PageKept, TermsKept, Exists, Ended
<1> QED
  BY <1>1, <1>2, NextSplit, OtherOpLeavesRows DEF vars

LEMMA InitKept ==
    ASSUME Init
    PROVE  PagesKept
<1>1. \A r \in Requests : request[r].at = "idle"
  BY DEF Init
<1>2. \A k \in Requests : contract[k].deal = NoDeal
  BY SubmissionAssumption DEF Init, Analysts
<1> QED
  BY <1>1, <1>2 DEF PagesKept, AddedLast, PageKept, TermsKept

(* What an analyst saves replaces what the analyst saw: whatever the other *)
(* requests, the deletions and the jobs do between the page and the write, *)
(* an edit, an owner, a status or a contract's terms are written over      *)
(* exactly the values the page showed, but for a link a deletion cleared.  *)
THEOREM NothingSavedUnseen == Spec => EditsReplaceWhatTheyShowed
<1>1. Init => TypeOK /\ RequestsTyped /\ PagesKept
  BY InitTyped, InitKept
<1>2. (TypeOK /\ RequestsTyped /\ PagesKept) /\ [Next]_vars => (TypeOK /\ RequestsTyped /\ PagesKept)'
  BY TypesKept, PagesStayKept
<1>3. (TypeOK /\ RequestsTyped /\ PagesKept) /\ [Next]_vars
        => [\A r \in Requests : WriteReplacesWhatItShowed(r)]_vars
  <2> SUFFICES ASSUME TypeOK, RequestsTyped, PagesKept, Next, NEW r \in Requests,
                      request[r].at = "write", request'[r].at = "done"
               PROVE  WriteReplacesWhatItShowed(r)
    BY DEF WriteReplacesWhatItShowed
  <2> DEFINE q == request[r]
  <2>1. RequestOp(r)
    BY NextSplit, OtherOpLeavesRows, OthersWait DEF RequestsTyped, vars
  <2>2. q \in Asked /\ PageKept(r) /\ TermsKept(r)
    BY AskedHere DEF PagesKept
  <2>3. ASSUME q.kind \in {"edit", "owner", "status"}, deal'[q.deal] # deal[q.deal]
        PROVE  DealWasShown(r)
    <3>1. Unmoved(r)
      BY <2>1, <2>3 DEF RequestOp, EditStep, Update, Reassign, SetStatus, Create, Attach, Detach,
         AddContract, UpdateContract, SetContractStatus, RemoveContract, DeleteStep, ReadIds, ReadJobs,
         ReadIrpJobs, ReadExports, DeleteCommit, Ask, Gate, RequestGroup, RequestExport, InsertImport,
         EnqueueImport, RequestLost, At, rows
    <3> QED
      BY <2>2, <2>3, <3>1 DEF PageKept, Unmoved, DealWasShown
  <2>4. ASSUME q.kind \in {"change", "mark"}, contract'[q.k] # contract[q.k]
        PROVE  contract[q.k] = q.terms
    <3>1. UnmovedContract(r)
      BY <2>1, <2>4 DEF RequestOp, EditStep, Update, Reassign, SetStatus, Create, Attach, Detach,
         AddContract, UpdateContract, SetContractStatus, RemoveContract, DeleteStep, ReadIds, ReadJobs,
         ReadIrpJobs, ReadExports, DeleteCommit, Ask, Gate, RequestGroup, RequestExport, InsertImport,
         EnqueueImport, RequestLost, At, rows
    <3> QED
      BY <2>2, <2>4, <3>1 DEF TermsKept, UnmovedContract
  <2> QED
    BY <2>3, <2>4 DEF WriteReplacesWhatItShowed
<1> QED
  BY <1>1, <1>2, <1>3, PTL DEF Spec, EditsReplaceWhatTheyShowed

-----------------------------------------------------------------------------
(* What outlives a submission *)

Reads   == {"jobs", "irpJobs", "exports", "commit"}
SawJobs == Reads \ {"jobs"}
SawIrp  == SawJobs \ {"irpJobs"}

Noted(d, work) == during[d] \cap work # {}

\* A job that runs, or may once it is resubmitted, but for one that failed and
\* that the deletion cancels.
MayRun(status, cancelled) == status \in Live \/ (status = "failed" /\ ~ cancelled)
JobNoted(d, cancelled) == MayRun(group[d].job, cancelled) => Noted(d, {"requested", "resubmitted"})
FinalizeNoted(d, cancelled) ==
    MayRun(group[d].finalize, cancelled) => Noted(d, {"handed over", "resubmitted"})
ImportNoted(k, d, cancelled) ==
    imports[k].deal = d /\ MayRun(imports[k].job, cancelled) => Noted(d, {"imported", "resubmitted"})
ExportNoted(d) == export[d] = "open" => Noted(d, {"exported"})
SentNoted(d) ==
    group[d].irp = "running" \/ group[d].at \in {"submit", "record"} => Noted(d, {"resubmitted"})

\* A group's job is at work while it runs, has a row to show for itself, and until
\* the deletion submits only what it has inserted.
GroupKept(d) ==
    LET g == group[d] IN
    /\ g.at # "idle" => g.job = "running"
    /\ g.row # "absent" => g.job # "absent"
    /\ g.at \in {"submit", "record"} /\ deal[d].status # "deleted" => g.row = "full"

\* The finalize job of an import is queued by the request's last step.
ImportKept(r) ==
    /\ imports[r].job # "absent" => request[r] = Ended
    /\ request[r].at = "enqueue" => request[r].kind = "import" /\ imports[r].deal = request[r].deal

\* What a deletion that found nothing in its way has read of a group it may go
\* past: a row that it does not know of, which it fails on when it is full.
UnknownRow(r) == ~ request[r].ids /\ group[request[r].deal].row = "full"
ReadKept(r) ==
    LET q == request[r] d == q.deal g == group[d] IN
    /\ q.at \in Reads \cup {"ids"} /\ q.kind = "delete" => deal[d].status # "absent"
    /\ q.at \in Reads /\ Exists(d) /\ q.ids => g.row # "absent"
    /\ q.at \in SawJobs /\ ~ q.blocked /\ Exists(d) =>
           /\ JobNoted(d, "job" \in q.failed) /\ FinalizeNoted(d, "finalize" \in q.failed)
           /\ \A k \in Requests : ImportNoted(k, d, k \in q.tried)
           /\ g.job \in Live => ~ q.ids \/ Noted(d, {"resubmitted"})
           /\ q.at \in SawIrp /\ g.irp = "running" => UnknownRow(r) \/ Noted(d, {"resubmitted"})
           /\ q.at = "commit" => ExportNoted(d)

DeletedKept(d) ==
    deal[d].status = "deleted" =>
        /\ JobNoted(d, FALSE) /\ FinalizeNoted(d, FALSE) /\ ExportNoted(d) /\ SentNoted(d)
        /\ \A k \in Requests : ImportNoted(k, d, FALSE)

WorkKept == /\ \A d \in Deals : GroupKept(d) /\ DeletedKept(d)
            /\ \A r \in Requests : ImportKept(r) /\ ReadKept(r)

(* What anyone else may do to the work of a submission that is being       *)
(* deleted, or is gone: what may run from now on might have before, or its *)
(* beginning is noted.                                                     *)
Watched(d) == (Exists(d) /\ Deleting(d)) \/ deal[d].status = "deleted"
NotedIf(here, d, work) == here => work \in during'[d]

GroupMovesOn(d) ==
    LET was == group[d] is == group'[d] IN
    /\ during[d] \subseteq during'[d]
    /\ is.job \in Live => \/ was.job \in Live
                          \/ was.job = "absent" /\ "requested" \in during'[d]
                          \/ was.job = "failed" /\ NotedIf(Exists(d), d, "resubmitted")
    /\ is.job = "failed" => was.job \in Live \cup {"failed"}
    /\ is.finalize \in Live => \/ was.finalize \in Live
                               \/ was.irp = "running" /\ NotedIf(Exists(d), d, "handed over")
                               \/ was.finalize = "failed" /\ NotedIf(Exists(d), d, "resubmitted")
    /\ is.finalize = "failed" => was.finalize \in Live \cup {"failed"}
    /\ is.irp = "running" => was.irp = "running" \/ (was.at = "record" /\ was.row = "full")
    /\ is.at \in {"submit", "record"} => was.at \in {"submit", "record"} \/ was.row # "absent"
    /\ was.row = "full" => is.row = "full"
    /\ was.row # "absent" => is.row # "absent"

ImportMovesOn(k, d) ==
    LET was == imports[k] is == imports'[k] IN
    is.deal = d =>
        /\ is.job \in Live => \/ "imported" \in during'[d]
                              \/ was.deal = d /\ was.job \in Live
                              \/ was.deal = d /\ was.job = "failed" /\ NotedIf(Exists(d), d, "resubmitted")
        /\ is.job = "failed" => was.deal = d /\ was.job \in Live \cup {"failed"}

ExportMovesOn(d) == export'[d] = "open" => export[d] = "open" \/ "exported" \in during'[d]

WorkMovesOn(d) == GroupMovesOn(d) /\ ExportMovesOn(d) /\ \A k \in Requests : ImportMovesOn(k, d)

(* What begins during a deletion is noted.                                 *)
LEMMA NoteLands ==
    ASSUME TypeOK, NEW d \in Deals, Watched(d), NEW e, NEW work, Note(e, work)
    PROVE  during[d] \subseteq during'[d] /\ (d = e /\ Exists(d) => work \in during'[d])
  BY DEF TypeOK, Note, Watched, Exists

LEMMA NoteRequestLands ==
    ASSUME TypeOK, NEW d \in Deals, Watched(d), NEW e, NEW work, NoteRequest(e, work)
    PROVE  during[d] \subseteq during'[d] /\ (d = e => work \in during'[d])
  BY DEF TypeOK, NoteRequest, Watched, Exists

(* The work of a submission that a step leaves alone moves on as it is.    *)
LEMMA GroupStands ==
    ASSUME TypeOK, NEW d \in Deals, group'[d] = group[d], during[d] \subseteq during'[d]
    PROVE  GroupMovesOn(d)
  BY DEF GroupMovesOn

LEMMA ImportStands ==
    ASSUME NEW d \in Deals, NEW k \in Requests, imports'[k] = imports[k]
    PROVE  ImportMovesOn(k, d)
  BY DEF ImportMovesOn

LEMMA WorkStands ==
    ASSUME TypeOK, NEW d \in Deals, group'[d] = group[d], export'[d] = export[d],
           during[d] \subseteq during'[d], UNCHANGED imports
    PROVE  WorkMovesOn(d)
  BY GroupStands, ImportStands DEF WorkMovesOn, ExportMovesOn

(* A step of the group's jobs, of its own and of another submission's.     *)
LEMMA GroupStepMovesOn ==
    ASSUME TypeOK, NEW d \in Deals, Watched(d), GroupKept(d), GroupStep(d)
    PROVE  WorkMovesOn(d)
<1> DEFINE g == group[d]
           h == group'[d]
<1>1. g \in Group
  BY DEF TypeOK
<1>2. ASSUME NEW x, Move(d, x)
      PROVE  h = x
  BY <1>2 DEF Move, TypeOK
<1>3. \A k \in Requests : imports' = imports => ImportMovesOn(k, d)
  BY ImportStands
<1>4. g.at # "idle" => g.job = "running"
  BY DEF GroupKept
<1>5. during' = during => during[d] \subseteq during'[d]
  OBVIOUS
<1>6. CASE ClaimGroup(d)
  <2>1. h = [g EXCEPT !.job = "running", !.at = "look"]
    BY <1>2, <1>6 DEF ClaimGroup
  <2>2. GroupMovesOn(d)
    BY <2>1, <1>1, <1>5, <1>6 DEF ClaimGroup, GroupMovesOn, Group, Live
  <2> QED
    BY <2>2, <1>3, <1>6 DEF ClaimGroup, WorkMovesOn, ExportMovesOn
<1>7. CASE Look(d)
  <2> DEFINE done == [g EXCEPT !.job = "succeeded", !.at = "idle"]
             found == [g EXCEPT !.at = "members"]
             made == [g EXCEPT !.at = "members", !.row = "bare"]
  <2>0. Move(d, done) \/ Move(d, found) \/ (Move(d, made) /\ g.row = "absent") \/ Move(d, Fails(g))
    BY <1>7 DEF Look
  <2>1. h = done \/ h = found \/ (h = made /\ g.row = "absent") \/ h = Fails(g)
    <3> HIDE DEF done, found, made
    <3> QED
      BY <2>0, <1>2
  <2>2. GroupMovesOn(d)
    BY <2>1, <1>1, <1>4, <1>5, <1>7 DEF Look, GroupMovesOn, Group, Live, Fails
  <2> QED
    BY <2>2, <1>3, <1>7 DEF Look, WorkMovesOn, ExportMovesOn
<1>8. CASE InsertMembers(d)
  <2>1. h = IF g.row = "absent" THEN Fails(g) ELSE [g EXCEPT !.at = "submit", !.row = "full"]
    BY <1>2, <1>8 DEF InsertMembers
  <2>2. GroupMovesOn(d)
    BY <2>1, <1>1, <1>4, <1>5, <1>8 DEF InsertMembers, GroupMovesOn, Group, Live, Fails
  <2> QED
    BY <2>2, <1>3, <1>8 DEF InsertMembers, WorkMovesOn, ExportMovesOn
<1>9. CASE Submit(d)
  <2>1. h \in {[g EXCEPT !.at = "record"], [Fails(g) EXCEPT !.irp = "failed"], Fails(g)}
    BY <1>2, <1>9 DEF Submit
  <2>2. GroupMovesOn(d)
    BY <2>1, <1>1, <1>4, <1>5, <1>9 DEF Submit, GroupMovesOn, Group, Live, Fails
  <2> QED
    BY <2>2, <1>3, <1>9 DEF Submit, WorkMovesOn, ExportMovesOn
<1>10. CASE Record(d)
  <2>1. h = IF g.row # "full" THEN Fails(g)
            ELSE [g EXCEPT !.job = "succeeded", !.at = "idle", !.irp = "running"]
    BY <1>2, <1>10 DEF Record
  <2>2. GroupMovesOn(d)
    BY <2>1, <1>1, <1>4, <1>5, <1>10 DEF Record, GroupMovesOn, Group, Live, Fails
  <2> QED
    BY <2>2, <1>3, <1>10 DEF Record, WorkMovesOn, ExportMovesOn
<1>11. CASE Poll(d)
  <2>1. \/ h = [g EXCEPT !.irp = "finished", !.finalize = "pending"] /\ Note(d, "handed over")
        \/ h = [g EXCEPT !.irp = "failed"] /\ during' = during
    BY <1>2, <1>11 DEF Poll
  <2>2. during[d] \subseteq during'[d] /\ (h.irp = "finished" /\ Exists(d) => "handed over" \in during'[d])
    BY <2>1, <1>1, NoteLands DEF Group
  <2>3. GroupMovesOn(d)
    BY <2>1, <2>2, <1>1, <1>11 DEF Poll, GroupMovesOn, NotedIf, Group, Live
  <2> QED
    BY <2>3, <1>3, <1>11 DEF Poll, WorkMovesOn, ExportMovesOn
<1>12. CASE Finalize(d)
  <2>1. \E s \in {"running", "succeeded", "failed"} :
            h = [g EXCEPT !.finalize = s] /\ g.finalize \in Live
    BY <1>2, <1>12 DEF Finalize, Live
  <2>2. GroupMovesOn(d)
    BY <2>1, <1>1, <1>5, <1>12 DEF Finalize, GroupMovesOn, Group
  <2> QED
    BY <2>2, <1>3, <1>12 DEF Finalize, WorkMovesOn, ExportMovesOn
<1>13. CASE Crash(d)
  <2>1. \/ h = [g EXCEPT !.job = "pending", !.at = "idle"] /\ g.job = "running"
        \/ h = [g EXCEPT !.finalize = "pending"] /\ g.finalize = "running"
    BY <1>2, <1>13 DEF Crash
  <2>2. GroupMovesOn(d)
    BY <2>1, <1>1, <1>5, <1>13 DEF Crash, GroupMovesOn, Group, Live
  <2> QED
    BY <2>2, <1>3, <1>13 DEF Crash, WorkMovesOn, ExportMovesOn
<1>14. CASE Resubmit(d)
  <2>1. \/ h = [g EXCEPT !.job = "pending"] /\ g.job = "failed"
        \/ h = [g EXCEPT !.finalize = "pending"] /\ g.finalize = "failed"
    BY <1>2, <1>14 DEF Resubmit
  <2>2. during[d] \subseteq during'[d] /\ (Exists(d) => "resubmitted" \in during'[d])
    BY <1>14, NoteLands DEF Resubmit
  <2>3. GroupMovesOn(d)
    BY <2>1, <2>2, <1>1, <1>14 DEF GroupMovesOn, NotedIf, Group, Live
  <2> QED
    BY <2>3, <1>3, <1>14 DEF Resubmit, WorkMovesOn, ExportMovesOn
<1>15. CASE SettleExport(d)
  <2>1. export'[d] = "settled"
    BY <1>15 DEF SettleExport, TypeOK
  <2> QED
    BY <2>1, <1>3, <1>5, <1>15, GroupStands DEF SettleExport, WorkMovesOn, ExportMovesOn
<1> QED
  BY <1>6, <1>7, <1>8, <1>9, <1>10, <1>11, <1>12, <1>13, <1>14, <1>15 DEF GroupStep

LEMMA OtherGroupStep ==
    ASSUME TypeOK, NEW d \in Deals, Watched(d), NEW e \in Deals, e # d, GroupStep(e)
    PROVE  WorkMovesOn(d)
<1>1. group'[d] = group[d] /\ export'[d] = export[d] /\ imports' = imports
  BY DEF GroupStep, ClaimGroup, Look, InsertMembers, Submit, Record, Poll, Finalize, Crash, Resubmit,
     SettleExport, Move, TypeOK
<1>2. during' = during \/ (\E work : Note(e, work))
  BY DEF GroupStep, ClaimGroup, Look, InsertMembers, Submit, Record, Poll, Finalize, Crash, Resubmit,
     SettleExport
<1>3. during[d] \subseteq during'[d]
  BY <1>2, NoteLands
<1> QED
  BY <1>1, <1>3, WorkStands

(* A request for a group or an export.                                     *)
LEMMA RequestedWorkMovesOn ==
    ASSUME TypeOK, RequestsTyped, NEW d \in Deals, Watched(d), NEW r \in Requests,
           RequestGroup(r) \/ RequestExport(r)
    PROVE  WorkMovesOn(d)
<1> DEFINE e == request[r].deal
<1>1. e \in Deals
  BY AskedHere DEF RequestGroup, RequestExport, At, Asked
<1>2. CASE UNCHANGED <<group, export, during>>
  BY <1>2, WorkStands DEF RequestGroup, RequestExport
<1>3. CASE RequestGroup(r) /\ group[e].job = "absent" /\ NoteRequest(e, "requested")
           /\ group' = [group EXCEPT ![e].job = "pending"]
  <2>1. during[d] \subseteq during'[d] /\ (d = e => "requested" \in during'[d])
    BY <1>3, NoteRequestLands
  <2>2. group'[d] = IF d = e THEN [group[d] EXCEPT !.job = "pending"] ELSE group[d]
    BY <1>3 DEF TypeOK
  <2>3. group[d] \in Group
    BY DEF TypeOK
  <2>4. CASE d = e
    <3>1. group'[d] = [group[d] EXCEPT !.job = "pending"] /\ group[d].job = "absent"
      BY <2>2, <2>4, <1>3
    <3>2. GroupMovesOn(d)
      BY <3>1, <2>1, <2>3, <2>4 DEF GroupMovesOn, Group, Live
    <3> QED
      BY <3>2, <1>3, ImportStands DEF RequestGroup, WorkMovesOn, ExportMovesOn
  <2> QED
    BY <2>1, <2>2, <2>4, <1>3, WorkStands DEF RequestGroup
<1>4. CASE RequestExport(r)
  <2>1. during[d] \subseteq during'[d] /\ (d = e => "exported" \in during'[d])
    BY <1>4, NoteRequestLands DEF RequestExport
  <2>2. ExportMovesOn(d)
    BY <2>1, <1>4 DEF RequestExport, ExportMovesOn, TypeOK
  <2> QED
    BY <2>1, <2>2, <1>4, GroupStands, ImportStands DEF RequestExport, WorkMovesOn
<1> QED
  BY <1>2, <1>3, <1>4 DEF RequestGroup

(* An import, from its insert to the end of its finalize job.              *)
LEMMA ImportedWorkMovesOn ==
    ASSUME TypeOK, RequestsTyped, NEW d \in Deals, Watched(d), NEW r \in Requests, ImportKept(r),
           ImportStep(r)
    PROVE  WorkMovesOn(d)
<1> DEFINE i == imports[r]
<1>1. i \in Import /\ \A k \in Requests \ {r} : imports'[k] = imports[k]
  BY DEF TypeOK, ImportStep, InsertImport, EnqueueImport, FinalizeImport, RestartImport
<1>2. UNCHANGED <<group, export>>
  BY DEF ImportStep, InsertImport, EnqueueImport, FinalizeImport, RestartImport
<1>3. ASSUME during[d] \subseteq during'[d], ImportMovesOn(r, d)
      PROVE  WorkMovesOn(d)
  <2>1. \A k \in Requests : ImportMovesOn(k, d)
    BY <1>1, <1>3, ImportStands
  <2> QED
    BY <2>1, <1>2, <1>3, GroupStands DEF WorkMovesOn, ExportMovesOn
<1>4. during' = during => during[d] \subseteq during'[d]
  OBVIOUS
<1>5. CASE imports'[r] = imports[r] /\ during' = during
  BY <1>3, <1>4, <1>5, ImportStands
<1>6. CASE InsertImport(r) /\ Exists(request[r].deal)
  <2>1. imports'[r] = [i EXCEPT !.deal = request[r].deal, !.row = "live"]
    BY <1>6 DEF InsertImport, TypeOK
  <2>2. i.job = "absent"
    BY <1>6, NotEnded DEF ImportKept, RequestOp
  <2>3. imports'[r].job = "absent"
    BY <2>1, <2>2, <1>1 DEF Import
  <2> QED
    BY <2>3, <1>3, <1>4, <1>6 DEF InsertImport, ImportMovesOn, Live
<1>7. CASE EnqueueImport(r) /\ imports' = [imports EXCEPT ![r].job = "pending"]
           /\ NoteRequest(request[r].deal, "imported")
  <2>1. i.deal = request[r].deal
    BY <1>7 DEF EnqueueImport, At, ImportKept
  <2>2. imports'[r].deal = i.deal /\ imports'[r].job = "pending"
    BY <1>7, <1>1 DEF TypeOK, Import
  <2>3. during[d] \subseteq during'[d] /\ (d = i.deal => "imported" \in during'[d])
    BY <2>1, <1>7, NoteRequestLands
  <2> QED
    BY <2>2, <2>3, <1>3 DEF ImportMovesOn, Live
<1>8. CASE EnqueueImport(r) /\ during' = during
           /\ imports' = [imports EXCEPT ![r].row = IF @ = "live" THEN "out" ELSE @]
  <2>1. imports'[r].deal = i.deal /\ imports'[r].job = i.job
    BY <1>8, <1>1 DEF TypeOK, Import
  <2> QED
    BY <2>1, <1>3, <1>4, <1>8 DEF ImportMovesOn
<1>9. CASE FinalizeImport(r)
  <2>1. PICK s \in {"running", "succeeded", "failed"} :
            imports' = [imports EXCEPT ![r].job = s] /\ i.job \in Live
    BY <1>9 DEF FinalizeImport, Live
  <2>2. imports'[r].deal = i.deal
    BY <2>1, <1>1 DEF TypeOK, Import
  <2> QED
    BY <2>1, <2>2, <1>3, <1>4, <1>9 DEF FinalizeImport, ImportMovesOn
<1>10. CASE RestartImport(r)
  <2>1. imports'[r].deal = i.deal /\ imports'[r].job = "pending"
    BY <1>10, <1>1 DEF RestartImport, TypeOK, Import
  <2>2. \/ i.job = "running" /\ during' = during
        \/ i.job = "failed" /\ Note(i.deal, "resubmitted")
    BY <1>10 DEF RestartImport
  <2>3. /\ during[d] \subseteq during'[d]
        /\ i.job = "failed" /\ d = i.deal /\ Exists(d) => "resubmitted" \in during'[d]
    BY <2>2, <1>4, NoteLands
  <2> QED
    BY <2>1, <2>2, <2>3, <1>3 DEF ImportMovesOn, NotedIf, Live
<1> QED
  BY <1>5, <1>6, <1>7, <1>8, <1>9, <1>10 DEF ImportStep, InsertImport, EnqueueImport

(* A commit that goes through, and what it deletes.                        *)
Commits(r) == DeleteCommit(r) /\ ~ (request[r].blocked \/ ~ Exists(request[r].deal) \/ ForeignKeyFails(r))

LEMMA CommitWrites ==
    ASSUME TypeOK, RequestsTyped, NEW r \in Requests, Commits(r)
    PROVE  LET e == request[r].deal IN
           /\ e \in Deals /\ request[r] \in Reading /\ deal'[e].status = "deleted"
           /\ group'[e] = [group[e] EXCEPT !.row = "absent",
                  !.job = IF "job" \in request[r].failed THEN Cancelled(group[e].job) ELSE group[e].job,
                  !.finalize = IF "finalize" \in request[r].failed THEN Cancelled(group[e].finalize)
                               ELSE group[e].finalize]
           /\ \A d \in Deals \ {e} : group'[d] = group[d] /\ deal'[d].status = deal[d].status
           /\ \A k \in Requests :
                  /\ imports'[k].deal = imports[k].deal
                  /\ imports'[k].job = IF imports[k].deal = e /\ k \in request[r].tried
                                         THEN Cancelled(imports[k].job) ELSE imports[k].job
<1> DEFINE e == request[r].deal
           stops(k) == IF k \in request[r].tried THEN Cancelled(imports[k].job) ELSE imports[k].job
           gone(x) == IF x \in request[r].failed THEN Cancelled(group[e][x]) ELSE group[e][x]
<1>1. request[r] \in Reading /\ e \in Deals
  BY ReadingHere DEF Commits, DeleteCommit, At, Reading
<1>2. deal' = DealsWithout(e)
  BY DEF Commits, DeleteCommit
<1>3. deal'[e].status = "deleted" /\ \A d \in Deals \ {e} : deal'[d].status = deal[d].status
  <2>1. \A d \in Deals : deal[d] \in Deal
    BY DEF TypeOK
  <2>2. deal'[e] = Deleted(e)
    BY <1>1, <1>2 DEF DealsWithout
  <2>3. deal'[e].status = "deleted"
    BY <1>1, <2>1, <2>2 DEF Deleted, Deal
  <2>4. ASSUME NEW d \in Deals \ {e}
        PROVE  deal'[d].status = deal[d].status
    <3>1. deal'[d] = [deal[d] EXCEPT !.link = IF @ = e THEN NoDeal ELSE @]
      BY <1>2 DEF DealsWithout
    <3> QED
      BY <3>1, <2>1 DEF Deal
  <2> QED
    BY <2>3, <2>4
<1>4. group' = [group EXCEPT ![e] = [group[e] EXCEPT !.row = "absent", !.job = gone("job"),
                                                     !.finalize = gone("finalize")]]
  BY DEF Commits, DeleteCommit, Move
<1>5. imports' = [k \in Requests |-> IF imports[k].deal = e
                     THEN [imports[k] EXCEPT !.row = "absent", !.job = stops(k)] ELSE imports[k]]
  BY DEF Commits, DeleteCommit
<1>6. ASSUME NEW k \in Requests
      PROVE  /\ imports'[k].deal = imports[k].deal
             /\ imports'[k].job = IF imports[k].deal = e /\ k \in request[r].tried
                                    THEN Cancelled(imports[k].job) ELSE imports[k].job
  <2>1. imports[k] \in Import
    BY DEF TypeOK
  <2>2. imports'[k] = IF imports[k].deal = e THEN [imports[k] EXCEPT !.row = "absent", !.job = stops(k)]
                      ELSE imports[k]
    BY <1>5
  <2> QED
    BY <2>1, <2>2 DEF Import
<1>7. /\ group'[e] = [group[e] EXCEPT !.row = "absent", !.job = gone("job"), !.finalize = gone("finalize")]
      /\ \A d \in Deals \ {e} : group'[d] = group[d]
  BY <1>1, <1>4 DEF TypeOK
<1> QED
  BY <1>1, <1>3, <1>6, <1>7

(* What is not deleted by this step moves on as described.                 *)
LEMMA WorkMovesOnOtherwise ==
    ASSUME TypeOK, RequestsTyped, WorkKept, [Next]_vars, NEW d \in Deals, Watched(d),
           \A r \in Requests : Commits(r) => request[r].deal # d
    PROVE  WorkMovesOn(d)
<1>1. CASE UNCHANGED <<group, export, imports, during>>
  BY <1>1, WorkStands
<1>2. ASSUME NEW r \in Requests, ReadIds(r)
      PROVE  WorkMovesOn(d)
  <2>1. during'[d] = during[d]
    BY <1>2 DEF ReadIds, Watched, Exists, TypeOK
  <2> QED
    BY <2>1, <1>2, WorkStands DEF ReadIds
<1>3. ASSUME NEW r \in Requests, Commits(r)
      PROVE  WorkMovesOn(d)
  <2>1. request[r].deal # d /\ UNCHANGED <<export, during>>
    BY <1>3 DEF Commits, DeleteCommit
  <2>2. /\ group'[d] = group[d]
        /\ \A k \in Requests : imports'[k].deal = imports[k].deal
                               /\ (imports[k].deal = d => imports'[k].job = imports[k].job)
    BY ZenonT(60), <1>3, <2>1, CommitWrites
  <2>3. \A k \in Requests : ImportMovesOn(k, d)
    BY <2>2 DEF ImportMovesOn
  <2> QED
    BY <2>1, <2>2, <2>3, GroupStands DEF WorkMovesOn, ExportMovesOn
<1>4. ASSUME NEW r \in Requests, RequestOp(r)
      PROVE  \/ UNCHANGED <<group, export, imports, during>> \/ RequestGroup(r) \/ RequestExport(r)
             \/ ImportStep(r) \/ ReadIds(r) \/ Commits(r)
  <2>1. Ask(r) \/ Gate(r) \/ EditStep(r) \/ RequestLost(r) \/ ReadJobs(r) \/ ReadIrpJobs(r) \/ ReadExports(r)
          => UNCHANGED <<group, export, imports, during>>
    BY DEF Ask, Gate, RequestLost, ReadJobs, ReadIrpJobs, ReadExports, EditStep, Update, Reassign, SetStatus,
       Create, Attach, Detach, AddContract, UpdateContract, SetContractStatus, RemoveContract
  <2>2. DeleteCommit(r) => Commits(r) \/ UNCHANGED <<group, export, imports, during>>
    BY DEF DeleteCommit, Commits
  <2> QED
    BY <1>4, <2>1, <2>2 DEF RequestOp, DeleteStep, ImportStep
<1>5. CASE OtherOp
  <2>1. \A r \in Requests : ImportKept(r)
    BY DEF WorkKept
  <2>2. GroupKept(d)
    BY DEF WorkKept
  <2> QED
    BY <1>5, <2>1, <2>2, GroupStepMovesOn, OtherGroupStep, ImportedWorkMovesOn DEF OtherOp, ImportStep
<1>6. CASE \E r \in Requests : RequestOp(r)
  BY <1>1, <1>2, <1>3, <1>4, <1>6, RequestedWorkMovesOn, ImportedWorkMovesOn DEF WorkKept
<1> QED
  BY <1>1, <1>5, <1>6, NextSplit DEF vars

(* A submission that exists stays until a deletion commits, and one that   *)
(* is gone stays gone.                                                     *)
StatusMovesOn(e) ==
    LET was == deal[e].status is == deal'[e].status IN
    \/ is = was \/ (was = "absent" /\ is = "ACTIVE")
    \/ Exists(e) /\ is \in {"ACTIVE", "closed"}
    \/ Exists(e) /\ is = "deleted" /\ \E r \in Requests : Commits(r) /\ request[r].deal = e

LEMMA StatusesMoveOn ==
    ASSUME TypeOK, RequestsTyped, [Next]_vars, NEW e \in Deals
    PROVE  StatusMovesOn(e)
<1> DEFINE d(r) == request[r].deal
<1>1. deal[e] \in Deal
  BY DEF TypeOK
<1>same. CASE deal'[e].status = deal[e].status
  BY <1>same DEF StatusMovesOn
<1>bump. ASSUME NEW r \in Requests, NEW w \in Deal, deal' = [deal EXCEPT ![d(r)] = Bump(w)],
                d(r) = e => Exists(e), w.status \in {"ACTIVE", "closed"}
         PROVE  StatusMovesOn(e)
  <2>1. CASE d(r) = e
    <3>1. deal'[e] = Bump(w)
      BY <2>1, <1>bump DEF TypeOK
    <3> QED
      BY <3>1, <2>1, <1>bump, BumpTyped DEF StatusMovesOn
  <2>2. CASE d(r) # e
    BY <2>2, <1>bump, <1>same
  <2> QED
    BY <2>1, <2>2
<1>2. ASSUME NEW r \in Requests, Update(r)
      PROVE  StatusMovesOn(e)
  <2>1. request[r] \in Asked
    BY <1>2, AskedHere DEF Update, At
  <2>2. CASE Unmoved(r) /\ deal' # deal
    <3> DEFINE w == [deal[d(r)] EXCEPT !.text = r, !.link = request[r].link]
    <3>1. d(r) \in Deals /\ deal[d(r)] \in Deal /\ request[r].link \in Deals \cup {NoDeal}
      BY <2>1 DEF Asked, TypeOK
    <3>2. w \in Deal /\ w.status = deal[d(r)].status
      BY <3>1 DEF Deal, Analysts
    <3>3. deal' = [deal EXCEPT ![d(r)] = Bump(w)]
      BY <1>2, <2>2 DEF Update
    <3>4. Exists(d(r)) /\ w.status \in {"ACTIVE", "closed"}
      BY <3>2, <2>2 DEF Unmoved, Exists
    <3> HIDE DEF w
    <3> QED
      BY <3>2, <3>3, <3>4, <1>bump
  <2> QED
    BY <2>2, <1>2, <1>same DEF Update
<1>3. ASSUME NEW r \in Requests, Reassign(r)
      PROVE  StatusMovesOn(e)
  <2>1. request[r] \in Asked
    BY <1>3, AskedHere DEF Reassign, At
  <2>2. CASE Unmoved(r) /\ deal' # deal
    <3> DEFINE w == [deal[d(r)] EXCEPT !.owner = r]
    <3>1. d(r) \in Deals /\ deal[d(r)] \in Deal
      BY <2>1 DEF Asked, TypeOK
    <3>2. w \in Deal /\ w.status = deal[d(r)].status
      BY <3>1 DEF Deal, Analysts
    <3>3. deal' = [deal EXCEPT ![d(r)] = Bump(w)]
      BY <1>3, <2>2 DEF Reassign
    <3>4. Exists(d(r)) /\ w.status \in {"ACTIVE", "closed"}
      BY <3>2, <2>2 DEF Unmoved, Exists
    <3> HIDE DEF w
    <3> QED
      BY <3>2, <3>3, <3>4, <1>bump
  <2> QED
    BY <2>2, <1>3, <1>same DEF Reassign
<1>4. ASSUME NEW r \in Requests, SetStatus(r)
      PROVE  StatusMovesOn(e)
  <2>1. request[r] \in Asked
    BY <1>4, AskedHere DEF SetStatus, At
  <2>2. PICK s \in {"ACTIVE", "closed"} :
            deal' = IF ~ Unmoved(r) THEN deal ELSE [deal EXCEPT ![d(r)] = Bump([@ EXCEPT !.status = s])]
    BY <1>4 DEF SetStatus
  <2>3. CASE Unmoved(r)
    <3> DEFINE w == [deal[d(r)] EXCEPT !.status = s]
    <3>1. d(r) \in Deals /\ deal[d(r)] \in Deal
      BY <2>1 DEF Asked, TypeOK
    <3>2. w \in Deal /\ w.status = s
      BY <3>1 DEF Deal
    <3>3. deal' = [deal EXCEPT ![d(r)] = Bump(w)]
      BY <2>2, <2>3
    <3>4. Exists(d(r))
      BY <2>3 DEF Unmoved
    <3> HIDE DEF w
    <3> QED
      BY <3>2, <3>3, <3>4, <1>bump
  <2> QED
    BY <2>2, <2>3, <1>same
<1>5. ASSUME NEW r \in Requests, Create(r)
      PROVE  StatusMovesOn(e)
  <2>1. deal' = deal \/ (deal[d(r)].status = "absent" /\ deal' = [deal EXCEPT ![d(r)] =
            [@ EXCEPT !.status = "ACTIVE", !.text = r, !.owner = r, !.link = request[r].link]])
    BY <1>5 DEF Create
  <2>2. deal' # deal /\ d(r) = e => deal[e].status = "absent" /\ deal'[e].status = "ACTIVE"
    <3>1. SUFFICES ASSUME deal' # deal, d(r) = e
                   PROVE  deal[e].status = "absent" /\ deal'[e].status = "ACTIVE"
      OBVIOUS
    <3>2. deal'[e] = [deal[e] EXCEPT !.status = "ACTIVE", !.text = r, !.owner = r, !.link = request[r].link]
      BY <2>1, <3>1 DEF TypeOK
    <3> QED
      BY <3>1, <3>2, <2>1, <1>1 DEF Deal
  <2>3. deal' # deal /\ d(r) # e => deal'[e] = deal[e]
    BY SMTT(60), <2>1 DEF TypeOK
  <2> QED
    BY <2>2, <2>3, <1>same DEF StatusMovesOn
<1>6. ASSUME NEW r \in Requests, Commits(r)
      PROVE  StatusMovesOn(e)
  BY <1>6, CommitWrites DEF StatusMovesOn, Commits
<1>7. CASE UNCHANGED deal
  BY <1>7, <1>same
<1>8. ASSUME NEW r \in Requests, RequestOp(r)
      PROVE  Update(r) \/ Reassign(r) \/ SetStatus(r) \/ Create(r) \/ Commits(r) \/ UNCHANGED deal
  <2>1. EditStep(r) => Update(r) \/ Reassign(r) \/ SetStatus(r) \/ Create(r) \/ UNCHANGED deal
    BY SMTT(60) DEF EditStep, Attach, Detach, AddContract, UpdateContract, SetContractStatus, RemoveContract
  <2>2. DeleteStep(r) => Commits(r) \/ UNCHANGED deal
    BY DEF DeleteStep, ReadIds, ReadJobs, ReadIrpJobs, ReadExports, DeleteCommit, Commits, rows
  <2>3. Ask(r) \/ Gate(r) \/ RequestGroup(r) \/ RequestExport(r) \/ InsertImport(r) \/ EnqueueImport(r)
          \/ RequestLost(r) => UNCHANGED deal
    BY DEF Ask, Gate, RequestGroup, RequestExport, InsertImport, EnqueueImport, RequestLost, rows
  <2> QED
    BY <1>8, <2>1, <2>2, <2>3 DEF RequestOp
<1>9. OtherOp \/ UNCHANGED vars => UNCHANGED deal
  BY OtherOpLeavesRows DEF vars, rows
<1> QED
  BY <1>2, <1>3, <1>4, <1>5, <1>6, <1>7, <1>8, <1>9, NextSplit

-----------------------------------------------------------------------------
(* What a deletion has read stays true or is noted *)

(* What is noted stays noted, and so does whatever may run.                *)
LEMMA NotedStays ==
    ASSUME NEW d \in Deals, NEW work, during[d] \subseteq during'[d], Noted(d, work)
    PROVE  Noted(d, work)'
  BY DEF Noted

LEMMA JobStaysNoted ==
    ASSUME NEW d \in Deals, WorkMovesOn(d), NEW cancelled \in BOOLEAN, Exists(d) \/ ~ cancelled,
           JobNoted(d, cancelled)
    PROVE  JobNoted(d, cancelled)'
<1> DEFINE work == {"requested", "resubmitted"}
<1>1. Noted(d, work) => Noted(d, work)'
  BY NotedStays DEF WorkMovesOn, GroupMovesOn
<1>2. SUFFICES ASSUME MayRun(group'[d].job, cancelled)
               PROVE  Noted(d, work)'
  BY DEF JobNoted, MayRun
<1>3. CASE MayRun(group[d].job, cancelled)
  BY <1>1, <1>3 DEF JobNoted
<1>4. CASE ~ MayRun(group[d].job, cancelled)
  <2>1. "requested" \in during'[d] \/ "resubmitted" \in during'[d]
    BY <1>2, <1>4 DEF WorkMovesOn, GroupMovesOn, MayRun, NotedIf
  <2> QED
    BY <2>1 DEF Noted
<1> QED
  BY <1>3, <1>4

LEMMA FinalizeStaysNoted ==
    ASSUME NEW d \in Deals, WorkMovesOn(d), NEW cancelled \in BOOLEAN,
           Exists(d) \/ (~ cancelled /\ SentNoted(d)), FinalizeNoted(d, cancelled)
    PROVE  FinalizeNoted(d, cancelled)'
<1> DEFINE work == {"handed over", "resubmitted"}
<1>1. Noted(d, work) => Noted(d, work)'
  BY NotedStays DEF WorkMovesOn, GroupMovesOn
<1>2. SUFFICES ASSUME MayRun(group'[d].finalize, cancelled)
               PROVE  Noted(d, work)'
  BY DEF FinalizeNoted, MayRun
<1>3. CASE MayRun(group[d].finalize, cancelled)
  BY <1>1, <1>3 DEF FinalizeNoted
<1>4. CASE ~ MayRun(group[d].finalize, cancelled)
  <2>1. \/ "handed over" \in during'[d] \/ "resubmitted" \in during'[d]
        \/ group[d].irp = "running" /\ ~ Exists(d)
    BY <1>2, <1>4 DEF WorkMovesOn, GroupMovesOn, MayRun, NotedIf
  <2>2. group[d].irp = "running" /\ ~ Exists(d) => Noted(d, {"resubmitted"})
    BY DEF SentNoted
  <2> QED
    BY <1>1, <2>1, <2>2 DEF Noted
<1> QED
  BY <1>3, <1>4

LEMMA ImportStaysNoted ==
    ASSUME NEW d \in Deals, WorkMovesOn(d), NEW k \in Requests, NEW cancelled \in BOOLEAN,
           Exists(d) \/ ~ cancelled, ImportNoted(k, d, cancelled)
    PROVE  ImportNoted(k, d, cancelled)'
<1> DEFINE work == {"imported", "resubmitted"}
<1>1. Noted(d, work) => Noted(d, work)'
  BY NotedStays DEF WorkMovesOn, GroupMovesOn
<1>2. SUFFICES ASSUME imports'[k].deal = d, MayRun(imports'[k].job, cancelled)
               PROVE  Noted(d, work)'
  BY DEF ImportNoted, MayRun
<1>3. CASE imports[k].deal = d /\ MayRun(imports[k].job, cancelled)
  BY <1>1, <1>3 DEF ImportNoted
<1>4. CASE ~ (imports[k].deal = d /\ MayRun(imports[k].job, cancelled))
  <2>1. ImportMovesOn(k, d)
    BY DEF WorkMovesOn
  <2>2. "imported" \in during'[d] \/ "resubmitted" \in during'[d]
    BY <1>2, <1>4, <2>1 DEF ImportMovesOn, MayRun, NotedIf
  <2> QED
    BY <2>2 DEF Noted
<1> QED
  BY <1>3, <1>4

LEMMA ExportStaysNoted ==
    ASSUME NEW d \in Deals, WorkMovesOn(d), ExportNoted(d)
    PROVE  ExportNoted(d)'
<1>1. Noted(d, {"exported"}) => Noted(d, {"exported"})'
  BY NotedStays DEF WorkMovesOn, GroupMovesOn
<1> QED
  BY <1>1 DEF ExportNoted, WorkMovesOn, ExportMovesOn, Noted

(* A submission that is gone has no row, so its group is sent no further.  *)
LEMMA DeletedStaysKept ==
    ASSUME TypeOK, RequestsTyped, WorkKept, [Next]_vars, NEW d \in Deals, deal[d].status = "deleted"
    PROVE  DeletedKept(d)'
<1>1. Watched(d) /\ ~ Exists(d) /\ DeletedKept(d) /\ group[d].row = "absent"
  BY DEF Watched, Exists, WorkKept, TypeOK
<1>2. WorkMovesOn(d)
  BY <1>1, WorkMovesOnOtherwise DEF Commits
<1>3. SentNoted(d)'
  <2>1. Noted(d, {"resubmitted"}) => Noted(d, {"resubmitted"})'
    BY <1>2, NotedStays DEF WorkMovesOn, GroupMovesOn
  <2> QED
    BY <1>1, <1>2, <2>1 DEF DeletedKept, SentNoted, WorkMovesOn, GroupMovesOn
<1>4. JobNoted(d, FALSE)'
  BY <1>1, <1>2, JobStaysNoted DEF DeletedKept
<1>5. FinalizeNoted(d, FALSE)'
  BY <1>1, <1>2, FinalizeStaysNoted DEF DeletedKept
<1>6. ExportNoted(d)'
  BY <1>1, <1>2, ExportStaysNoted DEF DeletedKept
<1>7. ASSUME NEW k \in Requests PROVE ImportNoted(k, d, FALSE)'
  BY <1>1, <1>2, ImportStaysNoted DEF DeletedKept
<1> QED
  BY <1>3, <1>4, <1>5, <1>6, <1>7 DEF DeletedKept

(* What is left when a deletion commits is what it noted.                  *)
LEMMA CommitLeavesNoted ==
    ASSUME TypeOK, RequestsTyped, WorkKept, NEW r \in Requests, Commits(r),
           NEW d \in Deals, request[r].deal = d
    PROVE  DeletedKept(d)'
<1> DEFINE q == request[r]
           g == group[d]
           h == group'[d]
<1>1. /\ q \in Reading /\ deal'[d].status = "deleted" /\ g \in Group
      /\ h = [g EXCEPT !.row = "absent", !.job = IF "job" \in q.failed THEN Cancelled(g.job) ELSE g.job,
                       !.finalize = IF "finalize" \in q.failed THEN Cancelled(g.finalize) ELSE g.finalize]
      /\ \A k \in Requests :
             /\ imports'[k].deal = imports[k].deal
             /\ imports'[k].job = IF imports[k].deal = d /\ k \in q.tried
                                    THEN Cancelled(imports[k].job) ELSE imports[k].job
  BY CommitWrites DEF TypeOK
<1>2. UNCHANGED <<export, during>> /\ q.at = "commit" /\ ~ q.blocked /\ Exists(d) /\ ~ ForeignKeyFails(r)
  BY DEF Commits, DeleteCommit, At
<1>3. \A work : Noted(d, work)' <=> Noted(d, work)
  BY <1>2 DEF Noted
<1>4. /\ JobNoted(d, "job" \in q.failed) /\ FinalizeNoted(d, "finalize" \in q.failed)
      /\ \A k \in Requests : ImportNoted(k, d, k \in q.tried)
      /\ g.job \in Live => ~ q.ids \/ Noted(d, {"resubmitted"})
      /\ g.irp = "running" => UnknownRow(r) \/ Noted(d, {"resubmitted"})
      /\ ExportNoted(d)
  BY <1>2 DEF WorkKept, ReadKept, SawJobs, SawIrp, Reads
<1>5. /\ h.at = g.at /\ h.irp = g.irp
      /\ h.job = IF "job" \in q.failed THEN Cancelled(g.job) ELSE g.job
      /\ h.finalize = IF "finalize" \in q.failed THEN Cancelled(g.finalize) ELSE g.finalize
  BY <1>1 DEF Group
<1>6. \A s : MayRun(Cancelled(s), FALSE) => s \in Live
  BY DEF MayRun, Cancelled, Live
<1>7. JobNoted(d, FALSE)'
  <2>1. MayRun(h.job, FALSE) => MayRun(g.job, "job" \in q.failed)
    BY <1>5, <1>6 DEF MayRun
  <2> QED
    BY <2>1, <1>3, <1>4 DEF JobNoted, MayRun
<1>8. FinalizeNoted(d, FALSE)'
  <2>1. MayRun(h.finalize, FALSE) => MayRun(g.finalize, "finalize" \in q.failed)
    BY <1>5, <1>6 DEF MayRun
  <2> QED
    BY <2>1, <1>3, <1>4 DEF FinalizeNoted, MayRun
<1>9. ASSUME NEW k \in Requests
      PROVE  ImportNoted(k, d, FALSE)'
  <2>1. imports'[k].deal = d /\ MayRun(imports'[k].job, FALSE) => MayRun(imports[k].job, k \in q.tried)
    BY <1>1, <1>6 DEF MayRun
  <2> QED
    BY <2>1, <1>1, <1>3, <1>4 DEF ImportNoted, MayRun
<1>10. ExportNoted(d)'
  BY <1>2, <1>3, <1>4 DEF ExportNoted
<1>11. SentNoted(d)'
  <2>1. g.at \in {"submit", "record"} => g.job \in Live /\ g.row = "full"
    BY <1>1, <1>2 DEF WorkKept, GroupKept, Exists, Live
  <2>2. g.row = "full" => q.ids
    BY <1>2 DEF ForeignKeyFails
  <2>3. g.irp = "running" \/ g.at \in {"submit", "record"} => Noted(d, {"resubmitted"})
    BY <2>1, <2>2, <1>4 DEF UnknownRow
  <2> QED
    BY <2>3, <1>3, <1>5 DEF SentNoted
<1> QED
  BY <1>7, <1>8, <1>9, <1>10, <1>11 DEF DeletedKept

(* What a deletion has read outlives the steps of the others.              *)
LEMMA ReadOutlivesOthers ==
    ASSUME TypeOK, RequestsTyped, WorkKept, [Next]_vars, NEW r \in Requests, request'[r] = request[r]
    PROVE  ReadKept(r)'
<1> DEFINE q == request[r]
<1>1. SUFFICES ASSUME q.at \in Reads \cup {"ids"}, NEW d, q.deal = d
               PROVE  ReadKept(r)'
  BY DEF ReadKept, Reads, SawJobs
<1>2. d \in Deals /\ (q.at \in Reads => q \in Reading)
  BY <1>1, AskedHere, ReadingHere DEF Asked, Reading, Reads
<1>3. ReadKept(r) /\ GroupKept(d) /\ group[d] \in Group
  BY <1>2 DEF WorkKept, TypeOK
<1>4. StatusMovesOn(d)
  BY <1>2, StatusesMoveOn
<1>5. q.kind = "delete" => deal'[d].status # "absent"
  BY <1>1, <1>3, <1>4 DEF ReadKept, StatusMovesOn
<1>6. CASE ~ (q.at \in Reads /\ Exists(d)')
  BY <1>1, <1>5, <1>6 DEF ReadKept, Reads, SawJobs
<1>7. CASE q.at \in Reads /\ Exists(d)'
  <2>1. q.kind = "delete"
    BY <1>2, <1>7 DEF Reading
  <2>2. Exists(d)
    BY <2>1, <1>1, <1>3, <1>4, <1>7 DEF ReadKept, StatusMovesOn, Exists
  <2>3. WorkMovesOn(d)
    <3>1. Watched(d)
      BY SMTT(60), <2>2, <1>1, <1>7 DEF Watched, Deleting, Reads
    <3>2. \A k \in Requests : Commits(k) => request[k].deal # d
      BY <1>7, CommitWrites DEF Exists
    <3> QED
      BY <3>1, <3>2, <1>2, WorkMovesOnOtherwise
  <2> DEFINE g == group[d]
             h == group'[d]
  <2>4. q.ids => g.row # "absent" /\ h.row # "absent"
    BY <2>2, <2>3, <1>1, <1>3, <1>7 DEF ReadKept, WorkMovesOn, GroupMovesOn
  <2>5. ASSUME q.at \in SawJobs, ~ q.blocked
        PROVE  /\ JobNoted(d, "job" \in q.failed)' /\ FinalizeNoted(d, "finalize" \in q.failed)'
               /\ \A k \in Requests : ImportNoted(k, d, k \in q.tried)'
               /\ h.job \in Live => ~ q.ids \/ Noted(d, {"resubmitted"})'
               /\ q.at \in SawIrp /\ h.irp = "running" => (~ q.ids /\ h.row = "full") \/ Noted(d, {"resubmitted"})'
               /\ q.at = "commit" => ExportNoted(d)'
    <3>1. /\ JobNoted(d, "job" \in q.failed) /\ FinalizeNoted(d, "finalize" \in q.failed)
          /\ \A k \in Requests : ImportNoted(k, d, k \in q.tried)
          /\ g.job \in Live => ~ q.ids \/ Noted(d, {"resubmitted"})
          /\ q.at \in SawIrp /\ g.irp = "running" => (~ q.ids /\ g.row = "full") \/ Noted(d, {"resubmitted"})
          /\ q.at = "commit" => ExportNoted(d)
      BY <2>2, <2>5, <1>1, <1>3 DEF ReadKept, UnknownRow
    <3>2. Noted(d, {"resubmitted"}) => Noted(d, {"resubmitted"})'
      BY <2>3, <1>2, NotedStays DEF WorkMovesOn, GroupMovesOn
    <3>3. JobNoted(d, "job" \in q.failed)'
      <4>2. ASSUME NEW b \in BOOLEAN, JobNoted(d, b) PROVE JobNoted(d, b)'
        BY <4>2, <2>2, <2>3, <1>2, JobStaysNoted
      <4> QED
        BY <4>2, <3>1 DEF JobNoted, MayRun
    <3>4. FinalizeNoted(d, "finalize" \in q.failed)'
      <4>2. ASSUME NEW b \in BOOLEAN, FinalizeNoted(d, b) PROVE FinalizeNoted(d, b)'
        BY <4>2, <2>2, <2>3, <1>2, FinalizeStaysNoted
      <4> QED
        BY <4>2, <3>1 DEF FinalizeNoted, MayRun
    <3>5. ASSUME NEW k \in Requests
          PROVE  ImportNoted(k, d, k \in q.tried)'
      <4>2. ASSUME NEW b \in BOOLEAN, ImportNoted(k, d, b) PROVE ImportNoted(k, d, b)'
        BY <4>2, <2>2, <2>3, <1>2, ImportStaysNoted
      <4> QED
        BY <4>2, <3>1 DEF ImportNoted, MayRun
    <3>6. h.job \in Live => ~ q.ids \/ Noted(d, {"resubmitted"})'
      <4>1. g.job = "absent" => ~ q.ids
        BY <2>4, <1>3 DEF GroupKept
      <4>2. "resubmitted" \in during'[d] => Noted(d, {"resubmitted"})'
        BY DEF Noted
      <4> QED
        BY <4>1, <4>2, <3>1, <3>2, <2>2, <2>3 DEF WorkMovesOn, GroupMovesOn, NotedIf
    <3>7. q.at \in SawIrp /\ h.irp = "running" => (~ q.ids /\ h.row = "full") \/ Noted(d, {"resubmitted"})'
      <4>1. g.at = "record" => g.job \in Live
        BY <1>3 DEF GroupKept, Live
      <4> QED
        BY <4>1, <3>1, <3>2, <2>3 DEF WorkMovesOn, GroupMovesOn
    <3>8. q.at = "commit" => ExportNoted(d)'
      BY <3>1, <2>3, <1>2, ExportStaysNoted
    <3> QED
      BY <3>3, <3>4, <3>5, <3>6, <3>7, <3>8
  <2> QED
    BY <2>4, <2>5, <1>1, <1>5 DEF ReadKept, UnknownRow
<1> QED
  BY <1>6, <1>7

(* Each read of a deletion that finds nothing in its way makes true what    *)
(* is kept from then on.                                                   *)
LEMMA ReadMadeTrue ==
    ASSUME TypeOK, RequestsTyped, WorkKept, NEW r \in Requests, ReadJobs(r) \/ ReadIrpJobs(r) \/ ReadExports(r)
    PROVE  ReadKept(r)'
<1>1. PICK q : q = request[r]
  OBVIOUS
<1>2. q \in Reading /\ ReadKept(r) /\ UNCHANGED <<deal, group, export, imports, during>>
  BY <1>1, ReadingHere DEF WorkKept, ReadJobs, ReadIrpJobs, ReadExports, At, rows
<1>3. PICK d \in Deals : q.deal = d
  BY <1>2 DEF Reading
<1>p. PICK p : p = request'[r]
  OBVIOUS
<1> DEFINE g == group[d]
<1>4. \A work : Noted(d, work)' <=> Noted(d, work)
  BY <1>2 DEF Noted
<1>5. /\ \A c : (JobNoted(d, c)' <=> JobNoted(d, c)) /\ (FinalizeNoted(d, c)' <=> FinalizeNoted(d, c))
      /\ \A k \in Requests : \A c : ImportNoted(k, d, c)' <=> ImportNoted(k, d, c)
      /\ ExportNoted(d)' <=> ExportNoted(d)
      /\ Exists(d)' <=> Exists(d)
  BY <1>2, <1>4 DEF JobNoted, FinalizeNoted, ImportNoted, ExportNoted, Exists
<1>6. deal[d].status # "absent" /\ (Exists(d) /\ q.ids => g.row # "absent")
  BY <1>1, <1>2, <1>3 DEF ReadKept, Reading, Reads
<1>made. ASSUME p.at \in SawJobs, p.deal = d, p.ids = q.ids,
               ~ p.blocked /\ Exists(d) =>
                   /\ JobNoted(d, "job" \in p.failed) /\ FinalizeNoted(d, "finalize" \in p.failed)
                   /\ \A k \in Requests : ImportNoted(k, d, k \in p.tried)
                   /\ g.job \in Live => ~ q.ids \/ Noted(d, {"resubmitted"})
                   /\ p.at \in SawIrp /\ g.irp = "running"
                         => (~ q.ids /\ g.row = "full") \/ Noted(d, {"resubmitted"})
                   /\ p.at = "commit" => ExportNoted(d)
         PROVE  ReadKept(r)'
  <2>1. (deal[d].status # "absent")' /\ (Exists(d)' /\ q.ids => (group[d].row # "absent")')
    BY <1>2, <1>5, <1>6
  <2>2. ~ p.blocked /\ Exists(d)' =>
            /\ JobNoted(d, "job" \in p.failed)' /\ FinalizeNoted(d, "finalize" \in p.failed)'
            /\ \A k \in Requests : ImportNoted(k, d, k \in p.tried)'
            /\ (group[d].job \in Live)' => ~ q.ids \/ Noted(d, {"resubmitted"})'
            /\ p.at \in SawIrp /\ (group[d].irp = "running")'
                  => (~ q.ids /\ (group[d].row = "full")') \/ Noted(d, {"resubmitted"})'
            /\ p.at = "commit" => ExportNoted(d)'
    BY <1>made, <1>2, <1>4, <1>5
  <2> QED
    BY <1>made, <1>p, <2>1, <2>2 DEF ReadKept, UnknownRow
<1>7. CASE ReadJobs(r)
  <2> DEFINE b == {g.job, g.finalize} \cap Live # {} \/ ImportsWith(d, Live) # {}
             f == {x \in {"job", "finalize"} : g[x] = "failed"}
             t == ImportsWith(d, {"failed"})
  <2>1. p = [q EXCEPT !.at = "irpJobs", !.failed = f, !.blocked = b, !.tried = t]
    BY <1>p, <1>1, <1>3, <1>7 DEF ReadJobs, RequestsTyped
  <2>2. /\ p.at = "irpJobs" /\ p.kind = q.kind /\ p.deal = d /\ p.ids = q.ids /\ p.blocked = b
        /\ p.failed = f /\ p.tried = t
    BY <2>1, <1>2, <1>3 DEF Reading
  <2>3. ~ b => g.job \notin Live /\ g.finalize \notin Live
    OBVIOUS
  <2>4. ~ b => JobNoted(d, "job" \in f)
    BY <2>3 DEF JobNoted, MayRun
  <2>5. ~ b => FinalizeNoted(d, "finalize" \in f)
    BY <2>3 DEF FinalizeNoted, MayRun
  <2>6. ASSUME NEW k \in Requests, ~ b PROVE ImportNoted(k, d, k \in t)
    BY <2>6 DEF ImportNoted, MayRun, ImportsWith
  <2>7. p.at \in SawJobs \ (SawIrp \cup {"commit"})
    BY <2>2 DEF SawIrp, SawJobs, Reads
  <2> HIDE DEF b, f, t
  <2> QED
    BY <2>2, <2>3, <2>4, <2>5, <2>6, <2>7, <1>made
<1>8. CASE ReadIrpJobs(r)
  <2> DEFINE b == q.blocked \/ g.irp = "running"
  <2>1. p = [q EXCEPT !.at = "exports", !.blocked = b] /\ q.at = "irpJobs"
    BY <1>p, <1>1, <1>2, <1>3, <1>8 DEF ReadIrpJobs, RequestsTyped, Reading, At
  <2>2. /\ p.at = "exports" /\ p.kind = q.kind /\ p.deal = d /\ p.ids = q.ids /\ p.blocked = b
        /\ p.failed = q.failed /\ p.tried = q.tried
    BY <2>1, <1>2, <1>3 DEF Reading
  <2>3. ~ b /\ Exists(d) =>
            /\ JobNoted(d, "job" \in q.failed) /\ FinalizeNoted(d, "finalize" \in q.failed)
            /\ \A k \in Requests : ImportNoted(k, d, k \in q.tried)
            /\ g.job \in Live => ~ q.ids \/ Noted(d, {"resubmitted"})
    BY <2>1, <1>1, <1>2, <1>3 DEF ReadKept, SawJobs, Reads
  <2>4. p.at \in SawJobs /\ p.at # "commit"
    BY <2>2 DEF SawJobs, Reads
  <2>5. ~ b => g.irp # "running"
    OBVIOUS
  <2> HIDE DEF b
  <2> QED
    BY <2>2, <2>3, <2>4, <2>5, <1>made
<1>9. CASE ReadExports(r)
  <2>0. PICK u \in BOOLEAN :
            request' = [request EXCEPT ![r].at = "commit",
                            ![r].blocked = @ \/ u \/ export[request[r].deal] = "open"]
    BY <1>9 DEF ReadExports
  <2> DEFINE b == q.blocked \/ u \/ export[d] = "open"
  <2>1. p = [q EXCEPT !.at = "commit", !.blocked = b] /\ q.at = "exports"
    BY <2>0, <1>p, <1>1, <1>2, <1>3, <1>9 DEF ReadExports, RequestsTyped, Reading, At
  <2>2. /\ p.at = "commit" /\ p.kind = q.kind /\ p.deal = d /\ p.ids = q.ids /\ p.blocked = b
        /\ p.failed = q.failed /\ p.tried = q.tried
    BY <2>1, <1>2, <1>3 DEF Reading
  <2>3. ~ b => ExportNoted(d)
    BY DEF ExportNoted
  <2>4. ~ b /\ Exists(d) =>
            /\ JobNoted(d, "job" \in q.failed) /\ FinalizeNoted(d, "finalize" \in q.failed)
            /\ \A k \in Requests : ImportNoted(k, d, k \in q.tried)
            /\ g.job \in Live => ~ q.ids \/ Noted(d, {"resubmitted"})
            /\ g.irp = "running" => (~ q.ids /\ g.row = "full") \/ Noted(d, {"resubmitted"})
    BY <2>1, <1>1, <1>2, <1>3 DEF ReadKept, UnknownRow, SawIrp, SawJobs, Reads
  <2>5. p.at \in SawJobs
    BY <2>2 DEF SawJobs, Reads
  <2> HIDE DEF b
  <2> QED
    BY <2>2, <2>3, <2>4, <2>5, <1>made
<1> QED
  BY <1>7, <1>8, <1>9

(* A deletion starts to read with a submission that its gate found.        *)
LEMMA ReadBegins ==
    ASSUME TypeOK, RequestsTyped, WorkKept, NEW r \in Requests,
           RequestOp(r), ~ (ReadJobs(r) \/ ReadIrpJobs(r) \/ ReadExports(r))
    PROVE  ReadKept(r)'
<1>1. CASE request'[r].at \notin Reads \cup {"ids"}
  BY <1>1 DEF ReadKept, Reads, SawJobs
<1>2. ASSUME End(r) PROVE ReadKept(r)'
  <2>1. request'[r].at = "done"
    BY SMTT(60), <1>2 DEF End, Ended, RequestsTyped
  <2> QED
    BY <2>1, <1>1 DEF Reads
<1>3. EditStep(r) \/ RequestGroup(r) \/ RequestExport(r) \/ EnqueueImport(r) \/ RequestLost(r)
        \/ DeleteCommit(r) => End(r)
  BY DEF EditStep, Update, Reassign, SetStatus, Create, Attach, Detach, AddContract,
     UpdateContract, SetContractStatus, RemoveContract, RequestGroup, RequestExport, EnqueueImport,
     RequestLost, DeleteCommit
<1>4. InsertImport(r) => End(r) \/ request'[r].at = "enqueue"
  BY AskedHere DEF InsertImport, At, RequestsTyped, Asked
<1>5. Ask(r) => request'[r].at = "gate"
  BY DEF Ask, Page, RequestsTyped
<1>6. CASE Gate(r) /\ ~ End(r)
  <2> DEFINE q == request[r]
             p == request'[r]
  <2>1. q \in Asked
    BY <1>6, AskedHere DEF Gate
  <2>2. Passes(r) /\ p = [q EXCEPT !.at = IF q.kind = "delete" THEN "ids" ELSE "write"]
    BY <1>6 DEF Gate, End, RequestsTyped
  <2>3. p.at \in {"ids", "write"} /\ p.kind = q.kind /\ p.deal = q.deal /\ (p.at = "ids" => q.kind = "delete")
    BY <2>1, <2>2 DEF Asked
  <2>4. q.kind = "delete" => Exists(q.deal) /\ deal' = deal
    BY <2>2, <1>6 DEF Passes, Known, Gate, rows
  <2>5. p.at = "ids" => deal'[p.deal].status # "absent"
    BY <2>3, <2>4 DEF Exists
  <2> QED
    BY <2>3, <2>5 DEF ReadKept, Reads, SawJobs
<1>7. CASE ReadIds(r)
  <2>1. request[r] \in Asked /\ request[r].kind = "delete" /\ request[r].at = "ids"
    BY <1>7, AskedHere DEF ReadIds, At
  <2>2. PICK d \in Deals : request[r].deal = d
    BY <2>1 DEF Asked
  <2>3. /\ request'[r].at = "jobs" /\ request'[r].deal = d /\ request'[r].kind = "delete"
        /\ request'[r].ids = (group[d].row # "absent")
    BY <2>2, <1>7 DEF ReadIds, RequestsTyped
  <2>4. UNCHANGED <<deal, group>> /\ deal[d].status # "absent"
    BY <2>1, <2>2, <1>7 DEF ReadIds, rows, WorkKept, ReadKept
  <2> QED
    BY <2>3, <2>4 DEF ReadKept, Reads, SawJobs
<1> QED
  BY <1>1, <1>2, <1>3, <1>4, <1>5, <1>6, <1>7 DEF RequestOp, DeleteStep, Reads

(* A group's job keeps its place, its row and its submit in step.          *)
LEMMA GroupsStayKept ==
    ASSUME TypeOK, RequestsTyped, WorkKept, [Next]_vars, NEW d \in Deals
    PROVE  GroupKept(d)'
<1> DEFINE g == group[d]
           h == group'[d]
<1>1. GroupKept(d) /\ g \in Group /\ (g.row # "absent" => deal[d].status # "deleted")
  BY DEF WorkKept, TypeOK, Exists
<1>2. deal'[d].status # "deleted" => deal[d].status # "deleted"
  BY StatusesMoveOn DEF StatusMovesOn, Exists
<1>3. CASE h = g
  BY <1>1, <1>2, <1>3 DEF GroupKept
<1>4. ASSUME NEW x, Move(d, x)
      PROVE  h = x
  BY <1>4 DEF Move, TypeOK
<1>5. CASE GroupStep(d)
  <2>1. CASE ClaimGroup(d)
    <3>1. h = [g EXCEPT !.job = "running", !.at = "look"]
      BY <2>1, <1>4 DEF ClaimGroup
    <3> QED
      BY <3>1, <1>1, <1>2 DEF GroupKept, Group
  <2>2. CASE Look(d)
    <3> DEFINE done == [g EXCEPT !.job = "succeeded", !.at = "idle"]
               found == [g EXCEPT !.at = "members"]
               made == [g EXCEPT !.at = "members", !.row = "bare"]
    <3>1. Move(d, done) \/ Move(d, found) \/ Move(d, made) \/ Move(d, Fails(g))
      BY <2>2 DEF Look
    <3>2. h = done \/ h = found \/ h = made \/ h = Fails(g)
      <4> HIDE DEF done, found, made
      <4> QED
        BY <3>1, <1>4
    <3> QED
      BY <3>2, <2>2, <1>1, <1>2 DEF Look, GroupKept, Group, Fails
  <2>3. CASE InsertMembers(d)
    <3>1. h = IF g.row = "absent" THEN Fails(g) ELSE [g EXCEPT !.at = "submit", !.row = "full"]
      BY <2>3, <1>4 DEF InsertMembers
    <3> QED
      BY <3>1, <2>3, <1>1, <1>2 DEF InsertMembers, GroupKept, Group, Fails
  <2>4. CASE Submit(d)
    <3>1. h \in {[g EXCEPT !.at = "record"], [Fails(g) EXCEPT !.irp = "failed"], Fails(g)}
      BY <2>4, <1>4 DEF Submit
    <3> QED
      BY <3>1, <2>4, <1>1, <1>2 DEF Submit, GroupKept, Group, Fails
  <2>5. CASE Record(d)
    <3>1. h = IF g.row # "full" THEN Fails(g)
              ELSE [g EXCEPT !.job = "succeeded", !.at = "idle", !.irp = "running"]
      BY <2>5, <1>4 DEF Record
    <3> QED
      BY <3>1, <2>5, <1>1, <1>2 DEF Record, GroupKept, Group, Fails
  <2>6. CASE Poll(d)
    <3>1. h \in {[g EXCEPT !.irp = "finished", !.finalize = "pending"], [g EXCEPT !.irp = "failed"]}
      BY <2>6, <1>4 DEF Poll
    <3> QED
      BY <3>1, <1>1, <1>2 DEF GroupKept, Group
  <2>7. CASE Finalize(d)
    <3>1. \E s \in {"running", "succeeded", "failed"} : h = [g EXCEPT !.finalize = s]
      BY <2>7, <1>4 DEF Finalize
    <3> QED
      BY <3>1, <1>1, <1>2 DEF GroupKept, Group
  <2>8. CASE Crash(d)
    <3>1. h \in {[g EXCEPT !.job = "pending", !.at = "idle"], [g EXCEPT !.finalize = "pending"]}
      BY <2>8, <1>4 DEF Crash
    <3> QED
      BY <3>1, <1>1, <1>2 DEF GroupKept, Group
  <2>9. CASE Resubmit(d)
    <3>1. \/ h = [g EXCEPT !.job = "pending"] /\ g.job = "failed"
          \/ h = [g EXCEPT !.finalize = "pending"]
      BY <2>9, <1>4 DEF Resubmit
    <3> QED
      BY <3>1, <1>1, <1>2 DEF GroupKept, Group
  <2>10. CASE SettleExport(d)
    BY <2>10, <1>3 DEF SettleExport
  <2> QED
    BY <1>5, <2>1, <2>2, <2>3, <2>4, <2>5, <2>6, <2>7, <2>8, <2>9, <2>10 DEF GroupStep
<1>6. ASSUME NEW e \in Deals, e # d, GroupStep(e)
      PROVE  h = g
  BY <1>6 DEF GroupStep, ClaimGroup, Look, InsertMembers, Submit, Record, Poll, Finalize, Crash, Resubmit,
     SettleExport, Move, TypeOK
<1>7. ASSUME NEW r \in Requests, RequestGroup(r)
      PROVE  h = g \/ (h = [g EXCEPT !.job = "pending"] /\ g.job = "absent")
  BY SMTT(60), <1>7 DEF RequestGroup, TypeOK
<1>8. ASSUME NEW r \in Requests, Commits(r)
      PROVE  GroupKept(d)'
  <2>1. CASE request[r].deal = d
    <3>1. deal'[d].status = "deleted" /\ h.row = "absent" /\ h.at = g.at /\ (g.job = "running" => h.job = "running")
      BY ZenonT(60), <2>1, <1>1, <1>8, CommitWrites DEF Cancelled, Group
    <3> QED
      BY <3>1, <1>1 DEF GroupKept
  <2>2. CASE request[r].deal # d
    BY ZenonT(60), <2>2, <1>3, <1>8, CommitWrites
  <2> QED
    BY <2>1, <2>2
<1>9. ASSUME NEW r \in Requests, RequestOp(r)
      PROVE  RequestGroup(r) \/ Commits(r) \/ group' = group
  BY <1>9 DEF RequestOp, Ask, Gate, EditStep, Update, Reassign, SetStatus, Create, Attach, Detach, AddContract,
     UpdateContract, SetContractStatus, RemoveContract, RequestExport, InsertImport, EnqueueImport, RequestLost,
     DeleteStep, ReadIds, ReadJobs, ReadIrpJobs, ReadExports, DeleteCommit, Commits
<1>10. CASE \E r \in Requests : RequestOp(r)
  <2>1. h = [g EXCEPT !.job = "pending"] /\ g.job = "absent" => GroupKept(d)'
    BY <1>1, <1>2 DEF GroupKept, Group
  <2> QED
    BY <2>1, <1>3, <1>7, <1>8, <1>9, <1>10
<1>11. CASE OtherOp
  BY <1>3, <1>5, <1>6, <1>11 DEF OtherOp, FinalizeImport, RestartImport
<1> QED
  BY <1>3, <1>10, <1>11, NextSplit DEF vars

(* A finalize job of an import exists only when its request has ended.     *)
LEMMA ImportsStayKept ==
    ASSUME TypeOK, RequestsTyped, WorkKept, [Next]_vars, NEW k \in Requests
    PROVE  ImportKept(k)'
<1> DEFINE i == imports[k]
           j == imports'[k]
<1>1. ImportKept(k) /\ i \in Import
  BY DEF WorkKept, TypeOK
<1>2. CASE UNCHANGED <<imports, request>>
  BY <1>1, <1>2 DEF ImportKept, Ended
<1>3. ASSUME NEW r \in Requests, RequestOp(r), r # k
      PROVE  ImportKept(k)'
  <2>1. request'[k] = request[k]
    BY <1>3, OthersWait DEF RequestsTyped
  <2>2. j.deal = i.deal /\ (i.job = "absent" => j.job = "absent")
    <3>1. CASE Commits(r)
      BY <3>1, CommitWrites DEF Cancelled
    <3>2. CASE InsertImport(r) \/ EnqueueImport(r)
      BY SMTT(60), <3>2, <1>3 DEF InsertImport, EnqueueImport, TypeOK
    <3>3. ~ (Commits(r) \/ InsertImport(r) \/ EnqueueImport(r)) => imports' = imports
      BY <1>3 DEF RequestOp, Ask, Gate, EditStep, Update, Reassign, SetStatus, Create, Attach, Detach,
         AddContract, UpdateContract, SetContractStatus, RemoveContract, RequestGroup, RequestExport,
         RequestLost, DeleteStep, ReadIds, ReadJobs, ReadIrpJobs, ReadExports, DeleteCommit, Commits
    <3> QED
      BY SMTT(60), <3>1, <3>2, <3>3
  <2> QED
    BY <2>1, <2>2, <1>1 DEF ImportKept, Ended
<1>4. ASSUME RequestOp(k)
      PROVE  ImportKept(k)'
  <2>1. i.job = "absent"
    BY <1>1, <1>4, NotEnded DEF ImportKept
  <2>2. CASE InsertImport(k) /\ ~ End(k)
    <3> DEFINE d == request[k].deal
    <3>1. request[k] \in Asked /\ request[k].kind = "import"
      BY <2>2, AskedHere DEF InsertImport, At
    <3>2. /\ imports' = [imports EXCEPT ![k] = [@ EXCEPT !.deal = d, !.row = "live"]]
          /\ request' = [request EXCEPT ![k].at = "enqueue"]
      BY <2>2 DEF InsertImport
    <3>3. j = [i EXCEPT !.deal = d, !.row = "live"] /\ request'[k] = [request[k] EXCEPT !.at = "enqueue"]
      BY <3>2 DEF TypeOK, RequestsTyped
    <3>4. j.deal = d /\ j.job = "absent" /\ request'[k].deal = d /\ request'[k].kind = "import"
      BY <3>1, <3>3, <2>1, <1>1 DEF Import, Asked
    <3> QED
      BY <3>4 DEF ImportKept
  <2>3. CASE End(k)
    BY <2>3 DEF End, ImportKept, Ended, RequestsTyped
  <2>4. CASE ~ InsertImport(k) /\ ~ End(k)
    <3>1. Ask(k) \/ Gate(k) \/ ReadIds(k) \/ ReadJobs(k) \/ ReadIrpJobs(k) \/ ReadExports(k)
      BY <2>4, <1>4 DEF RequestOp, EditStep, Update, Reassign, SetStatus, Create, Attach, Detach,
         AddContract, UpdateContract, SetContractStatus, RemoveContract, RequestGroup, RequestExport,
         EnqueueImport, RequestLost, DeleteStep, DeleteCommit
    <3>2. imports' = imports
      BY <3>1 DEF Ask, Gate, ReadIds, ReadJobs, ReadIrpJobs, ReadExports
    <3>3. request'[k].at # "enqueue"
      <4>1. Ask(k) => request'[k].at = "gate"
        BY DEF Ask, Page, RequestsTyped
      <4>2. Gate(k) => request'[k].at \in {"ids", "write"}
        BY <2>4, AskedHere DEF Gate, End, RequestsTyped, Asked
      <4>3. ReadIds(k) => request'[k].at = "jobs"
        BY DEF ReadIds, RequestsTyped
      <4>4. ReadJobs(k) => request'[k].at = "irpJobs"
        <5>1. SUFFICES ASSUME ReadJobs(k) PROVE request'[k].at = "irpJobs"
          OBVIOUS
        <5>2. PICK b, f, t : request' = [request EXCEPT ![k].at = "irpJobs", ![k].failed = f,
                                            ![k].blocked = b, ![k].tried = t]
          BY <5>1 DEF ReadJobs
        <5>3. request[k] \in Reading
          BY <5>1, ReadingHere DEF ReadJobs, At
        <5> QED
          BY <5>2, <5>3 DEF RequestsTyped, Reading
      <4>5. ReadIrpJobs(k) => request'[k].at = "exports"
        BY ReadingHere DEF ReadIrpJobs, At, RequestsTyped, Reading
      <4>6. ReadExports(k) => request'[k].at = "commit"
        BY ReadingHere DEF ReadExports, At, RequestsTyped, Reading
      <4> QED
        BY <3>1, <4>1, <4>2, <4>3, <4>4, <4>5, <4>6
    <3> QED
      BY SMTT(60), <3>2, <3>3, <2>1 DEF ImportKept
  <2> QED
    BY <2>2, <2>3, <2>4
<1>5. ASSUME NEW r \in Requests, FinalizeImport(r) \/ RestartImport(r)
      PROVE  ImportKept(k)'
  <2>1. request' = request
    BY <1>5 DEF FinalizeImport, RestartImport
  <2>2. imports'[k] = imports[k] \/ \E s : r = k /\ j = [i EXCEPT !.job = s] /\ i.job # "absent"
    <3>1. PICK s : imports' = [imports EXCEPT ![r].job = s] /\ imports[r].job # "absent"
      BY <1>5 DEF FinalizeImport, RestartImport
    <3> QED
      BY <3>1 DEF TypeOK
  <2>3. j.deal = i.deal /\ (i.job = "absent" => j.job = "absent")
    BY <2>2, <1>1 DEF Import
  <2> QED
    BY <2>1, <2>3, <1>1 DEF ImportKept, Ended
<1>6. \A d \in Deals : GroupStep(d) => UNCHANGED <<imports, request>>
  BY DEF GroupStep, ClaimGroup, Look, InsertMembers, Submit, Record, Poll, Finalize, Crash, Resubmit,
     SettleExport
<1> QED
  BY <1>2, <1>3, <1>4, <1>5, <1>6, NextSplit DEF OtherOp, vars

(* Every step keeps all of it.                                             *)
LEMMA WorkStaysKept ==
    ASSUME TypeOK, RequestsTyped, WorkKept, [Next]_vars
    PROVE  WorkKept'
<1>1. ASSUME NEW d \in Deals
      PROVE  DeletedKept(d)'
  <2>1. CASE deal[d].status = "deleted"
    BY <2>1, DeletedStaysKept
  <2>2. CASE \E r \in Requests : Commits(r) /\ request[r].deal = d
    BY <2>2, CommitLeavesNoted
  <2>3. CASE deal'[d].status # "deleted"
    BY <2>3 DEF DeletedKept
  <2> QED
    BY <2>1, <2>2, <2>3, StatusesMoveOn DEF StatusMovesOn, Exists
<1>2. ASSUME NEW r \in Requests
      PROVE  ReadKept(r)'
  <2>1. CASE request'[r] = request[r]
    BY <2>1, ReadOutlivesOthers
  <2>2. CASE request'[r] # request[r]
    <3>1. RequestOp(r)
      BY <2>2, NextSplit, OtherOpLeavesRows, OthersWait DEF RequestsTyped, vars
    <3> QED
      BY <3>1, ReadMadeTrue, ReadBegins
  <2> QED
    BY <2>1, <2>2
<1> QED
  BY <1>1, <1>2, GroupsStayKept, ImportsStayKept DEF WorkKept

LEMMA InitWorkKept ==
    ASSUME Init
    PROVE  WorkKept
<1>1. \A r \in Requests : request[r].at = "idle" /\ imports[r] = NoImport
  BY DEF Init
<1>2. \A d \in Deals : group[d] = NoGroup /\ deal[d].status # "deleted"
  BY DEF Init, NotShown
<1>3. \A d \in Deals : GroupKept(d) /\ DeletedKept(d)
  <2>1. \A d \in Deals : group[d].at = "idle" /\ group[d].row = "absent"
    BY <1>2 DEF NoGroup
  <2> QED
    BY <1>2, <2>1 DEF GroupKept, DeletedKept
<1>4. \A r \in Requests : ImportKept(r) /\ ReadKept(r)
  BY <1>1 DEF ImportKept, ReadKept, NoImport, Reads, SawJobs
<1> QED
  BY <1>3, <1>4 DEF WorkKept

(* Whatever outlives a submission that was deleted began while the          *)
(* deletion was reading what the submission had: a group's job, its         *)
(* finalize job, an import's, an open export; and nothing of it goes to     *)
(* Risk Modeler any more unless a failed job was resubmitted meanwhile.     *)
(* However many deletions, requests, workers and resubmissions there are.   *)
THEOREM OnlyRacesOutlive == Spec => []WorkOutlivesOnlyByRace
<1>1. Init => TypeOK /\ RequestsTyped /\ WorkKept
  BY InitTyped, InitWorkKept
<1>2. (TypeOK /\ RequestsTyped /\ WorkKept) /\ [Next]_vars => (TypeOK /\ RequestsTyped /\ WorkKept)'
  BY TypesKept, WorkStaysKept
<1>3. WorkKept => WorkOutlivesOnlyByRace
  <2> SUFFICES ASSUME WorkKept, NEW d \in Deals, deal[d].status = "deleted"
               PROVE  /\ group[d].job \in Live => during[d] \cap {"requested", "resubmitted"} # {}
                      /\ group[d].finalize \in Live => during[d] \cap {"handed over", "resubmitted"} # {}
                      /\ ImportsWith(d, Live) # {} => during[d] \cap {"imported", "resubmitted"} # {}
                      /\ export[d] = "open" => "exported" \in during[d]
                      /\ group[d].irp = "running" \/ group[d].at = "record" => "resubmitted" \in during[d]
    BY DEF WorkOutlivesOnlyByRace
  <2>1. DeletedKept(d)
    BY DEF WorkKept
  <2>2. ImportsWith(d, Live) # {} => during[d] \cap {"imported", "resubmitted"} # {}
    BY <2>1 DEF DeletedKept, ImportNoted, MayRun, Noted, ImportsWith
  <2> QED
    BY <2>1, <2>2 DEF DeletedKept, JobNoted, FinalizeNoted, ExportNoted, SentNoted, MayRun, Noted
<1> QED
  BY <1>1, <1>2, <1>3, PTL DEF Spec

=============================================================================
