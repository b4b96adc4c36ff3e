--------------------------- MODULE CatalogueProofs ---------------------------
(***************************************************************************)
(* Proofs about Catalogue, for any services, sub-services, number of       *)
(* concurrent requests and length of the list of change requests.          *)
(***************************************************************************)
EXTENDS ProviderSide, TLAPS

ServiceRows == [status : ServiceStatus \union {"NONE", "GONE"}, completed : BOOLEAN]
SubRows     == [status : ServiceStatus \union {"NONE", "GONE"}, available : BOOLEAN]
RequestRows == [target : Services \union SubServices, type : {"CREATE", "UPDATE"},
                status : {"PENDING", "APPROVED", "REJECTED"}]
JobRows     == [op : Ops \union {"idle"}, at : {"idle", "found", "checked", "inserted"},
                target : Services \union SubServices \union {None}, req : Nat]

(* Each handler works on a row of the kind it is for, and a review on the   *)
(* request it found.                                                        *)
JobOK(j) ==
  /\ j.op \in {"approveProviderJoin", "completeDetails", "updateService", "deleteService"}
       => j.target \in Services
  /\ j.op = "updateSubService" => j.target \in SubServices
  /\ j.op = "createSubService" => j.target \in Services \union SubServices
  /\ j.op = "createSubService" /\ j.at = "inserted" => j.target \in SubServices
  /\ j.op \in ReviewOps =>
       /\ j.target \in Reviewed(j.op)
       /\ j.req \in DOMAIN requests
       /\ requests[j.req].target = j.target
       /\ requests[j.req].type = ReviewedType(j.op)

(* A service that an update is about has its details, or is gone for good.  *)
Prepared(v) == service[v].completed \/ service[v].status = "GONE"

UpdatesArePrepared ==
  /\ \A n \in DOMAIN requests :
       requests[n].type = "UPDATE" /\ requests[n].target \in Services
         => Prepared(requests[n].target)
  /\ \A w \in Workers : job[w].op = "updateService" => Prepared(job[w].target)

NewIsOffSale == \A s \in SubServices : sub[s].status = "NONE" => ~sub[s].available

JobsOK == \A w \in Workers : JobOK(job[w])

CatalogueInv ==
  /\ CatalogueTypeOK
  /\ JobsOK
  /\ UpdatesArePrepared
  /\ NewIsOffSale
  /\ ActiveIsComplete
  /\ RejectedIsOffSale
  /\ UnderReviewHasRequest

-----------------------------------------------------------------------------
(* The parts of the invariant, by what they are about. *)
TablesOK ==
  /\ approval \in {"PENDING", "APPROVED", "REJECTED"}
  /\ account \in {"PENDING", "ACTIVE", "SUSPENDED"}
  /\ service \in [Services -> ServiceRows]
  /\ sub \in [SubServices -> SubRows]
  /\ \A s \in SubServices : Exists(sub[s]) => Exists(service[Parent[s]])
  /\ NewIsOffSale
  /\ ActiveIsComplete
  /\ RejectedIsOffSale

LogOK      == requests \in Seq(RequestRows)
JobsTyped  == job \in [Workers -> JobRows]

LEMMA Parts ==
  CatalogueInv <=> /\ TablesOK /\ LogOK /\ JobsTyped
                   /\ JobsOK /\ UpdatesArePrepared /\ UnderReviewHasRequest
BY DEF CatalogueInv, CatalogueTypeOK, TablesOK, LogOK, JobsTyped,
       ServiceRows, SubRows, RequestRows, JobRows

(* What a step does to the requests, the jobs and the details.              *)
LogGrows ==
  /\ LogOK'
  /\ DOMAIN requests \subseteq DOMAIN requests'
  /\ \A n \in DOMAIN requests :
       requests'[n].target = requests[n].target /\ requests'[n].type = requests[n].type

NewUpdatesPrepared ==
  \A n \in DOMAIN requests' \ DOMAIN requests :
    requests'[n].type = "UPDATE" /\ requests'[n].target \in Services
      => Prepared(requests[n].target)'

StayPrepared == \A v \in Services : Prepared(v) => Prepared(v)'

JobsSettle == JobsTyped' /\ \A w \in Workers : job'[w] = job[w] \/ job'[w] = Idle

(* A transaction ends a job: the other jobs keep what they rely on.         *)
LEMMA Settled ==
  ASSUME CatalogueInv, TablesOK', LogGrows, NewUpdatesPrepared, StayPrepared, JobsSettle,
         UnderReviewHasRequest'
  PROVE  CatalogueInv'
<1>1. JobsOK'
  <2> SUFFICES ASSUME NEW w \in Workers PROVE JobOK(job[w])'
    BY DEF JobsOK
  <2>1. CASE job'[w] = job[w]
    <3>1. JobOK(job[w])
      BY DEF CatalogueInv, JobsOK
    <3> QED
      BY <2>1, <3>1 DEF JobOK, LogGrows
  <2>2. CASE job'[w] = Idle
    BY <2>2 DEF JobOK, Idle, ReviewOps
  <2> QED
    BY <2>1, <2>2 DEF JobsSettle
<1>2. UpdatesArePrepared'
  <2>1. \A n \in DOMAIN requests' :
          requests'[n].type = "UPDATE" /\ requests'[n].target \in Services
            => Prepared(requests[n].target)'
    <3> SUFFICES ASSUME NEW n \in DOMAIN requests', requests'[n].type = "UPDATE",
                        requests'[n].target \in Services
                 PROVE  Prepared(requests[n].target)'
      OBVIOUS
    <3>1. CASE n \in DOMAIN requests
      <4>1. requests'[n].target = requests[n].target /\ Prepared(requests[n].target)
        BY <3>1 DEF LogGrows, CatalogueInv, UpdatesArePrepared
      <4> QED
        BY <4>1 DEF StayPrepared, Prepared
    <3> QED
      BY <3>1 DEF NewUpdatesPrepared
  <2>2. \A w \in Workers : job'[w].op = "updateService" => Prepared(job[w].target)'
    <3> SUFFICES ASSUME NEW w \in Workers, job'[w].op = "updateService"
                 PROVE  Prepared(job[w].target)'
      OBVIOUS
    <3>1. job'[w] = job[w]
      BY DEF JobsSettle, Idle
    <3>2. job[w].target \in Services /\ Prepared(job[w].target)
      BY <3>1 DEF CatalogueInv, UpdatesArePrepared, JobsOK, JobOK
    <3> QED
      BY <3>1, <3>2 DEF StayPrepared, Prepared
  <2> QED
    BY <2>1, <2>2 DEF UpdatesArePrepared
<1> QED
  BY <1>1, <1>2, Parts, PTL DEF LogGrows, JobsSettle

(* A handler begins, or looks once more: no row changes. *)
LEMMA Looked ==
  ASSUME CatalogueInv, UNCHANGED rows, NEW w \in Workers, NEW j \in JobRows,
         JobOK(j), j.op = "updateService" => Prepared(j.target),
         job' = [job EXCEPT ![w] = j]
  PROVE  CatalogueInv'
<1> USE DEF rows
<1>1. TablesOK' /\ LogOK' /\ UnderReviewHasRequest'
  BY Parts DEF TablesOK, LogOK, UnderReviewHasRequest, HasRequest, NewIsOffSale,
               ActiveIsComplete, RejectedIsOffSale, Exists
<1>2. JobsTyped /\ JobsOK /\ UpdatesArePrepared
  BY Parts
<1>3. JobsTyped' /\ \A u \in Workers : job'[u] = IF u = w THEN j ELSE job[u]
  BY <1>2 DEF JobsTyped
<1>4. JobsOK'
  BY <1>2, <1>3 DEF JobsOK, JobOK
<1>5. UpdatesArePrepared'
  BY <1>2, <1>3 DEF UpdatesArePrepared, Prepared
<1> QED
  BY <1>1, <1>3, <1>4, <1>5, Parts, PTL

LEMMA DoneSettles ==
  ASSUME CatalogueInv, NEW w \in Workers, Done(w)
  PROVE  JobsSettle
<1>1. JobsTyped
  BY Parts
<1>2. Idle \in JobRows
  BY DEF Idle, JobRows
<1> QED
  BY <1>1, <1>2 DEF Done, JobsSettle, JobsTyped

LEMMA SameSettles ==
  ASSUME CatalogueInv, UNCHANGED job
  PROVE  JobsSettle
BY Parts DEF JobsSettle, JobsTyped

-----------------------------------------------------------------------------
(* The list of change requests. *)
LEMMA Appended ==
  ASSUME LogOK, NEW x \in Services \union SubServices, NEW t \in {"CREATE", "UPDATE"},
         requests' = Append(requests, Request(x, t))
  PROVE  /\ LogGrows
         /\ \A n \in DOMAIN requests' \ DOMAIN requests :
              requests'[n].target = x /\ requests'[n].type = t
         /\ HasRequest(x)'
         /\ \A y : HasRequest(y) => HasRequest(y)'
<1> DEFINE r == Request(x, t)
<1>0. r \in RequestRows /\ r.target = x /\ r.type = t /\ r.status = "PENDING"
  BY DEF Request, RequestRows
<1> HIDE DEF r
<1>1. /\ Len(requests) \in Nat /\ DOMAIN requests = 1 .. Len(requests)
      /\ LogOK'
      /\ DOMAIN requests' = 1 .. Len(requests) + 1
      /\ requests'[Len(requests) + 1] = r
      /\ \A n \in DOMAIN requests : requests'[n] = requests[n]
  BY <1>0 DEF LogOK, r
<1>2. LogGrows
  BY <1>1 DEF LogGrows
<1>3. DOMAIN requests' \ DOMAIN requests = {Len(requests) + 1}
  BY <1>1
<1>4. HasRequest(x)'
  BY <1>0, <1>1 DEF HasRequest
<1>5. \A y : HasRequest(y) => HasRequest(y)'
  BY <1>1 DEF HasRequest
<1> QED
  BY <1>0, <1>1, <1>2, <1>3, <1>4, <1>5

LEMMA DecidedGrows ==
  ASSUME LogOK, NEW n \in DOMAIN requests, NEW yes \in BOOLEAN, Decided(n, yes)
  PROVE  /\ LogGrows
         /\ NewUpdatesPrepared
         /\ \A y : y # requests[n].target /\ HasRequest(y) => HasRequest(y)'
<1> DEFINE s == IF yes THEN "APPROVED" ELSE "REJECTED"
<1>1. /\ requests \in Seq(RequestRows) /\ s \in {"PENDING", "APPROVED", "REJECTED"}
      /\ requests' = [requests EXCEPT ![n] = [requests[n] EXCEPT !.status = s]]
  BY DEF Decided, LogOK
<1> HIDE DEF s
<1>a. requests[n] \in RequestRows
  BY <1>1
<1>2. requests[n] \in RequestRows /\ [requests[n] EXCEPT !.status = s] \in RequestRows
  BY <1>1, <1>a DEF RequestRows
<1>3. LogOK' /\ DOMAIN requests' = DOMAIN requests
  BY <1>1, <1>2 DEF LogOK
<1>4. \A m \in DOMAIN requests :
        /\ requests'[m].target = requests[m].target
        /\ requests'[m].type = requests[m].type
        /\ m # n => requests'[m] = requests[m]
  BY <1>1, <1>2 DEF RequestRows
<1>5. LogGrows
  BY <1>3, <1>4 DEF LogGrows
<1>6. NewUpdatesPrepared
  BY <1>3 DEF NewUpdatesPrepared
<1>7. \A y : y # requests[n].target /\ HasRequest(y) => HasRequest(y)'
  BY <1>3, <1>4 DEF HasRequest
<1> QED
  BY <1>5, <1>6, <1>7

LEMMA SameLog ==
  ASSUME LogOK, UNCHANGED requests
  PROVE  LogGrows /\ NewUpdatesPrepared /\ \A y : HasRequest(y) => HasRequest(y)'
BY DEF LogOK, LogGrows, NewUpdatesPrepared, HasRequest

-----------------------------------------------------------------------------
(* The tables. *)
ServicesKept ==
  /\ service' \in [Services -> ServiceRows]
  /\ \A v \in Services : Exists(service[v]) => Exists(service[v])'
  /\ ActiveIsComplete'
  /\ StayPrepared

(* A sub-service goes, or is written while its service is there.            *)
SubsFollow ==
  /\ sub' \in [SubServices -> SubRows]
  /\ \A s \in SubServices :
       \/ sub'[s] = sub[s]
       \/ sub'[s] = NoSub("GONE")
       \/ /\ Exists(service[Parent[s]])
          /\ \/ sub'[s].status \in {"ACTIVE", "PENDING_APPROVAL"}
             \/ sub'[s].status = "REJECTED" /\ ~sub'[s].available

PartyOK ==
  /\ approval \in {"PENDING", "APPROVED", "REJECTED"}
  /\ account \in {"PENDING", "ACTIVE", "SUSPENDED"}

LEMMA TablesFollow ==
  ASSUME CatalogueInv, ServicesKept, SubsFollow, PartyOK'
  PROVE  TablesOK'
<1>1. TablesOK /\ \A s \in SubServices : Parent[s] \in Services
  BY Parts, CatalogueAssumption
<1>2. \A s \in SubServices : Exists(sub[s])' => Exists(service[Parent[s]])'
  BY <1>1 DEF TablesOK, ServicesKept, SubsFollow, NoSub, Exists, ServiceStatus
<1>3. NewIsOffSale' /\ RejectedIsOffSale'
  BY <1>1 DEF TablesOK, SubsFollow, NoSub, NewIsOffSale, RejectedIsOffSale
<1> QED
  BY <1>2, <1>3 DEF TablesOK, ServicesKept, SubsFollow, PartyOK

LEMMA SamePrepared == UNCHANGED service => StayPrepared
BY DEF StayPrepared, Prepared

LEMMA SameServices == CatalogueInv /\ UNCHANGED service => ServicesKept
BY Parts, SamePrepared DEF ServicesKept, TablesOK, ActiveIsComplete, Exists

LEMMA SameSubs == CatalogueInv /\ UNCHANGED sub => SubsFollow
BY Parts DEF SubsFollow, TablesOK

LEMMA SameParty == CatalogueInv /\ UNCHANGED <<approval, account>> => PartyOK'
BY Parts DEF PartyOK, TablesOK

LEMMA StatusWritten ==
  ASSUME CatalogueInv, NEW v \in Services, Exists(service[v]), NEW s \in ServiceStatus,
         s = "ACTIVE" => service[v].completed,
         service' = [service EXCEPT ![v].status = s]
  PROVE  ServicesKept
<1>1. TablesOK
  BY Parts
<1>2. /\ service \in [Services -> ServiceRows]
      /\ service'[v] = [service[v] EXCEPT !.status = s]
      /\ \A u \in Services : u # v => service'[u] = service[u]
  BY <1>1 DEF TablesOK
<1>3. /\ service'[v] \in ServiceRows /\ service'[v].status = s
      /\ service'[v].completed = service[v].completed
  BY <1>2 DEF ServiceRows
<1>4. service' \in [Services -> ServiceRows]
  BY <1>2, <1>3
<1>5. \A u \in Services : Exists(service[u]) => Exists(service[u])'
  BY <1>2, <1>3 DEF Exists
<1>6. ActiveIsComplete'
  BY <1>1, <1>2, <1>3 DEF TablesOK, ActiveIsComplete
<1>7. StayPrepared
  <2>1. service[v].status # "GONE"
    BY DEF Exists, ServiceStatus
  <2> QED
    BY <1>2, <1>3, <2>1 DEF StayPrepared, Prepared
<1> QED
  BY <1>4, <1>5, <1>6, <1>7 DEF ServicesKept

LEMMA WithoutFollows ==
  ASSUME CatalogueInv, NEW S, sub' = Without(S)
  PROVE  SubsFollow
<1>1. sub \in [SubServices -> SubRows]
  BY Parts DEF TablesOK
<1>2. NoSub("GONE") \in SubRows
  BY DEF NoSub, SubRows
<1> QED
  BY <1>1, <1>2 DEF Without, SubsFollow

LEMMA ListsFollow ==
  ASSUME CatalogueInv, NEW v \in Services, NEW refused, NEW approved,
         Exists(service[v]), sub' = AfterLists(v, refused, approved)
  PROVE  SubsFollow
<1>1. sub \in [SubServices -> SubRows]
  BY Parts DEF TablesOK
<1> DEFINE gone == NoSub("GONE")
           sold == [status |-> "ACTIVE", available |-> TRUE]
<1>2. gone \in SubRows /\ sold \in SubRows /\ sold.status = "ACTIVE"
  BY DEF NoSub, SubRows, ServiceStatus
<1>3. \A s \in SubServices :
        \/ sub'[s] = sub[s] \/ sub'[s] = gone
        \/ sub'[s] = sold /\ Parent[s] = v
  BY DEF AfterLists
<1>4. DOMAIN sub' = SubServices /\ sub' = [s \in SubServices |-> sub'[s]]
  BY DEF AfterLists
<1> HIDE DEF gone, sold
<1>5. sub' \in [SubServices -> SubRows]
  BY <1>1, <1>2, <1>3, <1>4
<1>6. \A s \in SubServices :
        \/ sub'[s] = sub[s] \/ sub'[s] = gone
        \/ Exists(service[Parent[s]]) /\ sub'[s].status = "ACTIVE"
  BY <1>2, <1>3
<1> QED
  BY <1>5, <1>6 DEF SubsFollow, gone

LEMMA SubWritten ==
  ASSUME CatalogueInv, NEW s \in SubServices, Exists(service[Parent[s]]), NEW r \in SubRows,
         \/ r.status \in {"ACTIVE", "PENDING_APPROVAL"}
         \/ r.status = "REJECTED" /\ ~r.available,
         sub' = [sub EXCEPT ![s] = r]
  PROVE  SubsFollow
<1>1. sub \in [SubServices -> SubRows]
  BY Parts DEF TablesOK
<1>2. sub' \in [SubServices -> SubRows]
  BY <1>1
<1>3. \A u \in SubServices : sub'[u] = IF u = s THEN r ELSE sub[u]
  BY <1>1
<1> QED
  BY <1>2, <1>3 DEF SubsFollow

(* What is under review after a step, and why it is on a list.              *)
LEMMA StillListed ==
  ASSUME CatalogueInv,
         \A v \in Services \ {First} : service'[v].status = "PENDING_APPROVAL" =>
           \/ HasRequest(v)'
           \/ service[v].status = "PENDING_APPROVAL" /\ (HasRequest(v) => HasRequest(v)'),
         \A s \in SubServices : sub'[s].status = "PENDING_APPROVAL" /\ sub'[s].available =>
           \/ HasRequest(s)'
           \/ /\ sub[s].status = "PENDING_APPROVAL" /\ sub[s].available
              /\ HasRequest(s) => HasRequest(s)'
  PROVE  UnderReviewHasRequest'
<1>1. UnderReviewHasRequest
  BY Parts
<1> QED
  BY <1>1 DEF UnderReviewHasRequest

-----------------------------------------------------------------------------
(* The steps, one lemma each or a lemma for those that do the same.         *)
LEMMA InitInv == CatalogueInit => CatalogueInv
<1> SUFFICES ASSUME CatalogueInit PROVE CatalogueInv
  OBVIOUS
<1>1. /\ \A v \in Services : service[v] \in ServiceRows /\ service[v].status # "ACTIVE"
      /\ \A v \in Services \ {First} : service[v].status = "NONE"
      /\ service \in [Services -> ServiceRows]
  BY DEF CatalogueInit, ServiceRows, ServiceStatus, NoService
<1>2. /\ \A s \in SubServices : sub[s].status = "NONE" /\ ~sub[s].available
      /\ sub \in [SubServices -> SubRows]
  BY DEF CatalogueInit, SubRows, NoSub
<1>3. TablesOK
  BY <1>1, <1>2 DEF TablesOK, CatalogueInit, Exists, ServiceStatus, NewIsOffSale,
                    ActiveIsComplete, RejectedIsOffSale
<1>4. LogOK /\ DOMAIN requests = {}
  BY DEF CatalogueInit, LogOK
<1>5. JobsTyped /\ \A w \in Workers : job[w] = Idle
  BY DEF CatalogueInit, JobsTyped, Idle, JobRows
<1>6. JobsOK /\ UpdatesArePrepared
  BY <1>4, <1>5 DEF JobsOK, JobOK, Idle, ReviewOps, UpdatesArePrepared
<1>7. UnderReviewHasRequest
  BY <1>1, <1>2 DEF UnderReviewHasRequest
<1> QED
  BY <1>3, <1>4, <1>5, <1>6, <1>7, Parts

LEMMA LookStep ==
  ASSUME CatalogueInv, NEW w \in Workers,
         \/ Abandon(w)
         \/ \E v \in Services :
              \/ FindProvider(w, v) \/ BeginDetails(w, v) \/ BeginDelete(w, v)
              \/ BeginSubService(w, v) \/ BeginUpdate(w, v)
         \/ \E s \in SubServices : BeginSubUpdate(w, s)
  PROVE  CatalogueInv'
<1>1. CASE Abandon(w)
  <2>1. Idle \in JobRows /\ JobOK(Idle) /\ Idle.op # "updateService"
    BY DEF Idle, JobRows, JobOK, ReviewOps
  <2> QED
    BY <1>1, <2>1, Looked DEF Abandon, Done
<1>2. ASSUME NEW v \in Services, NEW op \in {"approveProviderJoin", "completeDetails",
                                            "deleteService", "createSubService"},
             Begin(w, op, "checked", v, 0), UNCHANGED rows
      PROVE  CatalogueInv'
  <2> DEFINE j == [op |-> op, at |-> "checked", target |-> v, req |-> 0]
  <2>1. j \in JobRows /\ JobOK(j) /\ j.op # "updateService"
    BY DEF JobRows, Ops, JobOK, ReviewOps
  <2> QED
    BY <1>2, <2>1, Looked DEF Begin
<1>3. ASSUME NEW v \in Services, BeginUpdate(w, v)
      PROVE  CatalogueInv'
  <2> DEFINE j == [op |-> "updateService", at |-> "checked", target |-> v, req |-> 0]
  <2>1. j \in JobRows /\ JobOK(j)
    BY DEF JobRows, Ops, JobOK, ReviewOps
  <2>2. Prepared(j.target)
    BY <1>3, Parts DEF BeginUpdate, EditableService, TablesOK, ActiveIsComplete, Prepared
  <2> QED
    BY <1>3, <2>1, <2>2, Looked DEF BeginUpdate, Begin
<1>4. ASSUME NEW s \in SubServices, BeginSubUpdate(w, s)
      PROVE  CatalogueInv'
  <2> DEFINE j == [op |-> "updateSubService", at |-> "checked", target |-> s, req |-> 0]
  <2>1. j \in JobRows /\ JobOK(j) /\ j.op # "updateService"
    BY DEF JobRows, Ops, JobOK, ReviewOps
  <2> QED
    BY <1>4, <2>1, Looked DEF BeginSubUpdate, Begin
<1> QED
  BY <1>1, <1>2, <1>3, <1>4
     DEF FindProvider, BeginDetails, BeginDelete, BeginSubService

LEMMA FindStep ==
  ASSUME CatalogueInv, NEW w \in Workers,
         \/ \E op \in ReviewOps, x \in Services \union SubServices : FindRequest(w, op, x)
         \/ FindTarget(w)
  PROVE  CatalogueInv'
<1>1. ASSUME NEW op \in ReviewOps, NEW x \in Services \union SubServices, FindRequest(w, op, x)
      PROVE  CatalogueInv'
  <2>1. PICK n \in Pending(x, ReviewedType(op)) : Begin(w, op, "found", x, n)
    BY <1>1 DEF FindRequest
  <2>2. /\ n \in DOMAIN requests /\ n \in Nat
        /\ requests[n].target = x /\ requests[n].type = ReviewedType(op)
    BY <2>1, Parts DEF Pending, Request, LogOK
  <2> DEFINE j == [op |-> op, at |-> "found", target |-> x, req |-> n]
  <2>3. j \in JobRows /\ j.op # "updateService"
    BY <2>2 DEF JobRows, Ops, ReviewOps
  <2>4. JobOK(j)
    BY <1>1, <2>2 DEF JobOK, ReviewOps, FindRequest
  <2>5. job' = [job EXCEPT ![w] = j] /\ UNCHANGED rows
    BY <1>1, <2>1 DEF FindRequest, Begin
  <2> QED
    BY <2>3, <2>4, <2>5, Looked
<1>2. CASE FindTarget(w)
  <2> DEFINE j == [job[w] EXCEPT !.at = "checked"]
  <2>1. job[w] \in JobRows /\ JobOK(job[w])
    BY Parts DEF JobsTyped, JobsOK
  <2>2. /\ j \in JobRows /\ j.op = job[w].op /\ j.target = job[w].target
        /\ j.req = job[w].req
    BY <2>1 DEF JobRows
  <2>3. job[w].op \in ReviewOps /\ job' = [job EXCEPT ![w] = j] /\ UNCHANGED rows
    BY <1>2 DEF FindTarget
  <2>4. JobOK(j) /\ j.op # "updateService"
    BY <2>1, <2>2, <2>3 DEF JobOK, ReviewOps
  <2> HIDE DEF j
  <2> QED
    BY <2>2, <2>3, <2>4, Looked
<1> QED
  BY <1>1, <1>2

LEMMA JoinStep ==
  ASSUME CatalogueInv, NEW w \in Workers, NEW yes \in BOOLEAN, ApproveProviderJoin(w, yes)
  PROVE  CatalogueInv'
<1> DEFINE v == job[w].target
           s == IF yes THEN "PENDING_DETAILS" ELSE "REJECTED"
<1>1. v \in Services
  BY Parts DEF JobsOK, JobOK, ApproveProviderJoin, At
<1>2. /\ s \in ServiceStatus /\ s # "ACTIVE" /\ s # "PENDING_APPROVAL" /\ Exists(service[v])
      /\ service' = [service EXCEPT ![v].status = s]
  BY DEF ApproveProviderJoin, ServiceStatus
<1> HIDE DEF s
<1>3. ServicesKept
  BY <1>1, <1>2, StatusWritten
<1>4. /\ UNCHANGED <<sub, requests>> /\ Done(w) /\ PartyOK'
  BY DEF ApproveProviderJoin, PartyOK
<1>5. TablesOK'
  BY <1>3, <1>4, SameSubs, TablesFollow
<1>6. LogGrows /\ NewUpdatesPrepared /\ \A y : HasRequest(y) => HasRequest(y)'
  BY <1>4, SameLog, Parts
<1>7. \A u \in Services : service'[u].status = "PENDING_APPROVAL" => service[u] = service'[u]
  BY <1>1, <1>2, Parts DEF TablesOK, ServiceRows
<1>8. UnderReviewHasRequest'
  BY <1>4, <1>6, <1>7, StillListed
<1> QED
  BY <1>3, <1>4, <1>5, <1>6, <1>8, DoneSettles, Settled DEF ServicesKept

LEMMA CreateStep ==
  ASSUME CatalogueInv, NEW v \in Services, NEW subs \in SUBSET SubServices,
         CreateService(v, subs)
  PROVE  CatalogueInv'
<1> DEFINE r == [service[v] EXCEPT !.status = "PENDING_APPROVAL"]
           new == [status |-> "PENDING_APPROVAL", available |-> FALSE]
<1>1. /\ service[v].status = "NONE" /\ service' = [service EXCEPT ![v] = r]
      /\ \A s \in subs : Parent[s] = v
      /\ sub' = [s \in SubServices |-> IF s \in subs THEN new ELSE sub[s]]
      /\ requests' = Append(requests, Request(v, "CREATE"))
      /\ UNCHANGED <<approval, account, job>>
  BY DEF CreateService
<1>2. TablesOK
  BY Parts
<1>3. r \in ServiceRows /\ r.status = "PENDING_APPROVAL" /\ r.completed = service[v].completed
  BY <1>2 DEF TablesOK, ServiceRows, ServiceStatus
<1>4. new \in SubRows /\ new.status = "PENDING_APPROVAL" /\ new.available = FALSE
  BY DEF SubRows, ServiceStatus
<1> HIDE DEF r, new
<1>5. /\ service' \in [Services -> ServiceRows] /\ service'[v] = r
      /\ \A u \in Services : u # v => service'[u] = service[u]
  BY <1>1, <1>2, <1>3 DEF TablesOK
<1>6. /\ sub' \in [SubServices -> SubRows]
      /\ \A s \in SubServices : sub'[s] = IF s \in subs THEN new ELSE sub[s]
  BY <1>1, <1>2, <1>4 DEF TablesOK
<1>7. ActiveIsComplete' /\ StayPrepared
  BY <1>1, <1>2, <1>3, <1>5 DEF TablesOK, ActiveIsComplete, StayPrepared, Prepared
<1>8. NewIsOffSale' /\ RejectedIsOffSale'
  BY <1>2, <1>4, <1>6 DEF TablesOK, NewIsOffSale, RejectedIsOffSale
<1>9. \A s \in SubServices : Exists(sub[s])' => Exists(service[Parent[s]])'
  BY <1>1, <1>2, <1>3, <1>5, <1>6, CatalogueAssumption DEF TablesOK, Exists, ServiceStatus
<1>10. TablesOK'
  BY <1>1, <1>2, <1>5, <1>6, <1>7, <1>8, <1>9 DEF TablesOK
<1>11. /\ LogGrows /\ HasRequest(v)' /\ \A y : HasRequest(y) => HasRequest(y)'
       /\ \A n \in DOMAIN requests' \ DOMAIN requests : requests'[n].type = "CREATE"
  BY <1>1, Appended, Parts
<1>12. NewUpdatesPrepared
  BY <1>11 DEF NewUpdatesPrepared
<1>13. UnderReviewHasRequest'
  BY <1>4, <1>5, <1>6, <1>11, StillListed
<1> QED
  BY <1>1, <1>7, <1>10, <1>11, <1>12, <1>13, SameSettles, Settled

LEMMA DetailsWritten ==
  ASSUME CatalogueInv, NEW w \in Workers, NEW subs \in SUBSET SubServices,
         At(w, "completeDetails", "checked"), Exists(service[job[w].target]),
         \A s \in subs : Parent[s] = job[w].target,
         service' = Detailed(job[w].target),
         sub' = [s \in SubServices |->
                   IF s \in subs THEN [status |-> "ACTIVE", available |-> FALSE] ELSE sub[s]],
         Done(w), UNCHANGED <<approval, account, requests>>
  PROVE  CatalogueInv'
<1> DEFINE v == job[w].target
           r == [status |-> "ACTIVE", completed |-> TRUE]
           new == [status |-> "ACTIVE", available |-> FALSE]
<1>1. v \in Services
  BY Parts DEF JobsOK, JobOK, At
<1>2. /\ Exists(service[v]) /\ service' = [service EXCEPT ![v] = r]
      /\ \A s \in subs : Parent[s] = v
      /\ sub' = [s \in SubServices |-> IF s \in subs THEN new ELSE sub[s]]
      /\ Done(w) /\ UNCHANGED <<approval, account, requests>>
  BY DEF Detailed
<1>3. TablesOK
  BY Parts
<1>4. r \in ServiceRows /\ r.status = "ACTIVE" /\ r.completed
  BY DEF ServiceRows, ServiceStatus
<1>5. new \in SubRows /\ new.status = "ACTIVE"
  BY DEF SubRows, ServiceStatus
<1> HIDE DEF r, new
<1>6. /\ service' \in [Services -> ServiceRows] /\ service'[v] = r
      /\ \A u \in Services : u # v => service'[u] = service[u]
  BY <1>1, <1>2, <1>3, <1>4 DEF TablesOK
<1>7. ServicesKept
  BY <1>3, <1>4, <1>6 DEF ServicesKept, TablesOK, ActiveIsComplete, StayPrepared, Prepared,
                          Exists, ServiceStatus
<1>8. \A s \in SubServices : sub'[s] = IF s \in subs THEN new ELSE sub[s]
  BY <1>2
<1>9. SubsFollow
  BY <1>2, <1>3, <1>5, <1>8 DEF SubsFollow, TablesOK
<1>10. TablesOK'
  BY <1>2, <1>7, <1>9, SameParty, TablesFollow
<1>11. LogGrows /\ NewUpdatesPrepared /\ \A y : HasRequest(y) => HasRequest(y)'
  BY <1>2, SameLog, Parts
<1>12. UnderReviewHasRequest'
  BY <1>4, <1>5, <1>6, <1>8, <1>11, StillListed
<1> QED
  BY <1>2, <1>7, <1>10, <1>11, <1>12, DoneSettles, Settled DEF ServicesKept

LEMMA DetailsStep ==
  ASSUME CatalogueInv, NEW w \in Workers, NEW s \in SubServices, CompleteDetails(w, s)
  PROVE  CatalogueInv'
<1>1. /\ At(w, "completeDetails", "checked") /\ Exists(service[job[w].target])
      /\ Parent[s] = job[w].target /\ service' = Detailed(job[w].target)
      /\ sub' = [sub EXCEPT ![s] = [status |-> "ACTIVE", available |-> FALSE]]
      /\ Done(w) /\ UNCHANGED <<approval, account, requests>>
  BY DEF CompleteDetails
<1>2. sub \in [SubServices -> SubRows]
  BY Parts DEF TablesOK
<1>3. sub' = [t \in SubServices |->
                IF t \in {s} THEN [status |-> "ACTIVE", available |-> FALSE] ELSE sub[t]]
  BY <1>1, <1>2
<1> QED
  BY <1>1, <1>3, DetailsWritten

LEMMA HallDetailsStep ==
  ASSUME CatalogueInv, NEW w \in Workers, CompleteHallSoundDetails(w)
  PROVE  CatalogueInv'
<1>1. /\ At(w, "completeDetails", "checked") /\ Exists(service[job[w].target])
      /\ service' = Detailed(job[w].target) /\ sub' = sub
      /\ Done(w) /\ UNCHANGED <<approval, account, requests>>
  BY DEF CompleteHallSoundDetails
<1>2. sub \in [SubServices -> SubRows]
  BY Parts DEF TablesOK
<1>3. PICK subs \in SUBSET SubServices : subs = {}
  OBVIOUS
<1>4. sub' = [t \in SubServices |->
                IF t \in subs THEN [status |-> "ACTIVE", available |-> FALSE] ELSE sub[t]]
  BY <1>1, <1>2, <1>3
<1>5. \A s \in subs : Parent[s] = job[w].target
  BY <1>3
<1> QED
  BY <1>1, <1>4, <1>5, DetailsWritten

LEMMA InsertStep ==
  ASSUME CatalogueInv, NEW w \in Workers, NEW s \in SubServices, InsertSubService(w, s)
  PROVE  CatalogueInv'
<1> DEFINE r == [sub[s] EXCEPT !.status = "PENDING_APPROVAL"]
           j == [job[w] EXCEPT !.at = "inserted", !.target = s]
<1>1. /\ job[w].op = "createSubService" /\ Exists(service[Parent[s]])
      /\ sub[s].status = "NONE" /\ sub' = [sub EXCEPT ![s] = r]
      /\ job' = [job EXCEPT ![w] = j] /\ UNCHANGED <<approval, account, service, requests>>
  BY DEF InsertSubService, At
<1>2. TablesOK /\ LogOK /\ JobsTyped /\ JobsOK /\ UpdatesArePrepared
  BY Parts
<1>3. r \in SubRows /\ r.status = "PENDING_APPROVAL" /\ ~r.available
  BY <1>1, <1>2 DEF TablesOK, SubRows, ServiceStatus, NewIsOffSale
<1>4. j \in JobRows /\ j.op = "createSubService" /\ j.target = s
  BY <1>1, <1>2 DEF JobsTyped, JobRows
<1> HIDE DEF r, j
<1>5. SubsFollow
  BY <1>1, <1>3, SubWritten
<1>6. TablesOK'
  BY <1>1, <1>5, SameServices, SameParty, TablesFollow
<1>7. JobsTyped' /\ \A u \in Workers : job'[u] = IF u = w THEN j ELSE job[u]
  BY <1>1, <1>2, <1>4 DEF JobsTyped
<1>8. JobsOK'
  <2>1. ASSUME NEW u \in Workers, u # w PROVE JobOK(job[u])'
    BY <1>1, <1>2, <1>7, <2>1 DEF JobsOK, JobOK
  <2>2. JobOK(job[w])'
    BY <1>4, <1>7 DEF JobOK, ReviewOps
  <2> QED
    BY <2>1, <2>2 DEF JobsOK
<1>9. UpdatesArePrepared'
  BY <1>1, <1>2, <1>4, <1>7 DEF UpdatesArePrepared, Prepared
<1>10. LogGrows /\ \A y : HasRequest(y) => HasRequest(y)'
  BY <1>1, <1>2, SameLog
<1>11. \A u \in SubServices : sub'[u] = IF u = s THEN r ELSE sub[u]
  BY <1>1, <1>2 DEF TablesOK
<1>12. UnderReviewHasRequest'
  BY <1>1, <1>3, <1>10, <1>11, StillListed
<1> QED
  BY <1>6, <1>7, <1>8, <1>9, <1>10, <1>12, Parts, PTL DEF LogGrows

LEMMA RequestStep ==
  ASSUME CatalogueInv, NEW w \in Workers, RequestSubService(w)
  PROVE  CatalogueInv'
<1> DEFINE s == job[w].target
<1>1. s \in SubServices
  BY Parts DEF JobsOK, JobOK, RequestSubService, At
<1>2. /\ requests' = Append(requests, Request(s, "CREATE")) /\ Done(w)
      /\ UNCHANGED <<approval, account, service, sub>>
  BY DEF RequestSubService
<1> HIDE DEF s
<1>3. TablesOK' /\ StayPrepared
  BY <1>2, SameServices, SameSubs, SameParty, TablesFollow DEF ServicesKept
<1>4. /\ LogGrows /\ \A y : HasRequest(y) => HasRequest(y)'
      /\ \A n \in DOMAIN requests' \ DOMAIN requests : requests'[n].type = "CREATE"
  BY <1>1, <1>2, Appended, Parts
<1>5. NewUpdatesPrepared
  BY <1>4 DEF NewUpdatesPrepared
<1>6. UnderReviewHasRequest'
  BY <1>2, <1>4, StillListed
<1> QED
  BY <1>2, <1>3, <1>4, <1>5, <1>6, DoneSettles, Settled

LEMMA AdminSubStep ==
  ASSUME CatalogueInv, NEW s \in SubServices, AddSubServiceAsAdmin(s)
  PROVE  CatalogueInv'
<1> DEFINE r == [status |-> "ACTIVE", available |-> TRUE]
<1>1. /\ Exists(service[Parent[s]]) /\ sub' = [sub EXCEPT ![s] = r]
      /\ UNCHANGED <<approval, account, service, requests, job>>
  BY DEF AddSubServiceAsAdmin
<1>2. r \in SubRows /\ r.status = "ACTIVE"
  BY DEF SubRows, ServiceStatus
<1> HIDE DEF r
<1>3. TablesOK' /\ StayPrepared
  BY <1>1, <1>2, SubWritten, SameServices, SameParty, TablesFollow DEF ServicesKept
<1>4. LogGrows /\ NewUpdatesPrepared /\ \A y : HasRequest(y) => HasRequest(y)'
  BY <1>1, SameLog, Parts
<1>5. \A u \in SubServices : sub'[u] = IF u = s THEN r ELSE sub[u]
  BY <1>1, Parts DEF TablesOK
<1>6. UnderReviewHasRequest'
  BY <1>1, <1>2, <1>4, <1>5, StillListed
<1> QED
  BY <1>1, <1>3, <1>4, <1>6, SameSettles, Settled

LEMMA UpdateStep ==
  ASSUME CatalogueInv, NEW w \in Workers, UpdateService(w)
  PROVE  CatalogueInv'
<1>0. job[w].target \in Services /\ Prepared(job[w].target)
  BY Parts DEF JobsOK, JobOK, UpdatesArePrepared, UpdateService, At
<1>1. PICK v \in Services : v = job[w].target /\ Prepared(v)
  BY <1>0
<1>2. /\ Exists(service[v]) /\ requests' = Append(requests, Request(v, "UPDATE"))
      /\ service' = [service EXCEPT ![v].status = "PENDING_APPROVAL"]
      /\ Done(w) /\ UNCHANGED <<approval, account, sub>>
  BY <1>1 DEF UpdateService
<1>3. ServicesKept
  BY <1>1, <1>2, StatusWritten DEF ServiceStatus
<1>4. TablesOK'
  BY <1>2, <1>3, SameSubs, SameParty, TablesFollow
<1>5. /\ LogGrows /\ HasRequest(v)' /\ \A y : HasRequest(y) => HasRequest(y)'
      /\ \A n \in DOMAIN requests' \ DOMAIN requests : requests'[n].target = v
  BY <1>1, <1>2, Appended, Parts
<1>6. NewUpdatesPrepared
  BY <1>1, <1>3, <1>5 DEF NewUpdatesPrepared, ServicesKept, StayPrepared, Prepared
<1>7. \A u \in Services : u # v => service'[u] = service[u]
  BY <1>2, Parts DEF TablesOK
<1>8. UnderReviewHasRequest'
  BY <1>2, <1>5, <1>7, StillListed
<1> QED
  BY <1>2, <1>3, <1>4, <1>5, <1>6, <1>8, DoneSettles, Settled DEF ServicesKept

LEMMA SubUpdateStep ==
  ASSUME CatalogueInv, NEW w \in Workers, UpdateSubService(w)
  PROVE  CatalogueInv'
<1>0. job[w].target \in SubServices
  BY Parts DEF JobsOK, JobOK, UpdateSubService, At
<1>1. PICK s \in SubServices : s = job[w].target
  BY <1>0
<1> DEFINE r == [sub[s] EXCEPT !.status = "PENDING_APPROVAL"]
<1>2. /\ Exists(sub[s]) /\ requests' = Append(requests, Request(s, "UPDATE"))
      /\ sub' = [sub EXCEPT ![s] = r] /\ Done(w) /\ UNCHANGED <<approval, account, service>>
  BY <1>1 DEF UpdateSubService
<1>3. TablesOK
  BY Parts
<1>4. r \in SubRows /\ r.status = "PENDING_APPROVAL" /\ Exists(service[Parent[s]])
  BY <1>1, <1>2, <1>3 DEF TablesOK, SubRows, ServiceStatus
<1> HIDE DEF r
<1>5. TablesOK' /\ StayPrepared
  BY <1>1, <1>2, <1>4, SubWritten, SameServices, SameParty, TablesFollow DEF ServicesKept
<1>6. /\ LogGrows /\ HasRequest(s)' /\ \A y : HasRequest(y) => HasRequest(y)'
      /\ \A n \in DOMAIN requests' \ DOMAIN requests : requests'[n].target = s
  BY <1>1, <1>2, Appended, Parts
<1>7. NewUpdatesPrepared
  BY <1>1, <1>6, CatalogueAssumption DEF NewUpdatesPrepared
<1>8. \A u \in SubServices : u # s => sub'[u] = sub[u]
  BY <1>2, <1>3 DEF TablesOK
<1>9. UnderReviewHasRequest'
  BY <1>2, <1>6, <1>8, StillListed
<1> QED
  BY <1>2, <1>5, <1>6, <1>7, <1>9, DoneSettles, Settled

LEMMA Dropped ==
  ASSUME CatalogueInv, NEW v \in Services, Drop(v), UNCHANGED <<approval, account, requests>>
  PROVE  TablesOK' /\ StayPrepared /\ UnderReviewHasRequest'
<1> DEFINE gone == NoService("GONE")
<1>1. /\ service' = [service EXCEPT ![v] = gone] /\ sub' = Without(Children(v))
  BY DEF Drop, Dependants
<1>2. TablesOK /\ LogOK
  BY Parts
<1>3. gone \in ServiceRows /\ gone.status = "GONE"
  BY DEF NoService, ServiceRows
<1> HIDE DEF gone
<1>4. /\ service' \in [Services -> ServiceRows] /\ service'[v] = gone
      /\ \A u \in Services : u # v => service'[u] = service[u]
  BY <1>1, <1>2, <1>3 DEF TablesOK
<1>5. /\ sub' \in [SubServices -> SubRows]
      /\ \A s \in SubServices : sub'[s] = sub[s] \/ sub'[s] = NoSub("GONE")
      /\ \A s \in SubServices : Parent[s] = v => ~Exists(sub[s])'
  <2>1. NoSub("GONE") \in SubRows /\ ~Exists(NoSub("GONE"))
    BY DEF NoSub, SubRows, Exists, ServiceStatus
  <2> QED
    BY <1>1, <1>2, <2>1 DEF Without, Children, TablesOK, Exists
<1>6. \A s \in SubServices : Exists(sub[s])' => Exists(service[Parent[s]])'
  <2> SUFFICES ASSUME NEW s \in SubServices, Exists(sub[s])'
               PROVE  Exists(service[Parent[s]])'
    OBVIOUS
  <2>1. Parent[s] # v /\ Parent[s] \in Services
    BY <1>5, CatalogueAssumption
  <2>2. sub'[s] = sub[s]
    BY <1>5 DEF NoSub, Exists, ServiceStatus
  <2> QED
    BY <1>2, <1>4, <2>1, <2>2 DEF TablesOK, Exists
<1>7. ActiveIsComplete' /\ StayPrepared
  BY <1>2, <1>3, <1>4 DEF TablesOK, ActiveIsComplete, StayPrepared, Prepared
<1>8. NewIsOffSale' /\ RejectedIsOffSale'
  BY <1>2, <1>5 DEF TablesOK, NewIsOffSale, RejectedIsOffSale, NoSub
<1>9. TablesOK'
  BY <1>2, <1>4, <1>5, <1>6, <1>7, <1>8 DEF TablesOK
<1>10. \A y : HasRequest(y) => HasRequest(y)'
  BY <1>2, SameLog
<1>11. UnderReviewHasRequest'
  BY <1>3, <1>4, <1>5, <1>10, StillListed DEF NoSub
<1> QED
  BY <1>7, <1>9, <1>11

LEMMA DeleteStep ==
  ASSUME CatalogueInv,
         \/ \E v \in Services : DeleteService(v)
         \/ \E w \in Workers : DeleteFromProfile(w)
  PROVE  CatalogueInv'
<1>1. ASSUME NEW v \in Services, Drop(v), UNCHANGED <<approval, account, requests>>, JobsSettle
      PROVE  CatalogueInv'
  BY <1>1, Dropped, SameLog, Parts, Settled
<1>2. ASSUME NEW v \in Services, DeleteService(v)
      PROVE  CatalogueInv'
  BY <1>1, <1>2, SameSettles DEF DeleteService
<1>3. ASSUME NEW w \in Workers, DeleteFromProfile(w)
      PROVE  CatalogueInv'
  <2>1. job[w].target \in Services
    BY <1>3, Parts DEF JobsOK, JobOK, DeleteFromProfile, At
  <2> QED
    BY <1>1, <1>3, <2>1, DoneSettles DEF DeleteFromProfile
<1> QED
  BY <1>2, <1>3

LEMMA DeleteSubStep ==
  ASSUME CatalogueInv, NEW s \in SubServices, DeleteSubService(s)
  PROVE  CatalogueInv'
<1>1. sub' = Without({s}) /\ UNCHANGED <<approval, account, service, requests, job>>
  BY DEF DeleteSubService
<1>2. TablesOK' /\ StayPrepared
  BY <1>1, WithoutFollows, SameServices, SameParty, TablesFollow DEF ServicesKept
<1>3. LogGrows /\ NewUpdatesPrepared /\ \A y : HasRequest(y) => HasRequest(y)'
  BY <1>1, SameLog, Parts
<1>4. \A u \in SubServices : sub'[u] = sub[u] \/ sub'[u].status = "GONE"
  BY <1>1 DEF Without, NoSub
<1>5. UnderReviewHasRequest'
  BY <1>1, <1>3, <1>4, StillListed
<1> QED
  BY <1>1, <1>2, <1>3, <1>5, SameSettles, Settled

-----------------------------------------------------------------------------
(* The decisions of the admins on a service: its status leaves "under       *)
(* review" in the transaction that closes the request, and the only request *)
(* that is closed is about that service.                                    *)
LEMMA ServiceDecided ==
  ASSUME CatalogueInv, NEW w \in Workers, NEW v \in Services, NEW yes \in BOOLEAN,
         NEW s \in ServiceStatus \ {"PENDING_APPROVAL"},
         job[w].op \in ReviewOps, job[w].target = v, Exists(service[v]),
         s = "ACTIVE" => service[v].completed,
         service' = [service EXCEPT ![v].status = s],
         SubsFollow,
         \A u \in SubServices : sub'[u] = sub[u] \/ sub'[u].status \in {"GONE", "ACTIVE"},
         Decided(job[w].req, yes), Done(w), UNCHANGED <<approval, account>>
  PROVE  CatalogueInv'
<1>1. job[w].req \in DOMAIN requests /\ requests[job[w].req].target = v
  BY Parts DEF JobsOK, JobOK
<1>2. ServicesKept
  BY StatusWritten
<1>3. TablesOK'
  BY <1>2, SameParty, TablesFollow
<1>4. /\ LogGrows /\ NewUpdatesPrepared
      /\ \A y : y # v /\ HasRequest(y) => HasRequest(y)'
  BY <1>1, DecidedGrows, Parts
<1>5. \A u \in Services : u # v => service'[u] = service[u]
  BY Parts DEF TablesOK
<1>6. service'[v].status = s
  BY Parts DEF TablesOK, ServiceRows
<1>7. UnderReviewHasRequest'
  BY <1>4, <1>5, <1>6, StillListed, CatalogueAssumption
<1> QED
  BY <1>2, <1>3, <1>4, <1>7, DoneSettles, Settled DEF ServicesKept

LEMMA ListsLeave ==
  ASSUME NEW v, NEW refused, NEW approved, sub' = AfterLists(v, refused, approved)
  PROVE  \A u \in SubServices : sub'[u] = sub[u] \/ sub'[u].status \in {"GONE", "ACTIVE"}
<1>1. NoSub("GONE").status = "GONE"
  BY DEF NoSub
<1>2. [status |-> "ACTIVE", available |-> TRUE].status = "ACTIVE"
  OBVIOUS
<1>3. \A u \in SubServices : sub'[u] \in {sub[u], NoSub("GONE"),
                                        [status |-> "ACTIVE", available |-> TRUE]}
  BY DEF AfterLists
<1> QED
  BY <1>1, <1>2, <1>3

LEMMA ApproveServiceStep ==
  ASSUME CatalogueInv, NEW w \in Workers, NEW yes \in BOOLEAN,
         NEW refused, NEW approved, ApproveService(w, yes, refused, approved)
  PROVE  CatalogueInv'
<1>1. job[w].op = "approveService" /\ job[w].target \in Services
  BY Parts DEF JobsOK, JobOK, ReviewOps, Reviewed, ApproveService, At
<1>2. PICK v \in Services : v = job[w].target
  BY <1>1
<1> DEFINE s == IF yes THEN "PENDING_DETAILS" ELSE "REJECTED"
<1>3. s \in ServiceStatus \ {"PENDING_APPROVAL"} /\ s # "ACTIVE"
  BY DEF ServiceStatus
<1>4. /\ Exists(service[v]) /\ service' = [service EXCEPT ![v].status = s]
      /\ Decided(job[w].req, yes) /\ Done(w) /\ UNCHANGED <<approval, account>>
      /\ sub' = IF yes THEN AfterLists(v, refused, approved) ELSE Without(Children(v))
  BY <1>2 DEF ApproveService
<1> HIDE DEF s
<1>5. SubsFollow /\ \A u \in SubServices : sub'[u] = sub[u] \/ sub'[u].status \in {"GONE", "ACTIVE"}
  <2>1. CASE yes
    BY <1>4, <2>1, ListsFollow, ListsLeave
  <2>2. CASE ~yes
    <3>1. SubsFollow
      BY <1>4, <2>2, WithoutFollows
    <3>2. \A u \in SubServices : sub'[u] = sub[u] \/ sub'[u].status = "GONE"
      BY <1>4, <2>2 DEF Without, NoSub
    <3> QED
      BY <3>1, <3>2
  <2> QED
    BY <2>1, <2>2
<1> QED
  BY <1>1, <1>2, <1>3, <1>4, <1>5, ServiceDecided DEF ReviewOps

LEMMA ApproveServiceUpdateStep ==
  ASSUME CatalogueInv, NEW w \in Workers, NEW yes \in BOOLEAN,
         NEW refused, NEW approved, ApproveServiceUpdate(w, yes, refused, approved)
  PROVE  CatalogueInv'
<1>1. /\ job[w].op = "approveServiceUpdate" /\ job[w].target \in Services
      /\ job[w].req \in DOMAIN requests
      /\ requests[job[w].req].target = job[w].target
      /\ requests[job[w].req].type = "UPDATE"
  BY Parts DEF JobsOK, JobOK, ReviewOps, Reviewed, ReviewedType, ApproveServiceUpdate, At
<1>2. PICK v \in Services : v = job[w].target
  BY <1>1
<1>3. Prepared(v)
  BY <1>1, <1>2, Parts DEF UpdatesArePrepared
<1> DEFINE s == IF yes THEN "ACTIVE" ELSE "REJECTED"
<1>4. s \in ServiceStatus \ {"PENDING_APPROVAL"}
  BY DEF ServiceStatus
<1>5. /\ Exists(service[v]) /\ service' = [service EXCEPT ![v].status = s]
      /\ Decided(job[w].req, yes) /\ Done(w) /\ UNCHANGED <<approval, account>>
      /\ sub' = IF yes THEN AfterLists(v, refused, approved) ELSE sub
  BY <1>2 DEF ApproveServiceUpdate, AfterUpdate
<1>6. service[v].completed
  BY <1>3, <1>5 DEF Prepared, Exists, ServiceStatus
<1> HIDE DEF s
<1>7. SubsFollow /\ \A u \in SubServices : sub'[u] = sub[u] \/ sub'[u].status \in {"GONE", "ACTIVE"}
  <2>1. CASE yes
    BY <1>5, <2>1, ListsFollow, ListsLeave
  <2>2. CASE ~yes
    BY <1>5, <2>2, SameSubs
  <2> QED
    BY <2>1, <2>2
<1> QED
  BY <1>1, <1>2, <1>4, <1>5, <1>6, <1>7, ServiceDecided DEF ReviewOps

(* The decisions on a sub-service, in the same way. *)
LEMMA SubDecided ==
  ASSUME CatalogueInv, NEW w \in Workers, NEW x \in SubServices, NEW yes \in BOOLEAN,
         job[w].op \in ReviewOps, job[w].target = x,
         SubsFollow, sub'[x].status # "PENDING_APPROVAL",
         \A u \in SubServices : u # x => sub'[u] = sub[u],
         Decided(job[w].req, yes), Done(w), UNCHANGED <<approval, account, service>>
  PROVE  CatalogueInv'
<1>1. job[w].req \in DOMAIN requests /\ requests[job[w].req].target = x
  BY Parts DEF JobsOK, JobOK
<1>2. TablesOK' /\ StayPrepared
  BY SameServices, SameParty, TablesFollow DEF ServicesKept
<1>3. /\ LogGrows /\ NewUpdatesPrepared
      /\ \A y : y # x /\ HasRequest(y) => HasRequest(y)'
  BY <1>1, DecidedGrows, Parts
<1>4. UnderReviewHasRequest'
  BY <1>3, StillListed, CatalogueAssumption
<1> QED
  BY <1>2, <1>3, <1>4, DoneSettles, Settled

LEMMA ApproveSubStep ==
  ASSUME CatalogueInv, NEW w \in Workers, NEW yes \in BOOLEAN,
         ApproveSubService(w, yes) \/ ApproveSubServiceUpdate(w, yes)
  PROVE  CatalogueInv'
<1>1. job[w].op \in ReviewOps /\ job[w].target \in SubServices
  BY Parts DEF JobsOK, JobOK, ReviewOps, Reviewed, ApproveSubService,
               ApproveSubServiceUpdate, At
<1>2. PICK x \in SubServices : x = job[w].target
  BY <1>1
<1>3. Exists(sub[x]) /\ Exists(service[Parent[x]])
  BY <1>2, Parts DEF ApproveSubService, ApproveSubServiceUpdate, TablesOK
<1>4. Decided(job[w].req, yes) /\ Done(w) /\ UNCHANGED <<approval, account, service>>
  BY DEF ApproveSubService, ApproveSubServiceUpdate
<1>5. ASSUME NEW r \in SubRows,
             r.status = "ACTIVE" \/ (r.status = "REJECTED" /\ ~r.available),
             sub' = [sub EXCEPT ![x] = r]
      PROVE  CatalogueInv'
  <2>1. SubsFollow
    BY <1>3, <1>5, SubWritten
  <2>2. sub'[x] = r /\ \A u \in SubServices : u # x => sub'[u] = sub[u]
    BY <1>5, Parts DEF TablesOK
  <2>3. sub'[x].status # "PENDING_APPROVAL"
    BY <1>5, <2>2
  <2> QED
    BY <1>1, <1>2, <1>4, <2>1, <2>2, <2>3, SubDecided
<1>6. CASE sub' = Without({x})
  <2>1. SubsFollow
    BY <1>6, WithoutFollows
  <2>2. /\ sub'[x].status = "GONE"
        /\ \A u \in SubServices : u # x => sub'[u] = sub[u]
    BY <1>3, <1>6 DEF Without, NoSub
  <2> QED
    BY <1>1, <1>2, <1>4, <2>1, <2>2, SubDecided
<1>7. CASE ApproveSubService(w, yes)
  <2>1. CASE yes
    <3> DEFINE r == [status |-> "ACTIVE", available |-> TRUE]
    <3>1. r \in SubRows /\ r.status = "ACTIVE" /\ sub' = [sub EXCEPT ![x] = r]
      BY <1>2, <1>7, <2>1 DEF ApproveSubService, SubRows, ServiceStatus
    <3> QED
      BY <1>5, <3>1
  <2>2. CASE ~yes
    BY <1>2, <1>6, <1>7, <2>2 DEF ApproveSubService
  <2> QED
    BY <2>1, <2>2
<1>8. CASE ApproveSubServiceUpdate(w, yes)
  <2> DEFINE r == [status |-> IF yes THEN "ACTIVE" ELSE "REJECTED", available |-> yes]
  <2>1. sub' = [sub EXCEPT ![x] = r]
    BY <1>2, <1>8 DEF ApproveSubServiceUpdate, OnSaleAfter
  <2>2. r \in SubRows /\ (r.status = "ACTIVE" \/ (r.status = "REJECTED" /\ ~r.available))
    BY DEF SubRows, ServiceStatus
  <2> QED
    BY <1>5, <2>1, <2>2
<1> QED
  BY <1>7, <1>8

LEMMA NextInv == CatalogueInv /\ [CatalogueNext]_catalogueVars => CatalogueInv'
<1> SUFFICES ASSUME CatalogueInv, [CatalogueNext]_catalogueVars PROVE CatalogueInv'
  OBVIOUS
<1>1. CASE UNCHANGED catalogueVars
  <2>1. TablesOK' /\ StayPrepared
    BY <1>1, SameServices, SameSubs, SameParty, TablesFollow DEF catalogueVars, ServicesKept
  <2>2. LogGrows /\ NewUpdatesPrepared /\ \A y : HasRequest(y) => HasRequest(y)'
    BY <1>1, SameLog, Parts DEF catalogueVars
  <2>3. UnderReviewHasRequest'
    BY <1>1, <2>2, StillListed DEF catalogueVars
  <2> QED
    BY <1>1, <2>1, <2>2, <2>3, SameSettles, Settled DEF catalogueVars
<1>2. CASE CatalogueNext
  BY <1>2, LookStep, FindStep, JoinStep, CreateStep, DetailsStep, HallDetailsStep, InsertStep,
     RequestStep, AdminSubStep, UpdateStep, SubUpdateStep, DeleteStep, DeleteSubStep, ApproveServiceStep,
     ApproveServiceUpdateStep, ApproveSubStep, CatalogueAssumption
     DEF CatalogueNext
<1> QED
  BY <1>1, <1>2

(* The other part of ProviderSide leaves the catalogue alone.               *)
LEMMA Invariance == ProviderSideSpec => []CatalogueInv
<1>1. ProviderSideInit => CatalogueInv
  BY InitInv DEF ProviderSideInit
<1>2. [ProviderSideNext]_sideVars => [CatalogueNext]_catalogueVars
  BY DEF ProviderSideNext, sideVars
<1> QED
  BY <1>1, <1>2, NextInv, PTL DEF ProviderSideSpec

(* No path through the reviews puts a service on sale without its details:  *)
(* only a service that had them can be updated, and only updates activate   *)
(* one again.                                                               *)
THEOREM SoldServicesAreComplete == ProviderSideSpec => []ActiveIsComplete
BY Invariance, PTL DEF CatalogueInv

(* A sub-service whose update an admin refused is off sale. *)
THEOREM RejectedAreOffSale == ProviderSideSpec => []RejectedIsOffSale
BY Invariance, PTL DEF CatalogueInv

(* Nothing that is under review is forgotten: an admin's list names it,     *)
(* however many admins decide at once.                                      *)
THEOREM ReviewsAreListed == ProviderSideSpec => []UnderReviewHasRequest
BY Invariance, PTL DEF CatalogueInv
=============================================================================
