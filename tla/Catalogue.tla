------------------------------ MODULE Catalogue ------------------------------
(***************************************************************************)
(* How a provider and what it sells come on sale: registration, the review *)
(* of services and sub-services by the admins (AdminApprovalService), the  *)
(* completion of details, updates under review, deletions.                 *)
(*                                                                         *)
(* A handler reads, decides, and then writes in a transaction that looks   *)
(* at nothing again but whether its rows are still there.  So a request is *)
(* a job of a worker: one step per query before the transaction, one for   *)
(* the transaction.  Bookings only matter here for guards ("has an active  *)
(* engagement", "has active bookings"); they change at any time, so those  *)
(* guards may go either way and a refusal is Abandon.  Prices and texts of *)
(* an update are left out.                                                 *)
(***************************************************************************)
EXTENDS Integers, Sequences

CONSTANTS
  Services, SubServices,  \* the ids that can be given; each is given once
  First,        \* the service that is made with the provider
  Parent,       \* the service of a sub-service
  Whole,         \* HALL and SOUND: services without sub-services
  Workers,      \* requests served at a time
  None,
  MaxRequests   \* a bound of the model: no new request is begun beyond it

ASSUME CatalogueAssumption ==
  /\ First \in Services
  /\ Whole \subseteq Services
  /\ Services \intersect SubServices = {}
  /\ None \notin Services \union SubServices
  /\ Parent \in [SubServices -> Services \ Whole]
  /\ MaxRequests \in Nat

VARIABLES
  approval,  \* ServiceProvider.approvalStatus
  account,   \* User.status of the provider
  service,   \* Service.approvalStatus and isCompleted
  sub,       \* SubService.approvalStatus and isAvailable
  requests,  \* ServiceChangeRequest, in the order of creation
  job        \* per worker: what the handler remembers

catalogueVars == <<approval, account, service, sub, requests, job>>

ServiceStatus == {"PENDING_APPROVAL", "PENDING_DETAILS", "ACTIVE", "REJECTED"}
ReviewOps ==
  {"approveService", "approveServiceUpdate", "approveSubService", "approveSubServiceUpdate"}
Ops == ReviewOps \union {"approveProviderJoin", "completeDetails", "updateService",
                         "updateSubService", "createSubService", "deleteService"}

(* A row that is not there yet, or not any more. *)
NoService(s) == [status |-> s, completed |-> FALSE]
NoSub(s)     == [status |-> s, available |-> FALSE]
Idle         == [op |-> "idle", at |-> "idle", target |-> None, req |-> 0]

Exists(row) == row.status \in ServiceStatus

(* registerProvider: the first service waits for the review of its provider *)
(* and has no change request.                                               *)
CatalogueInit ==
  /\ approval = "PENDING"
  /\ account  = "PENDING"
  /\ service  = [v \in Services |->
                   IF v = First THEN [status |-> "PENDING_APPROVAL", completed |-> FALSE]
                                ELSE NoService("NONE")]
  /\ sub      = [s \in SubServices |-> NoSub("NONE")]
  /\ requests = <<>>
  /\ job      = [w \in Workers |-> Idle]

-----------------------------------------------------------------------------
Begin(w, op, at, x, n) ==
  /\ job[w] = Idle
  /\ job' = [job EXCEPT ![w] = [op |-> op, at |-> at, target |-> x, req |-> n]]

At(w, op, at) == job[w].op = op /\ job[w].at = at
Done(w)       == job' = [job EXCEPT ![w] = Idle]

rows == <<approval, account, service, sub, requests>>

(* The client is refused, an upload or a row to update is missing, or the   *)
(* process dies.                                                            *)
Abandon(w) ==
  /\ job[w] # Idle
  /\ Done(w)
  /\ UNCHANGED rows

Request(x, type) == [target |-> x, type |-> type, status |-> "PENDING"]

Decided(n, yes) ==
  requests' = [requests EXCEPT ![n].status = IF yes THEN "APPROVED" ELSE "REJECTED"]

-----------------------------------------------------------------------------
(* The admins on a provider's join request; the request names one of its    *)
(* services.                                                                *)
FindProvider(w, v) ==
  /\ approval = "PENDING"
  /\ Exists(service[v])
  /\ Begin(w, "approveProviderJoin", "checked", v, 0)
  /\ UNCHANGED rows

ApproveProviderJoin(w, yes) ==
  LET v == job[w].target
  IN /\ At(w, "approveProviderJoin", "checked")
     /\ Exists(service[v])
     /\ approval' = IF yes THEN "APPROVED" ELSE "REJECTED"
     /\ account'  = IF yes THEN "ACTIVE" ELSE "SUSPENDED"
     /\ service'  = [service EXCEPT ![v].status = IF yes THEN "PENDING_DETAILS" ELSE "REJECTED"]
     /\ Done(w)
     /\ UNCHANGED <<sub, requests>>

-----------------------------------------------------------------------------
(* The provider makes services and sub-services. *)
CreateService(v, subs) ==
  /\ service[v].status = "NONE"
  /\ \A s \in subs : Parent[s] = v /\ sub[s].status = "NONE"
  /\ \A s, t \in subs : s = t
  /\ service'  = [service EXCEPT ![v].status = "PENDING_APPROVAL"]
  /\ sub'      = [s \in SubServices |->
                    IF s \in subs THEN [status |-> "PENDING_APPROVAL", available |-> FALSE]
                                  ELSE sub[s]]
  /\ requests' = Append(requests, Request(v, "CREATE"))
  /\ UNCHANGED <<approval, account, job>>

BeginDetails(w, v) ==
  /\ approval = "APPROVED"
  /\ Exists(service[v])
  /\ Begin(w, "completeDetails", "checked", v, 0)
  /\ UNCHANGED rows

(* The details make the service ACTIVE whatever it was, and come with a     *)
(* first sub-service, which isn't available yet.                            *)
Detailed(v) == [service EXCEPT ![v] = [status |-> "ACTIVE", completed |-> TRUE]]

CompleteDetails(w, s) ==
  LET v == job[w].target
  IN /\ At(w, "completeDetails", "checked")
     /\ v \notin Whole
     /\ Exists(service[v])
     /\ Parent[s] = v
     /\ sub[s].status = "NONE"
     /\ service' = Detailed(v)
     /\ sub'     = [sub EXCEPT ![s] = [status |-> "ACTIVE", available |-> FALSE]]
     /\ Done(w)
     /\ UNCHANGED <<approval, account, requests>>

(* HALL and SOUND have no sub-services. *)
CompleteHallSoundDetails(w) ==
  LET v == job[w].target
  IN /\ At(w, "completeDetails", "checked")
     /\ v \in Whole
     /\ Exists(service[v])
     /\ service' = Detailed(v)
     /\ Done(w)
     /\ UNCHANGED <<approval, account, sub, requests>>

BeginSubService(w, v) ==
  /\ v \notin Whole
  /\ service[v].completed
  /\ Begin(w, "createSubService", "checked", v, 0)
  /\ UNCHANGED rows

(* The row and the request for its review are written one after the other.  *)
InsertSubService(w, s) ==
  /\ At(w, "createSubService", "checked")
  /\ Parent[s] = job[w].target
  /\ Exists(service[Parent[s]])
  /\ sub[s].status = "NONE"
  /\ sub' = [sub EXCEPT ![s].status = "PENDING_APPROVAL"]
  /\ job' = [job EXCEPT ![w].at = "inserted", ![w].target = s]
  /\ UNCHANGED <<approval, account, service, requests>>

RequestSubService(w) ==
  /\ At(w, "createSubService", "inserted")
  /\ requests' = Append(requests, Request(job[w].target, "CREATE"))
  /\ Done(w)
  /\ UNCHANGED <<approval, account, service, sub>>

(* An admin's sub-service needs no review. *)
AddSubServiceAsAdmin(s) ==
  /\ Exists(service[Parent[s]])
  /\ sub[s].status = "NONE"
  /\ sub' = [sub EXCEPT ![s] = [status |-> "ACTIVE", available |-> TRUE]]
  /\ UNCHANGED <<approval, account, service, requests, job>>

-----------------------------------------------------------------------------
(* Updates go to the admins and freeze the row meanwhile. *)

(* Mutant: a service whose details are missing can be updated. *)
AcceptedService(row) == row.status \in {"PENDING_DETAILS", "ACTIVE"}

EditableService(row) == row.status = "ACTIVE"

BeginUpdate(w, v) ==
  /\ EditableService(service[v])
  /\ Begin(w, "updateService", "checked", v, 0)
  /\ UNCHANGED rows

UpdateService(w) ==
  LET v == job[w].target
  IN /\ At(w, "updateService", "checked")
     /\ Exists(service[v])
     /\ requests' = Append(requests, Request(v, "UPDATE"))
     /\ service'  = [service EXCEPT ![v].status = "PENDING_APPROVAL"]
     /\ Done(w)
     /\ UNCHANGED <<approval, account, sub>>

BeginSubUpdate(w, s) ==
  /\ service[Parent[s]].status = "ACTIVE"
  /\ sub[s].status = "ACTIVE"
  /\ Begin(w, "updateSubService", "checked", s, 0)
  /\ UNCHANGED rows

UpdateSubService(w) ==
  LET s == job[w].target
  IN /\ At(w, "updateSubService", "checked")
     /\ Exists(sub[s])
     /\ requests' = Append(requests, Request(s, "UPDATE"))
     /\ sub'      = [sub EXCEPT ![s].status = "PENDING_APPROVAL"]
     /\ Done(w)
     /\ UNCHANGED <<approval, account, service>>

-----------------------------------------------------------------------------
(* Deletions.  The foreign keys cascade: a service takes its sub-services   *)
(* with it; change requests refer to their target by its id only.           *)
Without(S) ==
  [s \in SubServices |-> IF s \in S /\ Exists(sub[s]) THEN NoSub("GONE") ELSE sub[s]]

Children(v) == {s \in SubServices : Parent[s] = v}

(* Mutant: no cascade. *)
OrphanAll(v) == {}

Dependants(v) == Children(v)

Drop(v) ==
  /\ Exists(service[v])
  /\ service' = [service EXCEPT ![v] = NoService("GONE")]
  /\ sub'     = Without(Dependants(v))

(* ServicesService.deleteService: whatever the status of the service. *)
DeleteService(v) ==
  /\ Drop(v)
  /\ UNCHANGED <<approval, account, requests, job>>

(* The deleteService of the provider's profile: not if the service is ACTIVE. *)
BeginDelete(w, v) ==
  /\ Exists(service[v]) /\ service[v].status # "ACTIVE"
  /\ Begin(w, "deleteService", "checked", v, 0)
  /\ UNCHANGED rows

DeleteFromProfile(w) ==
  /\ At(w, "deleteService", "checked")
  /\ Drop(job[w].target)
  /\ Done(w)
  /\ UNCHANGED <<approval, account, requests>>

DeleteSubService(s) ==
  /\ Exists(sub[s])
  /\ sub' = Without({s})
  /\ UNCHANGED <<approval, account, service, requests, job>>

-----------------------------------------------------------------------------
(* Reviews: the latest pending request, then the row it is about, then the  *)
(* transaction.                                                             *)
Pending(x, type) ==
  {n \in DOMAIN requests : requests[n] = Request(x, type)}

Reviewed(op) ==
  IF op \in {"approveService", "approveServiceUpdate"} THEN Services ELSE SubServices
ReviewedType(op) ==
  IF op \in {"approveService", "approveSubService"} THEN "CREATE" ELSE "UPDATE"

FindRequest(w, op, x) ==
  /\ x \in Reviewed(op)
  /\ \E n \in Pending(x, ReviewedType(op)) :
       /\ \A m \in Pending(x, ReviewedType(op)) : m <= n
       /\ Begin(w, op, "found", x, n)
  /\ UNCHANGED rows

Row(x) == IF x \in Services THEN service[x] ELSE sub[x]

FindTarget(w) ==
  /\ job[w].op \in ReviewOps /\ job[w].at = "found"
  /\ Exists(Row(job[w].target))
  /\ ReviewedType(job[w].op) = "UPDATE" => Row(job[w].target).status = "PENDING_APPROVAL"
  /\ job' = [job EXCEPT ![w].at = "checked"]
  /\ UNCHANGED rows

(* The admin's lists: sub-services refused, then sub-services approved.     *)
AfterLists(v, refused, approved) ==
  [s \in SubServices |->
     CASE s \in refused  /\ Parent[s] = v /\ Exists(sub[s]) -> NoSub("GONE")
       [] s \in approved \ refused /\ Parent[s] = v /\ Exists(sub[s]) ->
            [status |-> "ACTIVE", available |-> TRUE]
       [] OTHER -> sub[s]]

(* If the service is refused, its sub-services go with the first refusal.   *)
ApproveService(w, yes, refused, approved) ==
  LET v == job[w].target
  IN /\ At(w, "approveService", "checked")
     /\ Exists(service[v])
     /\ Decided(job[w].req, yes)
     /\ service' = [service EXCEPT ![v].status = IF yes THEN "PENDING_DETAILS" ELSE "REJECTED"]
     /\ sub' = IF yes THEN AfterLists(v, refused, approved) ELSE Without(Children(v))
     /\ Done(w)
     /\ UNCHANGED <<approval, account>>

ApproveSubService(w, yes) ==
  LET s == job[w].target
  IN /\ At(w, "approveSubService", "checked")
     /\ Exists(sub[s])
     /\ Decided(job[w].req, yes)
     /\ sub' = IF yes THEN [sub EXCEPT ![s] = [status |-> "ACTIVE", available |-> TRUE]]
                      ELSE Without({s})
     /\ Done(w)
     /\ UNCHANGED <<approval, account, service>>

(* Mutant: a refused update leaves the service frozen. *)
FrozenIfRefused(yes) == IF yes THEN "ACTIVE" ELSE "PENDING_APPROVAL"

AfterUpdate(yes) == IF yes THEN "ACTIVE" ELSE "REJECTED"

ApproveServiceUpdate(w, yes, refused, approved) ==
  LET v == job[w].target
  IN /\ At(w, "approveServiceUpdate", "checked")
     /\ Exists(service[v])
     /\ Decided(job[w].req, yes)
     /\ service' = [service EXCEPT ![v].status = AfterUpdate(yes)]
     /\ sub' = IF yes THEN AfterLists(v, refused, approved) ELSE sub
     /\ Done(w)
     /\ UNCHANGED <<approval, account>>

(* Mutant: a refused sub-service stays on sale. *)
StaysOnSale(yes) == TRUE

OnSaleAfter(yes) == yes

ApproveSubServiceUpdate(w, yes) ==
  LET s == job[w].target
  IN /\ At(w, "approveSubServiceUpdate", "checked")
     /\ Exists(sub[s])
     /\ Decided(job[w].req, yes)
     /\ sub' = [sub EXCEPT ![s] = [status |-> IF yes THEN "ACTIVE" ELSE "REJECTED",
                                   available |-> OnSaleAfter(yes)]]
     /\ Done(w)
     /\ UNCHANGED <<approval, account, service>>

-----------------------------------------------------------------------------
CatalogueNext ==
  \/ \E w \in Workers : Abandon(w)
  \/ \E w \in Workers, v \in Services :
       FindProvider(w, v) \/ BeginDetails(w, v) \/ BeginDelete(w, v)
  \/ \E w \in Workers, yes \in BOOLEAN :
       ApproveProviderJoin(w, yes) \/ ApproveSubService(w, yes) \/ ApproveSubServiceUpdate(w, yes)
  \/ \E v \in Services, subs \in SUBSET SubServices :
       Len(requests) < MaxRequests /\ v \notin Whole /\ CreateService(v, subs)
  \/ \E v \in Whole : Len(requests) < MaxRequests /\ CreateService(v, {})
  \/ \E w \in Workers, s \in SubServices : CompleteDetails(w, s)
  \/ \E w \in Workers : CompleteHallSoundDetails(w)
  \/ \E w \in Workers, v \in Services :
       Len(requests) < MaxRequests /\ (BeginSubService(w, v) \/ BeginUpdate(w, v))
  \/ \E w \in Workers, s \in SubServices : Len(requests) < MaxRequests /\ BeginSubUpdate(w, s)
  \/ \E w \in Workers, s \in SubServices : InsertSubService(w, s)
  \/ \E w \in Workers :
       RequestSubService(w) \/ UpdateService(w) \/ UpdateSubService(w) \/ DeleteFromProfile(w)
  \/ \E s \in SubServices : AddSubServiceAsAdmin(s) \/ DeleteSubService(s)
  \/ \E v \in Services : DeleteService(v)
  \/ \E w \in Workers, op \in ReviewOps, x \in Services \union SubServices :
       FindRequest(w, op, x)
  \/ \E w \in Workers : FindTarget(w)
  \/ \E w \in Workers, yes \in BOOLEAN, refused, approved \in SUBSET SubServices :
       ApproveService(w, yes, refused, approved) \/ ApproveServiceUpdate(w, yes, refused, approved)

CatalogueSpec == CatalogueInit /\ [][CatalogueNext]_catalogueVars

-----------------------------------------------------------------------------
(* The rows are of the shape of their tables, and no sub-service outlives   *)
(* its service.                                                             *)
CatalogueTypeOK ==
  /\ approval \in {"PENDING", "APPROVED", "REJECTED"}
  /\ account \in {"PENDING", "ACTIVE", "SUSPENDED"}
  /\ service \in [Services -> [status : ServiceStatus \union {"NONE", "GONE"}, completed : BOOLEAN]]
  /\ sub \in [SubServices -> [status : ServiceStatus \union {"NONE", "GONE"}, available : BOOLEAN]]
  /\ requests \in Seq([target : Services \union SubServices, type : {"CREATE", "UPDATE"},
                       status : {"PENDING", "APPROVED", "REJECTED"}])
  /\ job \in [Workers -> [op : Ops \union {"idle"}, at : {"idle", "found", "checked", "inserted"},
                          target : Services \union SubServices \union {None}, req : Nat]]
  /\ \A s \in SubServices : Exists(sub[s]) => Exists(service[Parent[s]])

(* A service that is on sale has its details (hours, media, bank account):  *)
(* no path through the reviews activates one without.                       *)
ActiveIsComplete ==
  \A v \in Services : service[v].status = "ACTIVE" => service[v].completed

(* A sub-service whose update was refused is not on sale. *)
RejectedIsOffSale ==
  \A s \in SubServices : sub[s].status = "REJECTED" => ~sub[s].available

(* What waits for an admin is on an admin's list: a service under review    *)
(* (but the first, which waits for its provider), and a sub-service that    *)
(* was on sale and is frozen for an update, has a pending request.          *)
HasRequest(x) ==
  \E n \in DOMAIN requests : requests[n].target = x /\ requests[n].status = "PENDING"

UnderReviewHasRequest ==
  /\ \A v \in Services \ {First} : service[v].status = "PENDING_APPROVAL" => HasRequest(v)
  /\ \A s \in SubServices :
       sub[s].status = "PENDING_APPROVAL" /\ sub[s].available => HasRequest(s)
=============================================================================
