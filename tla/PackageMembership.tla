-------------------------- MODULE PackageMembership --------------------------
(***************************************************************************)
(* A package before it is sold: its owner composes and activates it, the   *)
(* providers of the other services are invited, accept, refuse and leave   *)
(* (PackagesService), invitations time out (PackagesCronService), and its  *)
(* discounts come and go (DiscountsService).                               *)
(*                                                                         *)
(* One package.  A handler is a job of a worker, with one step per query   *)
(* that another handler can get between.  Checks against data of other     *)
(* modules (active bookings, other packages with the same services, a      *)
(* common working day) change at any time: they may go either way, and a   *)
(* refusal is Abandon.                                                     *)
(***************************************************************************)
EXTENDS Naturals, Sequences, FiniteSets, SequencesExt

CONSTANTS
  Services,    \* those a package can have
  Own,         \* of which the owner's
  Halls,       \* of which packaged halls
  Type,        \* their service types
  Deletable,   \* the services that may be deleted (a bound of the model)
  Discounts,   \* ids of the discounts of the package, all without a code
  Workers,
  MaxRequests, \* requests ever begun (a bound of the model)
  MaxRows      \* rows of PackageService ever made (a bound of the model)

ASSUME MembershipAssumption ==
  /\ IsFiniteSet(Services)
  /\ Halls \subseteq Own
  /\ Own \subseteq Services
  /\ Deletable \subseteq Services
  /\ MaxRequests \in Nat
  /\ MaxRows \in Nat

VARIABLES
  package,    \* Package.status, "NONE" before the row exists
  rows,       \* PackageService, by id: rows of the same service are told apart
  deleted,    \* the services that were deleted
  discounts,  \* Discount.status and needsReconfirmation
  stale,      \* the invitations that expirePendingJoinRequests has still to write
  job,        \* per worker: what the handler remembers
  begun       \* how many requests were begun

membershipVars == <<package, rows, deleted, discounts, stale, job, begun>>
others         == <<deleted, discounts, stale>>

PackageStatus == {"DRAFT", "ACTIVE", "CANCELLED"}
MemberStatus  == {"PENDING_PROVIDER_APPROVAL", "ACTIVE", "REJECTED"}

(* old: 24 hours have passed since createdAt.  terms: how often the partner *)
(* was asked, once when the row was made and again at each new discount.    *)
(* agreed: to which of these an acceptance, written since the last of them, *)
(* was the answer; 0 if none was written.                                   *)
NewRow(v) ==
  [service |-> v, old |-> FALSE, terms |-> 1, agreed |-> 0,
   status |-> IF v \in Own THEN "ACTIVE" ELSE "PENDING_PROVIDER_APPROVAL"]

Here        == {r \in DOMAIN rows : rows[r].status # "GONE"}
Members     == {rows[r].service : r \in Here}
Active      == {r \in Here : rows[r].status = "ACTIVE"}
Invitations == {r \in Here : rows[r].status = "PENDING_PROVIDER_APPROVAL"}
RowsOf(S)   == {r \in Here : rows[r].service \in S}

(* Of a deleted row nothing is left but which service it was. *)
Gone(row) == [row EXCEPT !.status = "GONE", !.old = FALSE, !.agreed = 0]

Set(S, s) == [r \in DOMAIN rows |-> IF r \in S THEN [rows[r] EXCEPT !.status = s] ELSE rows[r]]

NoJob == [op |-> "idle", row |-> 0, terms |-> 1, add |-> {}, remove |-> {}, reset |-> FALSE,
          was |-> "NONE"]

MembershipInit ==
  /\ package   = "NONE"
  /\ rows      = <<>>
  /\ deleted   = {}
  /\ discounts = [d \in Discounts |-> [status |-> "NONE", needsReconfirmation |-> FALSE]]
  /\ stale     = {}
  /\ job       = [w \in Workers |-> NoJob]
  /\ begun     = 0

Begin(w, j) ==
  /\ job[w] = NoJob
  /\ begun < MaxRequests
  /\ begun' = begun + 1
  /\ job' = [job EXCEPT ![w] = j]

Goto(w, op) == job' = [job EXCEPT ![w].op = op] /\ begun' = begun
Done(w)     == job' = [job EXCEPT ![w] = NoJob] /\ begun' = begun

(* Refused, or a row to update is gone, or the process dies. *)
Abandon(w) ==
  /\ job[w] # NoJob
  /\ Done(w)
  /\ UNCHANGED <<package, rows, others>>

-----------------------------------------------------------------------------
(* What createPackage and updatePackage ask of the services of a package.   *)
Composes(S) ==
  /\ Cardinality(S) >= 2
  /\ \A u, v \in S : Type[u] = Type[v] => u = v
  /\ S \intersect Halls # {}

CreatePackage(S) ==
  /\ package = "NONE"
  /\ S \intersect deleted = {}
  /\ Composes(S)
  /\ package' = "DRAFT"
  /\ rows'    = [i \in 1 .. Cardinality(S) |-> NewRow(SetToSeq(S)[i])]
  /\ UNCHANGED <<others, job, begun>>

BeginUpdate(w) ==
  /\ package = "DRAFT"
  /\ Begin(w, [NoJob EXCEPT !.op = "update"])
  /\ UNCHANGED <<package, rows, others>>

(* updatePackage looks at the rows, in a query of its own. *)
CheckUpdate(w, add, remove, reset) ==
  LET final == (Members \ remove) \union add
  IN /\ job[w].op = "update"
     /\ add \intersect remove = {}
     /\ remove \subseteq Members
     /\ add \intersect (Members \union deleted) = {}
     /\ remove \intersect Members \intersect Halls = {}
     /\ final # {}
     /\ add # {} \/ remove # {} => Composes(final)
     /\ Len(rows) + Cardinality(add) <= MaxRows
     /\ job' = [job EXCEPT ![w] = [NoJob EXCEPT !.op = "updateChecked", !.add = add,
                                               !.remove = remove, !.reset = reset]]
     /\ UNCHANGED <<package, rows, others, begun>>

(* The transaction.  A service that came in meanwhile breaks the unique key, *)
(* one that was deleted the foreign key.  A changed discount asks every      *)
(* partner again; their rows keep their createdAt, and what was agreed to is *)
(* no answer to the new terms.                                               *)
AfterRemoval(j, asked) == [r \in DOMAIN rows |->
  CASE r \in RowsOf(j.remove) -> Gone(rows[r])
    [] r \in RowsOf(asked \ j.remove) /\ j.reset ->
         [rows[r] EXCEPT !.status = "PENDING_PROVIDER_APPROVAL", !.terms = @ + 1, !.agreed = 0]
    [] OTHER -> rows[r]]

(* Mutant: the owner is asked too. *)
Everybody == Services

Partners == Services \ Own

(* Mutant: without the unique key of the table. *)
ServicesThere(j) == j.add \intersect deleted = {}

KeysHold(j) == j.add \intersect ((Members \ j.remove) \union deleted) = {}

CommitUpdate(w) ==
  LET j == job[w]
  IN /\ j.op = "updateChecked"
     /\ KeysHold(j)
     /\ Len(rows) + Cardinality(j.add) <= MaxRows
     /\ rows' = AfterRemoval(j, Partners) \o [i \in 1 .. Cardinality(j.add) |-> NewRow(SetToSeq(j.add)[i])]
     /\ Done(w)
     /\ UNCHANGED <<package, others>>

-----------------------------------------------------------------------------
BeginActivate(w) ==
  /\ package = "DRAFT"
  /\ Begin(w, [NoJob EXCEPT !.op = "activate"])
  /\ UNCHANGED <<package, rows, others>>

CountBeforeActivation(w) ==
  /\ job[w].op = "activate"
  /\ Cardinality(Active) >= 2
  /\ Goto(w, "activateCounted")
  /\ UNCHANGED <<package, rows, others>>

ActivatePackage(w) ==
  /\ job[w].op = "activateCounted"
  /\ package' = "ACTIVE"
  /\ Goto(w, "suspendDiscounts")
  /\ UNCHANGED <<rows, others>>

SuspendDiscounts(w) ==
  /\ job[w].op = "suspendDiscounts"
  /\ discounts' = [d \in Discounts |->
                     IF discounts[d].status = "ACTIVE"
                     THEN [discounts[d] EXCEPT !.needsReconfirmation = TRUE]
                     ELSE discounts[d]]
  /\ Done(w)
  /\ UNCHANGED <<package, rows, deleted, stale>>

-----------------------------------------------------------------------------
(* The partners.  Each finds a row of its own, and answers by its id what   *)
(* the package asked of it then.                                            *)
FindInvitation(w, r, op) ==
  /\ r \in Invitations
  /\ Begin(w, [NoJob EXCEPT !.op = op, !.row = r, !.terms = rows[r].terms])
  /\ UNCHANGED <<package, rows, others>>

(* Mutant: the invitation is looked up again by its service. *)
InvitedAgain(w) == RowsOf({rows[job[w].row].service})

FoundRow(w) == {job[w].row} \intersect Here

AcceptJoinRequest(w) ==
  /\ job[w].op = "accept"
  /\ \E r \in FoundRow(w) :
       rows' = [rows EXCEPT ![r].status = "ACTIVE",
                            ![r].agreed = IF r = job[w].row THEN job[w].terms ELSE @]
  /\ Done(w)
  /\ UNCHANGED <<package, others>>

RejectJoinRequest(w) ==
  /\ job[w].op = "reject"
  /\ job[w].row \in Here
  /\ rows' = Set({job[w].row}, "REJECTED")
  /\ Done(w)
  /\ UNCHANGED <<package, others>>

FindMembership(w, r) ==
  /\ r \in Active
  /\ rows[r].service \notin Own
  /\ Begin(w, [NoJob EXCEPT !.op = "leave", !.row = r, !.was = package])
  /\ UNCHANGED <<package, rows, others>>

LeavePackage(w) ==
  /\ job[w].op = "leave"
  /\ job[w].row \in Here
  /\ rows' = Set({job[w].row}, "REJECTED")
  /\ Goto(w, "left")
  /\ UNCHANGED <<package, others>>

(* What is left is counted after the row is written, but the package's      *)
(* status is the one that was read before.                                  *)
CountAfterLeaving(w) ==
  /\ job[w].op = "left"
  /\ IF Cardinality(Active) < 2 /\ job[w].was = "ACTIVE" THEN Goto(w, "backToDraft") ELSE Done(w)
  /\ UNCHANGED <<package, rows, others>>

BackToDraft(w) ==
  /\ job[w].op = "backToDraft"
  /\ package' = "DRAFT"
  /\ Done(w)
  /\ UNCHANGED <<rows, others>>

(* The owner leaves: the package is cancelled. *)
BeginCancel(w) ==
  /\ package \in PackageStatus \ {"CANCELLED"}
  /\ Begin(w, [NoJob EXCEPT !.op = "cancel"])
  /\ UNCHANGED <<package, rows, others>>

CancelOwnedPackage(w) ==
  /\ job[w].op = "cancel"
  /\ rows'    = Set(Active \union Invitations, "REJECTED")
  /\ package' = "CANCELLED"
  /\ Done(w)
  /\ UNCHANGED others

-----------------------------------------------------------------------------
(* deleteService cascades into the package without a look at it. *)
DeleteService(v) ==
  /\ v \notin deleted
  /\ deleted' = deleted \union {v}
  /\ rows'    = [r \in DOMAIN rows |-> IF r \in RowsOf({v}) THEN Gone(rows[r]) ELSE rows[r]]
  /\ UNCHANGED <<package, discounts, stale, job, begun>>

(* 24 hours pass since a row was made. *)
Ages(r) ==
  /\ r \in Here /\ ~rows[r].old
  /\ rows[r].service \notin Own       \* nobody asks for the age of the others
  /\ rows' = [rows EXCEPT ![r].old = TRUE]
  /\ UNCHANGED <<package, others, job, begun>>

(* Mutant: only the invitations of packages that are still a draft expire.  *)
ExpiredInDraft == {r \in Invitations : rows[r].old /\ package = "DRAFT"}

Expired == {r \in Invitations : rows[r].old}

(* The query of the job, and one update by id per row it found; a row that  *)
(* is gone ends the pass.                                                   *)
ExpirePendingJoinRequests ==
  /\ stale = {}
  /\ Expired # {}
  /\ stale' = Expired
  /\ UNCHANGED <<package, rows, deleted, discounts, job, begun>>

ExpireInvitation(r) ==
  /\ r \in stale
  /\ IF r \in Here THEN rows' = Set({r}, "REJECTED") /\ stale' = stale \ {r}
                   ELSE rows' = rows /\ stale' = {}
  /\ UNCHANGED <<package, deleted, discounts, job, begun>>

-----------------------------------------------------------------------------
(* The discounts of the package, auto-applied ones that hold at any time,   *)
(* so any two overlap: its owner makes them, or an admin at the company's   *)
(* expense, after the same look at those there are.                         *)
BeginDiscount(w, op) ==
  /\ package # "NONE"
  /\ \A d \in Discounts : discounts[d].status # "ACTIVE"
  /\ Begin(w, [NoJob EXCEPT !.op = op])
  /\ UNCHANGED <<package, rows, others>>

Created(w, d) ==
  /\ discounts[d].status = "NONE"
  /\ discounts' = [discounts EXCEPT ![d].status = "ACTIVE"]
  /\ Done(w)
  /\ UNCHANGED <<package, rows, deleted, stale>>

CreateProviderDiscount(w, d) ==
  job[w].op = "createProviderDiscount" /\ Created(w, d)

CreateCompanyFundedDiscount(w, d) ==
  job[w].op = "createCompanyFundedDiscount" /\ Created(w, d)

(* Read and write of these two touch one field that they alone write so.    *)
Reconfirm(d) ==
  /\ discounts[d].needsReconfirmation
  /\ discounts' = [discounts EXCEPT ![d].needsReconfirmation = FALSE]
  /\ UNCHANGED <<package, rows, deleted, stale, job, begun>>

CancelDiscount(d) ==
  /\ discounts[d].status = "ACTIVE"
  /\ discounts' = [discounts EXCEPT ![d].status = "CANCELLED"]
  /\ UNCHANGED <<package, rows, deleted, stale, job, begun>>

-----------------------------------------------------------------------------
MembershipNext ==
  \/ \E S \in SUBSET Services : CreatePackage(S)
  \/ \E w \in Workers : BeginUpdate(w) \/ CommitUpdate(w)
  \/ \E w \in Workers, add, remove \in SUBSET Services, reset \in BOOLEAN :
       CheckUpdate(w, add, remove, reset)
  \/ \E w \in Workers :
       BeginActivate(w) \/ CountBeforeActivation(w) \/ ActivatePackage(w) \/ SuspendDiscounts(w)
  \/ \E w \in Workers, r \in DOMAIN rows :
       FindInvitation(w, r, "accept") \/ FindInvitation(w, r, "reject") \/ FindMembership(w, r)
  \/ \E w \in Workers : AcceptJoinRequest(w) \/ RejectJoinRequest(w)
  \/ \E w \in Workers : LeavePackage(w) \/ CountAfterLeaving(w) \/ BackToDraft(w)
  \/ \E w \in Workers : BeginCancel(w) \/ CancelOwnedPackage(w) \/ Abandon(w)
  \/ \E v \in Deletable : DeleteService(v)
  \/ \E r \in DOMAIN rows : Ages(r) \/ ExpireInvitation(r)
  \/ ExpirePendingJoinRequests
  \/ \E w \in Workers, op \in {"createProviderDiscount", "createCompanyFundedDiscount"} :
       BeginDiscount(w, op)
  \/ \E w \in Workers, d \in Discounts :
       CreateProviderDiscount(w, d) \/ CreateCompanyFundedDiscount(w, d)
  \/ \E d \in Discounts : Reconfirm(d) \/ CancelDiscount(d)

(* Time passes and the job runs every 15 minutes; nobody has to answer.     *)
MembershipFairness ==
  /\ \A r \in 1 .. MaxRows : WF_membershipVars(r \in DOMAIN rows /\ Ages(r))
  /\ WF_membershipVars(ExpirePendingJoinRequests)
  /\ WF_membershipVars(\E r \in DOMAIN rows : ExpireInvitation(r))

MembershipSpec == MembershipInit /\ [][MembershipNext]_membershipVars /\ MembershipFairness

-----------------------------------------------------------------------------
(* The rows are of the shape of their tables, and a service is at most once *)
(* in the package.                                                          *)
MembershipTypeOK ==
  /\ package \in PackageStatus \union {"NONE"}
  /\ rows \in Seq([service : Services, status : MemberStatus \union {"GONE"},
                   old : BOOLEAN, terms : Nat \ {0}, agreed : Nat])
  /\ \A r, t \in Here : rows[r].service = rows[t].service => r = t
  /\ deleted \subseteq Services
  /\ deleted \intersect Members = {}
  /\ discounts \in [Discounts -> [status : {"NONE", "ACTIVE", "CANCELLED"},
                                  needsReconfirmation : BOOLEAN]]
  /\ stale \subseteq DOMAIN rows
  /\ \A w \in Workers : job[w].row \in DOMAIN rows \union {0}

(* The update of the discount came between the two queries of an acceptance: *)
(* the row is ACTIVE by an answer to terms that stand no longer.             *)
Overtaken(r) == rows[r].agreed \in 1 .. rows[r].terms - 1

(* A partner's service is an active part of the package only if the partner  *)
(* accepted this invitation, as it stands since the discount last changed:   *)
(* neither an acceptance that was on its way when the service was taken out  *)
(* and invited again counts, nor one of before the partner was asked again.  *)
(* An acceptance that a change of the discount overtakes is written over it: *)
(* that much the code lets through.                                          *)
PartnersConsented ==
  \A r \in Active : rows[r].service \notin Own =>
    rows[r].agreed = rows[r].terms \/ Overtaken(r)

(* The hall the package stands on stays in it, and active, whatever requests *)
(* of the owner and the partners cross: it goes with the whole package, or   *)
(* when the service itself is deleted.                                       *)
OwnerHallStays ==
  [][\A r \in Active : rows[r].service \in Halls =>
       \/ rows'[r].status = "ACTIVE"
       \/ package' = "CANCELLED"
       \/ rows[r].service \in deleted']_membershipVars

(* No invitation stays open for ever, whatever becomes of the package.      *)
InvitationsEnd ==
  \A r \in 1 .. MaxRows : (r \in Invitations) ~> (r \notin Invitations)
=============================================================================
