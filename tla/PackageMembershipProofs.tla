------------------------ MODULE PackageMembershipProofs ------------------------
(***************************************************************************)
(* Proofs about PackageMembership, for any services, partners, requests at *)
(* once and deletions: the rows keep the shape and the unique key of their *)
(* table, a partner's service is an active part of the package only if the *)
(* partner accepted this very invitation at the terms that stood when it   *)
(* was found, and the hall the package stands on leaves it with the whole  *)
(* package only, or when it is deleted.                                    *)
(***************************************************************************)
EXTENDS PackageMembership, FiniteSetTheorems, SequenceTheorems, TLAPS

Terms == Nat \ {0}

RowSet == [service : Services, status : MemberStatus \union {"GONE"},
           old : BOOLEAN, terms : Terms, agreed : Nat]

Ops == {"idle", "update", "updateChecked", "activate", "activateCounted", "suspendDiscounts",
        "accept", "reject", "leave", "left", "backToDraft", "cancel",
        "createProviderDiscount", "createCompanyFundedDiscount"}

JobSet == [op : Ops, row : Nat, terms : Terms, add : SUBSET Services, remove : SUBSET Services,
           reset : BOOLEAN, was : PackageStatus \union {"NONE"}]

(* Some acceptance is behind every active row of a partner. *)
Accepted == \A r \in Active : rows[r].service \notin Own => rows[r].agreed # 0

RowsOK ==
  /\ rows \in Seq(RowSet)
  /\ \A r, t \in Here : rows[r].service = rows[t].service => r = t
  /\ deleted \subseteq Services
  /\ deleted \intersect Members = {}
  /\ stale \subseteq DOMAIN rows
  /\ Accepted

JobsOK ==
  /\ job \in [Workers -> JobSet]
  /\ \A w \in Workers : job[w].row \in DOMAIN rows \union {0}

DiscountsOK ==
  discounts \in [Discounts -> [status : {"NONE", "ACTIVE", "CANCELLED"},
                               needsReconfirmation : BOOLEAN]]

(* Nothing is asked of a package that is not there. *)
NothingYet == package = "NONE" => rows = <<>> /\ \A w \in Workers : job[w] = NoJob

MemberInv ==
  /\ package \in PackageStatus \union {"NONE"}
  /\ RowsOK
  /\ JobsOK
  /\ DiscountsOK
  /\ NothingYet

-----------------------------------------------------------------------------
(* The services of a set, one after the other. *)
LEMMA Listed ==
  ASSUME NEW S \in SUBSET Services
  PROVE  /\ Cardinality(S) \in Nat
         /\ \A i \in 1 .. Cardinality(S) : SetToSeq(S)[i] \in S
         /\ \A i, k \in 1 .. Cardinality(S) : SetToSeq(S)[i] = SetToSeq(S)[k] => i = k
<1>1. IsFiniteSet(S)
  BY MembershipAssumption, FS_Subset
<1>2. Cardinality(S) \in Nat
  BY <1>1, FS_CardinalityType
<1>3. PICK f : f \in Bijection(1 .. Cardinality(S), S)
  BY <1>1, FS_CardinalityType DEF ExistsBijection
<1>4. f \in [1 .. Cardinality(S) -> S] /\ IsInjective(f)
  BY <1>3 DEF Bijection, Injection
<1>5. SetToSeq(S) \in [1 .. Cardinality(S) -> S] /\ IsInjective(SetToSeq(S))
  BY <1>4 DEF SetToSeq
<1> QED
  BY <1>2, <1>5 DEF IsInjective

LEMMA TermsOnly == 1 \in Terms /\ \A t \in Terms : t \in Nat /\ t # 0 /\ t + 1 \in Terms
BY DEF Terms

LEMMA NewRows ==
  ASSUME NEW v \in Services
  PROVE  /\ NewRow(v) \in RowSet /\ NewRow(v).service = v /\ NewRow(v).status # "GONE"
         /\ NewRow(v).status = "ACTIVE" => v \in Own
BY TermsOnly DEF NewRow, RowSet, MemberStatus

LEMMA GoneRow ==
  ASSUME NEW row \in RowSet
  PROVE  /\ Gone(row) \in RowSet /\ Gone(row).service = row.service /\ Gone(row).status = "GONE"
         /\ Gone(row).terms = row.terms /\ Gone(row).agreed = 0
BY DEF Gone, RowSet, MemberStatus

LEMMA AskedAgain ==
  ASSUME NEW row \in RowSet, NEW k,
         k = [row EXCEPT !.status = "PENDING_PROVIDER_APPROVAL", !.terms = @ + 1, !.agreed = 0]
  PROVE  /\ k \in RowSet /\ k.service = row.service /\ k.status = "PENDING_PROVIDER_APPROVAL"
         /\ k.terms = row.terms + 1 /\ k.agreed = 0
<1>1. row.terms + 1 \in Terms
  BY TermsOnly DEF RowSet
<1> QED
  BY <1>1 DEF RowSet, MemberStatus

(* A write changes statuses and never the service of a row, revives none    *)
(* that is gone, and makes ACTIVE only what was accepted.                   *)
LEMMA RowsWritten ==
  ASSUME RowsOK, rows' \in [DOMAIN rows -> RowSet],
         \A r \in DOMAIN rows :
           /\ rows'[r].service = rows[r].service
           /\ rows'[r].status # "GONE" =>
                rows[r].status # "GONE" /\ rows[r].service \notin deleted'
           /\ rows'[r].status = "ACTIVE" /\ rows[r].service \notin Own => rows'[r].agreed # 0,
         deleted' \subseteq Services, stale' \subseteq DOMAIN rows
  PROVE  RowsOK' /\ DOMAIN rows' = DOMAIN rows
<1>1. Len(rows) \in Nat /\ DOMAIN rows = 1 .. Len(rows)
  BY DEF RowsOK
<1>2. rows' \in Seq(RowSet) /\ DOMAIN rows' = DOMAIN rows
  BY <1>1
<1>3. \A r \in Here' : r \in Here /\ rows[r].service \notin deleted'
  BY <1>2 DEF Here
<1>4. \A r, t \in Here' : rows'[r].service = rows'[t].service => r = t
  BY <1>2, <1>3 DEF Here, RowsOK
<1>5. deleted' \intersect Members' = {}
  BY <1>2, <1>3 DEF Here, Members
<1>6. Accepted'
  BY <1>2 DEF Accepted, Active, Here
<1> QED
  BY <1>2, <1>4, <1>5, <1>6 DEF RowsOK

LEMMA RowsKept ==
  ASSUME RowsOK, UNCHANGED <<rows, deleted>>, stale' \subseteq DOMAIN rows
  PROVE  RowsOK' /\ DOMAIN rows' = DOMAIN rows
BY DEF RowsOK, Accepted, Active, Here, Members

(* Rows set to a status that needs no consent. *)
LEMMA SetKeeps ==
  ASSUME RowsOK, NEW S, rows' = Set(S \intersect Here, "REJECTED"),
         deleted' = deleted, stale' \subseteq DOMAIN rows
  PROVE  RowsOK' /\ DOMAIN rows' = DOMAIN rows
<1>1. rows \in [DOMAIN rows -> RowSet]
  BY DEF RowsOK
<1>2. \A r \in DOMAIN rows : rows'[r] = IF r \in S \intersect Here
                                       THEN [rows[r] EXCEPT !.status = "REJECTED"] ELSE rows[r]
  BY DEF Set
<1>3. \A r \in DOMAIN rows :
        /\ rows'[r] \in RowSet /\ rows'[r].service = rows[r].service
        /\ rows'[r].status # "GONE" => rows[r].status # "GONE"
        /\ rows'[r].status = "ACTIVE" => rows[r].status = "ACTIVE"
        /\ rows'[r].agreed = rows[r].agreed
  <2> TAKE r \in DOMAIN rows
  <2>1. rows[r] \in RowSet
    BY <1>1
  <2>2. PICK row \in RowSet : row = [rows[r] EXCEPT !.status = "REJECTED"]
    BY <2>1 DEF RowSet, MemberStatus
  <2>3. row.service = rows[r].service /\ row.status = "REJECTED" /\ row.agreed = rows[r].agreed
    BY <2>1, <2>2 DEF RowSet
  <2>4. CASE r \in S \intersect Here
    <3>1. rows'[r] = row /\ rows[r].status # "GONE"
      BY <1>2, <2>2, <2>4 DEF Here
    <3> QED
      BY <2>3, <3>1
  <2>5. CASE r \notin S \intersect Here
    BY <1>2, <2>1, <2>5
  <2> QED
    BY <2>4, <2>5
<1>4. rows' \in [DOMAIN rows -> RowSet]
  BY <1>3 DEF Set
<1>5. \A r \in DOMAIN rows : rows[r].status # "GONE" => rows[r].service \notin deleted
  BY DEF RowsOK, Members, Here
<1>6. \A r \in DOMAIN rows : rows[r].status = "ACTIVE" /\ rows[r].service \notin Own =>
        rows[r].agreed # 0
  BY DEF RowsOK, Accepted, Active, Here
<1> QED
  BY <1>3, <1>4, <1>5, <1>6, RowsWritten DEF RowsOK

LEMMA JobMoves ==
  ASSUME JobsOK, NEW w \in Workers, NEW j \in JobSet, job' = [job EXCEPT ![w] = j],
         j.row \in DOMAIN rows \union {0}, DOMAIN rows \subseteq DOMAIN rows'
  PROVE  JobsOK'
BY DEF JobsOK

LEMMA JobsStay ==
  ASSUME JobsOK, UNCHANGED job, DOMAIN rows \subseteq DOMAIN rows'
  PROVE  JobsOK'
BY DEF JobsOK

LEMMA IdleJob == NoJob \in JobSet /\ NoJob.row = 0
BY TermsOnly DEF NoJob, JobSet, Ops, PackageStatus

LEMMA JobDone ==
  ASSUME JobsOK, NEW w \in Workers, Done(w), DOMAIN rows \subseteq DOMAIN rows'
  PROVE  JobsOK'
BY IdleJob, JobMoves DEF Done

LEMMA JobGoes ==
  ASSUME JobsOK, NEW w \in Workers, NEW op \in Ops, Goto(w, op),
         DOMAIN rows \subseteq DOMAIN rows'
  PROVE  JobsOK'
<1>1. PICK k \in JobSet : k = [job[w] EXCEPT !.op = op]
  BY DEF JobsOK, JobSet
<1>2. k.row = job[w].row
  BY <1>1 DEF JobsOK, JobSet
<1>3. job' = [job EXCEPT ![w] = k]
  BY <1>1 DEF Goto
<1> QED
  BY <1>2, <1>3, JobMoves DEF JobsOK

LEMMA InitInv == MembershipInit => MemberInv
<1> SUFFICES ASSUME MembershipInit PROVE MemberInv
  OBVIOUS
<1>1. RowsOK
  BY DEF MembershipInit, RowsOK, Accepted, Active, Here, Members
<1>2. JobsOK
  BY IdleJob DEF MembershipInit, JobsOK
<1> QED
  BY <1>1, <1>2 DEF MembershipInit, MemberInv, DiscountsOK, NothingYet

(* Rows put behind those there are, after a write to these. *)
LEMMA RowsAdded ==
  ASSUME RowsOK, NEW S \in SUBSET Services, NEW mid \in [DOMAIN rows -> RowSet],
         \A r \in DOMAIN rows :
           /\ mid[r].service = rows[r].service
           /\ mid[r].status # "GONE" => rows[r].status # "GONE" /\ rows[r].service \notin S
           /\ mid[r].status = "ACTIVE" /\ rows[r].service \notin Own => mid[r].agreed # 0,
         rows' = mid \o [i \in 1 .. Cardinality(S) |-> NewRow(SetToSeq(S)[i])],
         S \intersect deleted = {}, UNCHANGED <<deleted, stale>>
  PROVE  RowsOK' /\ DOMAIN rows \subseteq DOMAIN rows'
<1>1. PICK n \in Nat, m \in Nat : n = Len(rows) /\ m = Cardinality(S)
  BY Listed DEF RowsOK
<1>0. DOMAIN rows = 1 .. n /\ rows \in Seq(RowSet)
  BY <1>1 DEF RowsOK
<1>2. \A i \in 1 .. m : SetToSeq(S)[i] \in S /\ SetToSeq(S)[i] \in Services
  BY <1>1, Listed
<1>3. PICK new : new = [i \in 1 .. m |-> NewRow(SetToSeq(S)[i])]
  OBVIOUS
<1>16. ASSUME NEW i \in 1 .. m
       PROVE  /\ new[i] \in RowSet /\ new[i].service = SetToSeq(S)[i]
              /\ new[i].service \in S
              /\ new[i].status = "ACTIVE" => new[i].service \in Own
  <2>1. new[i] = NewRow(SetToSeq(S)[i])
    BY <1>3
  <2> QED
    BY <1>2, <2>1, NewRows
<1>4. new \in Seq(RowSet) /\ Len(new) = m
  <2>1. new \in [1 .. m -> RowSet]
    BY <1>3, <1>16
  <2>2. m \in Nat
    OBVIOUS
  <2> QED
    BY <2>1, <2>2
<1>5. mid \in Seq(RowSet) /\ Len(mid) = n
  BY <1>0
<1>6. rows' = mid \o new
  BY <1>1, <1>3
<1>7. /\ rows' \in Seq(RowSet) /\ DOMAIN rows' = 1 .. (n + m)
      /\ \A r \in 1 .. (n + m) : rows'[r] = IF r <= n THEN mid[r] ELSE new[r - n]
  <2>1. /\ mid \o new \in Seq(RowSet) /\ Len(mid \o new) = n + m
        /\ \A r \in 1 .. (n + m) : (mid \o new)[r] = IF r <= n THEN mid[r] ELSE new[r - n]
    <3>1. /\ mid \o new \in Seq(RowSet) /\ Len(mid \o new) = Len(mid) + Len(new)
          /\ \A r \in 1 .. (Len(mid) + Len(new)) :
               (mid \o new)[r] = IF r <= Len(mid) THEN mid[r] ELSE new[r - Len(mid)]
      BY <1>4, <1>5, ConcatProperties, Zenon
    <3>2. Len(mid) = n /\ Len(new) = m
      BY <1>4, <1>5
    <3> QED
      BY <3>1, <3>2, Zenon
  <2>2. PICK both \in Seq(RowSet) : both = mid \o new
    BY <2>1
  <2>3. /\ Len(both) = n + m
        /\ \A r \in 1 .. (n + m) : both[r] = IF r <= n THEN mid[r] ELSE new[r - n]
    BY <2>1, <2>2
  <2>4. DOMAIN both = 1 .. (n + m)
    BY <2>2, <2>3
  <2>5. rows' = both
    BY <1>6, <2>2, Zenon
  <2> QED
    BY <2>2, <2>3, <2>4, <2>5, Zenon
<1>8. \A r \in 1 .. (n + m) : r > n => r - n \in 1 .. m
  BY <1>1
<1>9. ASSUME NEW r \in Here'
      PROVE  \/ r \in Here /\ rows'[r].service = rows[r].service /\ rows[r].service \notin S
                /\ r <= n /\ r \in DOMAIN rows
             \/ r > n /\ r - n \in 1 .. m /\ rows'[r].service = SetToSeq(S)[r - n]
                /\ rows'[r].service \in S
  <2>1. r \in 1 .. (n + m) /\ rows'[r].status # "GONE"
    BY <1>7 DEF Here
  <2>2. CASE r <= n
    <3>1. r \in DOMAIN rows /\ rows'[r] = mid[r]
      BY <1>0, <1>7, <2>1, <2>2
    <3> QED
      BY <2>1, <2>2, <3>1 DEF Here
  <2>3. CASE r > n
    <3>0. rows'[r] = new[r - n] /\ r - n \in 1 .. m
      <4>1. ~(r <= n)
        BY <1>1, <2>1, <2>3
      <4> QED
        BY <1>7, <1>8, <2>1, <2>3, <4>1, Zenon
    <3>1. PICK i \in 1 .. m : i = r - n /\ rows'[r] = new[i]
      BY <3>0
    <3>2. new[i].service = SetToSeq(S)[i] /\ new[i].service \in S
      BY <1>16
    <3>3. rows'[r].service = SetToSeq(S)[r - n] /\ rows'[r].service \in S
      BY <3>1, <3>2
    <3> QED
      BY <2>3, <3>0, <3>3
  <2>4. r <= n \/ r > n
    BY <1>1, <2>1
  <2> QED
    BY <2>2, <2>3, <2>4
<1>14. /\ \A r, t \in Here : rows[r].service = rows[t].service => r = t
       /\ \A r \in Here : rows[r].service \notin deleted
       /\ stale \subseteq DOMAIN rows /\ deleted \subseteq Services
  BY DEF RowsOK, Members
<1>15. \A r \in DOMAIN rows : rows[r].status # "GONE" <=> r \in Here
  BY DEF Here
<1>10. \A r, t \in Here' : rows'[r].service = rows'[t].service => r = t
  <2> SUFFICES ASSUME NEW r \in Here', NEW t \in Here', rows'[r].service = rows'[t].service
               PROVE  r = t
    OBVIOUS
  <2>1. CASE r \in Here /\ rows'[r].service = rows[r].service /\ rows[r].service \notin S
    <3>1. rows'[t].service \notin S
      BY <2>1
    <3>2. t \in Here /\ rows'[t].service = rows[t].service
      BY <1>9, <3>1
    <3> QED
      BY <1>14, <2>1, <3>2
  <2>2. CASE r > n /\ r - n \in 1 .. m /\ rows'[r].service = SetToSeq(S)[r - n]
             /\ rows'[r].service \in S
    <3>1. t > n /\ t - n \in 1 .. m /\ rows'[t].service = SetToSeq(S)[t - n]
      BY <1>9, <2>2
    <3>2. r - n = t - n
      BY <1>1, <2>2, <3>1, Listed
    <3>3. r \in 1 .. (n + m) /\ t \in 1 .. (n + m)
      BY <1>7 DEF Here
    <3> QED
      BY <1>1, <3>2, <3>3
  <2> QED
    BY <1>9, <2>1, <2>2
<1>11. deleted' \intersect Members' = {}
  <2>1. \A r \in Here' : rows'[r].service \notin deleted
    BY <1>9, <1>14
  <2> QED
    BY <2>1 DEF Members
<1>12. Accepted'
  <2> SUFFICES ASSUME NEW r \in Here', rows'[r].status = "ACTIVE", rows'[r].service \notin Own
               PROVE  rows'[r].agreed # 0
    BY DEF Accepted, Active
  <2>1. r \in 1 .. (n + m)
    BY <1>7 DEF Here
  <2>2. CASE r <= n
    <3>1. r \in DOMAIN rows /\ rows'[r] = mid[r]
      BY <1>0, <1>1, <1>7, <2>1, <2>2
    <3> QED
      BY <3>1
  <2>3. CASE r > n
    <3>0. rows'[r] = new[r - n] /\ r - n \in 1 .. m
      <4>1. ~(r <= n)
        BY <1>1, <2>1, <2>3
      <4> QED
        BY <1>7, <1>8, <2>1, <2>3, <4>1, Zenon
    <3>1. PICK i \in 1 .. m : i = r - n /\ rows'[r] = new[i]
      BY <3>0
    <3>2. new[i].status = "ACTIVE" => new[i].service \in Own
      BY <1>16
    <3> QED
      BY <3>1, <3>2
  <2>4. r <= n \/ r > n
    BY <1>1, <2>1
  <2> QED
    BY <2>2, <2>3, <2>4
<1>13. DOMAIN rows \subseteq DOMAIN rows'
  BY <1>0, <1>1, <1>7
<1> QED
  BY <1>7, <1>10, <1>11, <1>12, <1>13, <1>14 DEF RowsOK

LEMMA CreatePackageKeeps ==
  ASSUME MemberInv, NEW S \in SUBSET Services, CreatePackage(S)
  PROVE  MemberInv'
<1>1. rows = <<>>
  BY DEF MemberInv, NothingYet, CreatePackage
<1>2. rows \in [DOMAIN rows -> RowSet] /\ DOMAIN rows = {}
  BY <1>1
<1> DEFINE new == [i \in 1 .. Cardinality(S) |-> NewRow(SetToSeq(S)[i])]
<1>3. new \in Seq(RowSet)
  <2>1. \A i \in 1 .. Cardinality(S) : new[i] \in RowSet
    BY Listed, NewRows
  <2> QED
    BY <2>1, Listed
<1>4. rows' = rows \o new
  BY <1>1, <1>3 DEF CreatePackage
<1>5. RowsOK' /\ DOMAIN rows \subseteq DOMAIN rows'
  BY <1>2, <1>4, RowsAdded DEF MemberInv, CreatePackage, others
<1> QED
  BY <1>5, JobsStay DEF MemberInv, CreatePackage, others, PackageStatus, DiscountsOK, NothingYet

LEMMA CommitUpdateKeeps ==
  ASSUME MemberInv, NEW w \in Workers, CommitUpdate(w)
  PROVE  RowsOK' /\ JobsOK'
<1> DEFINE j == job[w]
<1>0. PICK mid : mid = AfterRemoval(j, Partners)
  OBVIOUS
<1>1. j.add \in SUBSET Services /\ j.add \intersect deleted = {}
  BY DEF MemberInv, JobsOK, JobSet, CommitUpdate, KeysHold
<1>2. rows \in [DOMAIN rows -> RowSet]
  BY DEF MemberInv, RowsOK
<1>9. mid = [r \in DOMAIN rows |->
               CASE r \in RowsOf(j.remove) -> Gone(rows[r])
                 [] r \in RowsOf(Partners \ j.remove) /\ j.reset ->
                      [rows[r] EXCEPT !.status = "PENDING_PROVIDER_APPROVAL", !.terms = @ + 1, !.agreed = 0]
                 [] OTHER -> rows[r]]
  BY <1>0 DEF AfterRemoval
<1>10. RowsOf(j.remove) \intersect RowsOf(Partners \ j.remove) = {}
  BY DEF RowsOf
<1>3. ASSUME NEW r \in DOMAIN rows
      PROVE  /\ mid[r] \in RowSet
             /\ mid[r].service = rows[r].service
             /\ mid[r].status # "GONE" => r \in Here /\ r \notin RowsOf(j.remove)
             /\ mid[r].status = "ACTIVE" => rows[r].status = "ACTIVE"
             /\ mid[r].status = "ACTIVE" => mid[r].agreed = rows[r].agreed
  <2>1. rows[r] \in RowSet
    BY <1>2
  <2>2. CASE r \in RowsOf(j.remove)
    <3>1. mid[r] = Gone(rows[r])
      BY <1>9, <1>10, <2>2
    <3> QED
      BY <2>1, <3>1, GoneRow
  <2>3. CASE r \notin RowsOf(j.remove) /\ r \in RowsOf(Partners \ j.remove) /\ j.reset
    <3>1. mid[r] = [rows[r] EXCEPT !.status = "PENDING_PROVIDER_APPROVAL", !.terms = @ + 1, !.agreed = 0]
      BY <1>9, <2>3
    <3>2. r \in Here
      BY <2>3 DEF RowsOf
    <3> QED
      BY <2>1, <2>3, <3>1, <3>2, AskedAgain
  <2>4. CASE r \notin RowsOf(j.remove) /\ ~(r \in RowsOf(Partners \ j.remove) /\ j.reset)
    <3>1. mid[r] = rows[r]
      BY <1>9, <2>4
    <3> QED
      BY <2>1, <2>4, <3>1 DEF Here
  <2> QED
    BY <2>2, <2>3, <2>4
<1>4. mid \in [DOMAIN rows -> RowSet]
  BY <1>0, <1>3 DEF AfterRemoval
<1>5. \A r \in Here : r \notin RowsOf(j.remove) => rows[r].service \notin j.add
  BY DEF CommitUpdate, KeysHold, Members, RowsOf
<1>6. \A r \in DOMAIN rows :
        /\ mid[r].status # "GONE" => rows[r].status # "GONE" /\ rows[r].service \notin j.add
        /\ mid[r].status = "ACTIVE" /\ rows[r].service \notin Own => mid[r].agreed # 0
  BY <1>3, <1>5 DEF Here, MemberInv, RowsOK, Accepted, Active
<1>7. rows' = mid \o [i \in 1 .. Cardinality(j.add) |-> NewRow(SetToSeq(j.add)[i])]
  BY <1>0 DEF CommitUpdate
<1>8. RowsOK' /\ DOMAIN rows \subseteq DOMAIN rows'
  <2>1. PICK S \in SUBSET Services : S = j.add
    BY <1>1
  <2>2. rows' = mid \o [i \in 1 .. Cardinality(S) |-> NewRow(SetToSeq(S)[i])]
    BY <1>7, <2>1
  <2>3. \A r \in DOMAIN rows :
          /\ mid[r].service = rows[r].service
          /\ mid[r].status # "GONE" => rows[r].status # "GONE" /\ rows[r].service \notin S
          /\ mid[r].status = "ACTIVE" /\ rows[r].service \notin Own => mid[r].agreed # 0
    BY <1>3, <1>6, <2>1
  <2>4. RowsOK /\ S \intersect deleted = {} /\ UNCHANGED <<deleted, stale>>
    BY <1>1, <2>1 DEF MemberInv, CommitUpdate, others
  <2> QED
    BY <1>4, <2>2, <2>3, <2>4, RowsAdded
<1> QED
  BY <1>8, JobDone DEF MemberInv, CommitUpdate

-----------------------------------------------------------------------------
(* A step that leaves the package there keeps NothingYet true. *)
LEMMA Working ==
  ASSUME MemberInv, NEW w \in Workers, job[w] # NoJob
  PROVE  package # "NONE" /\ package \in PackageStatus
BY DEF MemberInv, NothingYet

LEMMA SomeRow ==
  ASSUME MemberInv, NEW r \in DOMAIN rows
  PROVE  package # "NONE" /\ package \in PackageStatus
BY DEF MemberInv, NothingYet

LEMMA RowIsNat == MemberInv => DOMAIN rows \subseteq Nat
BY DEF MemberInv, RowsOK

LEMMA BeginKeeps ==
  ASSUME MemberInv, NEW w \in Workers, NEW j \in JobSet, Begin(w, j),
         j.row \in DOMAIN rows \union {0}, package # "NONE", UNCHANGED <<package, rows, others>>
  PROVE  MemberInv'
<1>1. RowsOK' /\ DOMAIN rows' = DOMAIN rows
  BY RowsKept DEF MemberInv, RowsOK, others
<1>2. JobsOK'
  BY <1>1, JobMoves DEF MemberInv, Begin
<1> QED
  BY <1>1, <1>2 DEF MemberInv, DiscountsOK, NothingYet, others

(* A job goes on or ends, with or without a new status of the package. *)
LEMMA MoveKeeps ==
  ASSUME MemberInv, NEW w \in Workers, job[w] # NoJob,
         Done(w) \/ \E op \in Ops : Goto(w, op),
         package' \in PackageStatus \union {package}, UNCHANGED <<rows, others>>
  PROVE  MemberInv'
<1>1. RowsOK' /\ DOMAIN rows' = DOMAIN rows
  BY RowsKept DEF MemberInv, RowsOK, others
<1>2. JobsOK'
  BY <1>1, JobDone, JobGoes DEF MemberInv
<1>3. package' \in PackageStatus /\ package' # "NONE"
  BY Working DEF PackageStatus
<1> QED
  BY <1>1, <1>2, <1>3 DEF MemberInv, DiscountsOK, NothingYet, others

(* Statuses of rows are written and the job moves. *)
LEMMA RefusalKeeps ==
  ASSUME MemberInv, NEW w \in Workers, job[w] # NoJob,
         Done(w) \/ \E op \in Ops : Goto(w, op), NEW S \in SUBSET Here, rows' = Set(S, "REJECTED"),
         package' \in PackageStatus \union {package}, UNCHANGED others
  PROVE  MemberInv'
<1>1. S = S \intersect Here
  OBVIOUS
<1>2. RowsOK' /\ DOMAIN rows' = DOMAIN rows
  BY <1>1, SetKeeps DEF MemberInv, RowsOK, others
<1>3. JobsOK'
  BY <1>2, JobDone, JobGoes DEF MemberInv
<1>4. package' \in PackageStatus /\ package' # "NONE"
  BY Working DEF PackageStatus
<1> QED
  BY <1>2, <1>3, <1>4 DEF MemberInv, DiscountsOK, NothingYet, others

LEMMA BeginningsKeep ==
  ASSUME MemberInv, NEW w \in Workers,
         \/ BeginUpdate(w) \/ BeginActivate(w) \/ BeginCancel(w)
         \/ \E op \in {"createProviderDiscount", "createCompanyFundedDiscount"} : BeginDiscount(w, op)
         \/ \E r \in DOMAIN rows : \/ FindInvitation(w, r, "accept")
                                  \/ FindInvitation(w, r, "reject")
                                  \/ FindMembership(w, r)
  PROVE  MemberInv'
<1>1. ASSUME NEW op \in Ops
      PROVE  [NoJob EXCEPT !.op = op] \in JobSet /\ [NoJob EXCEPT !.op = op].row = 0
  BY TermsOnly DEF NoJob, JobSet, PackageStatus
<1>2. ASSUME NEW op \in Ops, NEW r \in DOMAIN rows
      PROVE  /\ [NoJob EXCEPT !.op = op, !.row = r, !.terms = rows[r].terms] \in JobSet
             /\ [NoJob EXCEPT !.op = op, !.row = r, !.terms = rows[r].terms].row = r
  <2>0. rows[r] \in RowSet
    BY DEF MemberInv, RowsOK
  <2>1. rows[r].terms \in Terms
    BY <2>0 DEF RowSet
  <2> QED
    BY <2>1, RowIsNat DEF NoJob, JobSet, PackageStatus
<1>3. ASSUME NEW r \in DOMAIN rows
      PROVE  /\ [NoJob EXCEPT !.op = "leave", !.row = r, !.was = package] \in JobSet
             /\ [NoJob EXCEPT !.op = "leave", !.row = r, !.was = package].row = r
  BY RowIsNat, TermsOnly DEF NoJob, JobSet, Ops, MemberInv
<1>4. "update" \in Ops /\ "activate" \in Ops /\ "cancel" \in Ops /\ "accept" \in Ops
      /\ "reject" \in Ops /\ "createProviderDiscount" \in Ops
      /\ "createCompanyFundedDiscount" \in Ops
  BY DEF Ops
<1>5. CASE BeginUpdate(w)
  BY <1>1, <1>4, <1>5, BeginKeeps DEF BeginUpdate
<1>6. CASE BeginActivate(w)
  BY <1>1, <1>4, <1>6, BeginKeeps DEF BeginActivate
<1>7. CASE BeginCancel(w)
  BY <1>1, <1>4, <1>7, BeginKeeps DEF BeginCancel, PackageStatus
<1>8. CASE \E op \in {"createProviderDiscount", "createCompanyFundedDiscount"} :
             BeginDiscount(w, op)
  BY <1>1, <1>4, <1>8, BeginKeeps DEF BeginDiscount
<1>9. ASSUME NEW r \in DOMAIN rows, FindInvitation(w, r, "accept") \/ FindInvitation(w, r, "reject")
      PROVE  MemberInv'
  BY <1>2, <1>4, <1>9, SomeRow, BeginKeeps DEF FindInvitation
<1>10. ASSUME NEW r \in DOMAIN rows, FindMembership(w, r)
       PROVE  MemberInv'
  BY <1>3, <1>10, SomeRow, BeginKeeps DEF FindMembership
<1> QED
  BY <1>5, <1>6, <1>7, <1>8, <1>9, <1>10

LEMMA UpdatesKeep ==
  ASSUME MemberInv, NEW w \in Workers,
         \/ CommitUpdate(w)
         \/ \E add, remove \in SUBSET Services, reset \in BOOLEAN :
              CheckUpdate(w, add, remove, reset)
  PROVE  MemberInv'
<1>1. CASE CommitUpdate(w)
  <2>1. job[w] # NoJob
    BY <1>1 DEF CommitUpdate, NoJob
  <2> QED
    BY <1>1, <2>1, CommitUpdateKeeps, Working
       DEF MemberInv, DiscountsOK, NothingYet, CommitUpdate, others
<1>2. ASSUME NEW add \in SUBSET Services, NEW remove \in SUBSET Services, NEW reset \in BOOLEAN,
             CheckUpdate(w, add, remove, reset)
      PROVE  MemberInv'
  <2>1. job[w] # NoJob
    <3>1. job[w].op = "update" /\ NoJob.op = "idle"
      BY <1>2 DEF CheckUpdate, NoJob
    <3> QED
      BY <3>1
  <2>2. PICK j : j = [NoJob EXCEPT !.op = "updateChecked", !.add = add,
                                    !.remove = remove, !.reset = reset]
    OBVIOUS
  <2>3. j \in JobSet /\ j.row = 0
    BY <2>2, TermsOnly DEF NoJob, JobSet, Ops, PackageStatus
  <2>4. job' = [job EXCEPT ![w] = j] /\ UNCHANGED <<package, rows, others, begun>>
    BY <1>2, <2>2 DEF CheckUpdate
  <2>5. RowsOK' /\ DOMAIN rows' = DOMAIN rows
    BY <2>4, RowsKept DEF MemberInv, RowsOK, others
  <2>6. JobsOK'
    BY <2>3, <2>4, <2>5, JobMoves DEF MemberInv
  <2> QED
    BY <2>1, <2>4, <2>5, <2>6, Working DEF MemberInv, DiscountsOK, NothingYet, others
<1> QED
  BY <1>1, <1>2

LEMMA MovesKeep ==
  ASSUME MemberInv, NEW w \in Workers,
         \/ CountBeforeActivation(w) \/ ActivatePackage(w) \/ CountAfterLeaving(w)
         \/ BackToDraft(w) \/ Abandon(w)
  PROVE  MemberInv'
<1>0. NoJob.op = "idle"
  BY DEF NoJob
<1>1. job[w] # NoJob
  BY <1>0 DEF CountBeforeActivation, ActivatePackage, CountAfterLeaving, BackToDraft, Abandon
<1>2. "activateCounted" \in Ops /\ "suspendDiscounts" \in Ops /\ "backToDraft" \in Ops
  BY DEF Ops
<1>3. Done(w) \/ \E op \in Ops : Goto(w, op)
  BY <1>2 DEF CountBeforeActivation, ActivatePackage, CountAfterLeaving, BackToDraft, Abandon
<1>4. package' \in PackageStatus \union {package} /\ UNCHANGED <<rows, others>>
  BY DEF CountBeforeActivation, ActivatePackage, CountAfterLeaving, BackToDraft, Abandon,
         PackageStatus
<1> QED
  BY <1>1, <1>3, <1>4, MoveKeeps

LEMMA RefusalsKeep ==
  ASSUME MemberInv, NEW w \in Workers,
         RejectJoinRequest(w) \/ LeavePackage(w) \/ CancelOwnedPackage(w)
  PROVE  MemberInv'
<1>1. job[w] # NoJob
  BY DEF RejectJoinRequest, LeavePackage, CancelOwnedPackage, NoJob
<1>2. "left" \in Ops
  BY DEF Ops
<1>3. Done(w) \/ \E op \in Ops : Goto(w, op)
  BY <1>2 DEF RejectJoinRequest, LeavePackage, CancelOwnedPackage
<1>4. \E S \in SUBSET Here : rows' = Set(S, "REJECTED")
  BY DEF RejectJoinRequest, LeavePackage, CancelOwnedPackage, Active, Invitations
<1>5. package' \in PackageStatus \union {package} /\ UNCHANGED others
  BY DEF RejectJoinRequest, LeavePackage, CancelOwnedPackage, PackageStatus
<1> QED
  BY <1>1, <1>3, <1>4, <1>5, RefusalKeeps

(* The one step that makes a partner's row ACTIVE notes the acceptance. *)
LEMMA AcceptKeeps ==
  ASSUME MemberInv, NEW w \in Workers, AcceptJoinRequest(w)
  PROVE  MemberInv'
<1>1. job[w] # NoJob
  BY DEF AcceptJoinRequest, NoJob
<1>2. PICK r \in FoundRow(w) :
        rows' = [rows EXCEPT ![r].status = "ACTIVE", ![r].agreed = job[w].terms]
  BY DEF AcceptJoinRequest, FoundRow
<1>3. r = job[w].row /\ r \in Here /\ r \in DOMAIN rows /\ rows[r].status # "GONE"
  BY DEF FoundRow, Here
<1>4. rows \in [DOMAIN rows -> RowSet] /\ rows[r] \in RowSet
  BY <1>3 DEF MemberInv, RowsOK
<1>5. PICK k : k = [rows[r] EXCEPT !.status = "ACTIVE", !.agreed = job[w].terms]
  OBVIOUS
<1>6. k \in RowSet /\ k.service = rows[r].service /\ k.agreed # 0
  <2>1. job[w].terms \in Nat /\ job[w].terms # 0
    BY TermsOnly DEF MemberInv, JobsOK, JobSet
  <2> QED
    BY <1>4, <1>5, <2>1 DEF RowSet, MemberStatus
<1>7. rows' = [rows EXCEPT ![r] = k]
  BY <1>2, <1>3, <1>4, <1>5 DEF RowSet
<1>8. \A t \in DOMAIN rows : rows'[t] = IF t = r THEN k ELSE rows[t]
  BY <1>7
<1>9. rows' \in [DOMAIN rows -> RowSet]
  BY <1>4, <1>6, <1>7
<1>10. /\ \A t \in DOMAIN rows : rows[t].status # "GONE" => rows[t].service \notin deleted
       /\ \A t \in DOMAIN rows : rows[t].status = "ACTIVE" /\ rows[t].service \notin Own =>
            rows[t].agreed # 0
  BY DEF MemberInv, RowsOK, Members, Here, Accepted, Active
<1>11. UNCHANGED <<deleted, stale, package, discounts>>
  BY DEF AcceptJoinRequest, others
<1>12. RowsOK' /\ DOMAIN rows' = DOMAIN rows
  BY <1>3, <1>6, <1>8, <1>9, <1>10, <1>11, RowsWritten DEF MemberInv, RowsOK
<1>13. JobsOK'
  BY <1>12, JobDone DEF MemberInv, AcceptJoinRequest
<1> QED
  BY <1>1, <1>11, <1>12, <1>13, Working DEF MemberInv, DiscountsOK, NothingYet

-----------------------------------------------------------------------------
(* What happens without a worker. *)
LEMMA DeletionKeeps ==
  ASSUME MemberInv, NEW v \in Deletable, DeleteService(v)
  PROVE  MemberInv'
<1>1. v \in Services /\ deleted' = deleted \union {v} /\ UNCHANGED <<package, discounts, stale, job>>
  BY MembershipAssumption DEF DeleteService
<1>2. rows \in [DOMAIN rows -> RowSet]
  BY DEF MemberInv, RowsOK
<1>3. \A r \in DOMAIN rows : rows'[r] = IF r \in RowsOf({v}) THEN Gone(rows[r]) ELSE rows[r]
  BY DEF DeleteService
<1>4. \A r \in DOMAIN rows : /\ Gone(rows[r]) \in RowSet /\ Gone(rows[r]).service = rows[r].service
                            /\ Gone(rows[r]).status = "GONE"
  BY <1>2 DEF Gone, RowSet, MemberStatus
<1>5. /\ \A r \in DOMAIN rows : rows[r].status # "GONE" => rows[r].service \notin deleted
      /\ \A r \in DOMAIN rows : rows[r].status = "ACTIVE" /\ rows[r].service \notin Own =>
           rows[r].agreed # 0
  BY DEF MemberInv, RowsOK, Members, Here, Accepted, Active
<1>6. \A r \in DOMAIN rows : rows[r].status # "GONE" /\ r \notin RowsOf({v}) => rows[r].service # v
  BY DEF RowsOf, Here
<1>7. rows' \in [DOMAIN rows -> RowSet]
  BY <1>2, <1>4 DEF DeleteService
<1>8. \A r \in DOMAIN rows :
        /\ rows'[r].service = rows[r].service
        /\ rows'[r].status # "GONE" => rows[r].status # "GONE" /\ rows[r].service \notin deleted'
        /\ rows'[r].status = "ACTIVE" /\ rows[r].service \notin Own => rows'[r].agreed # 0
  BY <1>1, <1>3, <1>4, <1>5, <1>6
<1>9. deleted' \subseteq Services /\ stale' \subseteq DOMAIN rows
  BY <1>1 DEF MemberInv, RowsOK
<1>10. RowsOK' /\ DOMAIN rows' = DOMAIN rows
  BY <1>7, <1>8, <1>9, RowsWritten DEF MemberInv
<1>11. rows = <<>> => rows' = <<>>
  BY DEF DeleteService
<1> QED
  BY <1>1, <1>10, <1>11, JobsStay DEF MemberInv, DiscountsOK, NothingYet

LEMMA AgeKeeps ==
  ASSUME MemberInv, NEW r \in DOMAIN rows, Ages(r)
  PROVE  MemberInv'
<1>1. UNCHANGED <<package, deleted, discounts, stale, job>>
  BY DEF Ages, others
<1>2. rows \in [DOMAIN rows -> RowSet] /\ rows[r] \in RowSet
  BY DEF MemberInv, RowsOK
<1>3. PICK k : k = [rows[r] EXCEPT !.old = TRUE]
  OBVIOUS
<1>4. /\ k \in RowSet /\ k.service = rows[r].service /\ k.status = rows[r].status
      /\ k.agreed = rows[r].agreed
  BY <1>2, <1>3 DEF RowSet
<1>5. rows' = [rows EXCEPT ![r] = k]
  BY <1>3 DEF Ages
<1>6. \A t \in DOMAIN rows : rows'[t] = IF t = r THEN k ELSE rows[t]
  BY <1>5
<1>7. rows' \in [DOMAIN rows -> RowSet]
  BY <1>2, <1>4, <1>5
<1>8. /\ \A t \in DOMAIN rows : rows[t].status # "GONE" => rows[t].service \notin deleted
      /\ \A t \in DOMAIN rows : rows[t].status = "ACTIVE" /\ rows[t].service \notin Own =>
           rows[t].agreed # 0
  BY DEF MemberInv, RowsOK, Members, Here, Accepted, Active
<1>9. RowsOK' /\ DOMAIN rows' = DOMAIN rows
  BY <1>1, <1>4, <1>6, <1>7, <1>8, RowsWritten DEF MemberInv, RowsOK
<1> QED
  BY <1>1, <1>9, JobsStay, SomeRow DEF MemberInv, DiscountsOK, NothingYet

LEMMA ExpiryKeeps ==
  ASSUME MemberInv,
         ExpirePendingJoinRequests \/ \E r \in DOMAIN rows : ExpireInvitation(r)
  PROVE  MemberInv'
<1>1. CASE ExpirePendingJoinRequests
  <2>1. UNCHANGED <<package, rows, deleted, discounts, job>> /\ stale' \subseteq DOMAIN rows
    BY <1>1 DEF ExpirePendingJoinRequests, Expired, Invitations, Here
  <2>2. RowsOK' /\ DOMAIN rows' = DOMAIN rows
    BY <2>1, RowsKept DEF MemberInv
  <2> QED
    BY <2>1, <2>2, JobsStay DEF MemberInv, DiscountsOK, NothingYet
<1>2. ASSUME NEW r \in DOMAIN rows, ExpireInvitation(r)
      PROVE  MemberInv'
  <2>1. UNCHANGED <<package, deleted, discounts, job>>
    BY <1>2 DEF ExpireInvitation
  <2>2. stale' \subseteq DOMAIN rows
    BY <1>2 DEF ExpireInvitation, MemberInv, RowsOK
  <2>3. CASE r \in Here
    <3>1. rows' = Set({r} \intersect Here, "REJECTED")
      <4>1. {r} \intersect Here = {r}
        BY <2>3
      <4> QED
        BY <1>2, <2>3, <4>1 DEF ExpireInvitation
    <3>2. RowsOK' /\ DOMAIN rows' = DOMAIN rows
      BY <2>1, <2>2, <3>1, SetKeeps DEF MemberInv
    <3> QED
      BY <2>1, <3>2, JobsStay, SomeRow DEF MemberInv, DiscountsOK, NothingYet
  <2>4. CASE r \notin Here
    <3>1. UNCHANGED rows
      BY <1>2, <2>4 DEF ExpireInvitation
    <3>2. RowsOK' /\ DOMAIN rows' = DOMAIN rows
      BY <2>1, <2>2, <3>1, RowsKept DEF MemberInv
    <3> QED
      BY <2>1, <3>1, <3>2, JobsStay DEF MemberInv, DiscountsOK, NothingYet
  <2> QED
    BY <2>3, <2>4
<1> QED
  BY <1>1, <1>2

LEMMA DiscountsKeep ==
  ASSUME MemberInv,
         \/ \E w \in Workers : SuspendDiscounts(w)
         \/ \E w \in Workers, d \in Discounts :
              CreateProviderDiscount(w, d) \/ CreateCompanyFundedDiscount(w, d)
         \/ \E d \in Discounts : Reconfirm(d) \/ CancelDiscount(d)
  PROVE  MemberInv'
<1> DEFINE One == [status : {"NONE", "ACTIVE", "CANCELLED"}, needsReconfirmation : BOOLEAN]
<1>0. NoJob.op = "idle"
  BY DEF NoJob
<1>1. \A o \in One : /\ [o EXCEPT !.needsReconfirmation = TRUE] \in One
                    /\ [o EXCEPT !.needsReconfirmation = FALSE] \in One
                    /\ [o EXCEPT !.status = "ACTIVE"] \in One
                    /\ [o EXCEPT !.status = "CANCELLED"] \in One
  OBVIOUS
<1>2. discounts \in [Discounts -> One]
  BY DEF MemberInv, DiscountsOK
<1> HIDE DEF One
<1>3. discounts' \in [Discounts -> One]
  <2>1. ASSUME NEW w \in Workers, SuspendDiscounts(w)
        PROVE  discounts' \in [Discounts -> One]
    BY <1>1, <1>2, <2>1 DEF SuspendDiscounts
  <2>2. ASSUME NEW d \in Discounts, NEW k \in One, discounts' = [discounts EXCEPT ![d] = k]
        PROVE  discounts' \in [Discounts -> One]
    BY <1>2, <2>2
  <2>3. ASSUME NEW w \in Workers, NEW d \in Discounts, Created(w, d)
        PROVE  discounts' \in [Discounts -> One]
    <3>1. discounts' = [discounts EXCEPT ![d] = [discounts[d] EXCEPT !.status = "ACTIVE"]]
      BY <2>3 DEF Created
    <3> QED
      BY <1>1, <1>2, <2>2, <3>1
  <2>4. ASSUME NEW d \in Discounts, Reconfirm(d) PROVE discounts' \in [Discounts -> One]
    <3>1. discounts' = [discounts EXCEPT ![d] = [discounts[d] EXCEPT !.needsReconfirmation = FALSE]]
      BY <2>4 DEF Reconfirm
    <3> QED
      BY <1>1, <1>2, <2>2, <3>1
  <2>5. ASSUME NEW d \in Discounts, CancelDiscount(d) PROVE discounts' \in [Discounts -> One]
    <3>1. discounts' = [discounts EXCEPT ![d] = [discounts[d] EXCEPT !.status = "CANCELLED"]]
      BY <2>5 DEF CancelDiscount
    <3> QED
      BY <1>1, <1>2, <2>2, <3>1
  <2> QED
    BY <2>1, <2>3, <2>4, <2>5 DEF CreateProviderDiscount, CreateCompanyFundedDiscount
<1>4. UNCHANGED <<package, rows, deleted, stale>>
  BY DEF SuspendDiscounts, CreateProviderDiscount, CreateCompanyFundedDiscount, Created,
         Reconfirm, CancelDiscount
<1>5. RowsOK' /\ DOMAIN rows' = DOMAIN rows
  BY <1>4, RowsKept DEF MemberInv, RowsOK
<1>6. UNCHANGED job \/ \E w \in Workers : Done(w) /\ job[w] # NoJob
  BY <1>0 DEF SuspendDiscounts, CreateProviderDiscount, CreateCompanyFundedDiscount, Created,
              Reconfirm, CancelDiscount
<1>7. JobsOK'
  BY <1>5, <1>6, JobsStay, JobDone DEF MemberInv
<1>8. NothingYet'
  BY <1>4, <1>6, Working DEF MemberInv, NothingYet
<1> QED
  BY <1>3, <1>4, <1>5, <1>7, <1>8 DEF MemberInv, DiscountsOK, One

-----------------------------------------------------------------------------
LEMMA NextKeeps == MemberInv /\ [MembershipNext]_membershipVars => MemberInv'
<1> SUFFICES ASSUME MemberInv, [MembershipNext]_membershipVars PROVE MemberInv'
  OBVIOUS
<1>1. CASE UNCHANGED membershipVars
  <2>1. UNCHANGED <<package, rows, deleted, discounts, stale, job>>
    BY <1>1 DEF membershipVars
  <2>2. RowsOK' /\ DOMAIN rows' = DOMAIN rows
    BY <2>1, RowsKept DEF MemberInv, RowsOK
  <2> QED
    BY <2>1, <2>2, JobsStay DEF MemberInv, DiscountsOK, NothingYet
<1>2. CASE MembershipNext
  BY <1>2, CreatePackageKeeps, BeginningsKeep, UpdatesKeep, MovesKeep, RefusalsKeep, AcceptKeeps,
     DeletionKeeps, AgeKeeps, ExpiryKeeps, DiscountsKeep DEF MembershipNext
<1> QED
  BY <1>1, <1>2

LEMMA InvHolds == MembershipSpec => []MemberInv
<1>1. MembershipInit => MemberInv
  BY InitInv
<1>2. MemberInv /\ [MembershipNext]_membershipVars => MemberInv'
  BY NextKeeps
<1> QED
  BY <1>1, <1>2, PTL DEF MembershipSpec

(* The rows of a package keep their shape and the unique key of their table *)
(* through any crossing of updates, answers, expiries and deletions.        *)
THEOREM MembershipTypes == MembershipSpec => []MembershipTypeOK
<1>1. MemberInv => MembershipTypeOK
  BY DEF MemberInv, RowsOK, JobsOK, DiscountsOK, MembershipTypeOK, RowSet, Terms
<1> QED
  BY <1>1, InvHolds, PTL

-----------------------------------------------------------------------------
(* What requests that cross remember.  The hall of the owner is never an      *)
(* invitation, so no partner's request and no expiry finds it; an update that *)
(* removes services was refused when it found a hall among them, and what it  *)
(* removes is remembered as services, which a row never changes.  And the     *)
(* terms a partner answers are those that stand or earlier ones, since a row  *)
(* is only ever asked again.                                                  *)
Answers == {"accept", "reject", "leave"}

Remembers(j) ==
  /\ j.remove \intersect Halls = {} /\ j.terms \in Nat
  /\ j.op \in Answers =>
       j.row \in DOMAIN rows /\ rows[j.row].service \notin Own /\ j.terms <= rows[j.row].terms

OnlyPartnersInvited ==
  \A r \in DOMAIN rows :
    rows[r].status = "PENDING_PROVIDER_APPROVAL" => rows[r].service \notin Own

AgreedToTerms == \A r \in DOMAIN rows : rows[r].agreed <= rows[r].terms

RequestsInv ==
  /\ OnlyPartnersInvited
  /\ AgreedToTerms
  /\ \A w \in Workers : Remembers(job[w])
  /\ \A r \in stale : rows[r].service \notin Own

HallStays(r) ==
  rows[r].status = "ACTIVE" /\ rows[r].service \in Halls =>
    rows'[r].status = "ACTIVE" \/ package' = "CANCELLED" \/ rows[r].service \in deleted'

(* What a step does to the rows. *)
RowsGoOn ==
  /\ \A r \in DOMAIN rows :
       /\ r \in DOMAIN rows' /\ rows'[r].service = rows[r].service /\ HallStays(r)
       /\ rows[r].terms <= rows'[r].terms
  /\ OnlyPartnersInvited' /\ AgreedToTerms'

LEMMA HallsAreOwn == Halls \subseteq Own
BY MembershipAssumption

LEMMA TermsAreNumbers ==
  ASSUME MemberInv, NEW r \in DOMAIN rows
  PROVE  rows[r].terms \in Nat /\ rows[r].agreed \in Nat /\ rows[r].terms # 0
<1>1. rows[r] \in RowSet
  BY DEF MemberInv, RowsOK
<1> QED
  BY <1>1, TermsOnly DEF RowSet

LEMMA SameRowsGoOn ==
  ASSUME MemberInv, RequestsInv, rows' = rows
  PROVE  RowsGoOn
<1>1. \A r \in DOMAIN rows : rows[r].terms <= rows[r].terms
  BY TermsAreNumbers
<1> QED
  BY <1>1 DEF RequestsInv, RowsGoOn, HallStays, OnlyPartnersInvited, AgreedToTerms

(* A write to the rows there are. *)
LEMMA WrittenRowsGoOn ==
  ASSUME RequestsInv, DOMAIN rows' = DOMAIN rows,
         \A r \in DOMAIN rows :
           /\ rows'[r].service = rows[r].service /\ HallStays(r)
           /\ rows'[r].status \in {rows[r].status, "ACTIVE", "REJECTED", "GONE"}
           /\ rows[r].terms <= rows'[r].terms /\ rows'[r].agreed <= rows'[r].terms
  PROVE  RowsGoOn
BY DEF RequestsInv, RowsGoOn, OnlyPartnersInvited, AgreedToTerms

LEMMA RefusedRow ==
  ASSUME MemberInv, RequestsInv, NEW S \in SUBSET Here, rows' = Set(S, "REJECTED"),
         (\A r \in S : rows[r].service \notin Own) \/ package' = "CANCELLED"
  PROVE  RowsGoOn
<1>1. \A r \in DOMAIN rows : rows[r] \in RowSet
  BY DEF MemberInv, RowsOK
<1>2. DOMAIN rows' = DOMAIN rows
  BY DEF Set
<1>3. ASSUME NEW r \in DOMAIN rows
      PROVE  /\ rows'[r].service = rows[r].service
             /\ rows'[r].status = IF r \in S THEN "REJECTED" ELSE rows[r].status
             /\ rows'[r].terms = rows[r].terms /\ rows'[r].agreed = rows[r].agreed
  <2>1. rows'[r] = IF r \in S THEN [rows[r] EXCEPT !.status = "REJECTED"] ELSE rows[r]
    BY DEF Set
  <2> QED
    BY <1>1, <2>1 DEF RowSet
<1>4. ASSUME NEW r \in DOMAIN rows
      PROVE  HallStays(r)
    BY <1>3, HallsAreOwn DEF HallStays
<1>5. \A r \in DOMAIN rows :
        rows[r].terms <= rows'[r].terms /\ rows'[r].agreed <= rows'[r].terms
  BY <1>3, TermsAreNumbers DEF RequestsInv, AgreedToTerms
<1> QED
  BY <1>2, <1>3, <1>4, <1>5, WrittenRowsGoOn

LEMMA AnswersGoOn ==
  ASSUME MemberInv, RequestsInv, NEW w \in Workers,
         \/ AcceptJoinRequest(w) \/ RejectJoinRequest(w) \/ LeavePackage(w)
         \/ CancelOwnedPackage(w)
  PROVE  RowsGoOn
<1>1. \A r \in DOMAIN rows : rows[r] \in RowSet
  BY DEF MemberInv, RowsOK
<1>2. CASE AcceptJoinRequest(w)
  <2>1. PICK r \in FoundRow(w) :
          rows' = [rows EXCEPT ![r].status = "ACTIVE", ![r].agreed = job[w].terms]
    BY <1>2 DEF AcceptJoinRequest, FoundRow
  <2>2. r \in DOMAIN rows /\ rows[r].service \notin Own
    BY <1>2 DEF FoundRow, AcceptJoinRequest, RequestsInv, Remembers, Answers
  <2>3. rows' = [rows EXCEPT ![r] = [rows[r] EXCEPT !.status = "ACTIVE", !.agreed = job[w].terms]]
    BY <2>1, <2>2
  <2>4. DOMAIN rows' = DOMAIN rows
    BY <2>3
  <2>5. /\ rows'[r].service = rows[r].service /\ rows'[r].status = "ACTIVE"
        /\ rows'[r].terms = rows[r].terms /\ rows'[r].agreed = job[w].terms
    BY <1>1, <2>2, <2>3 DEF RowSet
  <2>8. r = job[w].row /\ job[w].terms <= rows[r].terms
    BY <1>2 DEF FoundRow, AcceptJoinRequest, RequestsInv, Remembers, Answers
  <2>9. \A t \in DOMAIN rows : rows[t].terms <= rows[t].terms /\ rows[t].agreed <= rows[t].terms
    BY TermsAreNumbers DEF RequestsInv, AgreedToTerms
  <2>6. \A t \in DOMAIN rows : t # r => rows'[t] = rows[t]
    BY <2>3
  <2>7. \A t \in DOMAIN rows : HallStays(t)
    BY <2>5, <2>6 DEF HallStays
  <2> QED
    BY <2>2, <2>4, <2>5, <2>6, <2>7, <2>8, <2>9, WrittenRowsGoOn
<1>3. CASE RejectJoinRequest(w) \/ LeavePackage(w)
  <2>1. rows' = Set({job[w].row}, "REJECTED") /\ {job[w].row} \in SUBSET Here
    BY <1>3 DEF RejectJoinRequest, LeavePackage
  <2>2. rows[job[w].row].service \notin Own
    BY <1>3 DEF RejectJoinRequest, LeavePackage, RequestsInv, Remembers, Answers
  <2> QED
    BY <2>1, <2>2, RefusedRow
<1>4. CASE CancelOwnedPackage(w)
  <2>1. rows' = Set(Active \union Invitations, "REJECTED") /\ package' = "CANCELLED"
    BY <1>4 DEF CancelOwnedPackage
  <2>2. Active \union Invitations \in SUBSET Here
    BY DEF Active, Invitations
  <2> QED
    BY <2>1, <2>2, RefusedRow
<1> QED
  BY <1>2, <1>3, <1>4

LEMMA TimeGoesOn ==
  ASSUME MemberInv, RequestsInv,
         \/ \E v \in Deletable : DeleteService(v)
         \/ \E r \in DOMAIN rows : Ages(r) \/ ExpireInvitation(r)
  PROVE  RowsGoOn
<1>1. \A r \in DOMAIN rows : rows[r] \in RowSet
  BY DEF MemberInv, RowsOK
<1>2. ASSUME NEW v \in Deletable, DeleteService(v)
      PROVE  RowsGoOn
  <2>1. DOMAIN rows' = DOMAIN rows /\ v \in deleted'
    BY <1>2 DEF DeleteService
  <2>2. ASSUME NEW r \in DOMAIN rows
        PROVE  /\ rows'[r].service = rows[r].service
               /\ rows'[r].status \in {rows[r].status, "GONE"}
               /\ rows'[r].status # rows[r].status => rows[r].service = v
               /\ rows[r].terms <= rows'[r].terms /\ rows'[r].agreed <= rows'[r].terms
    <3>1. rows'[r] = IF r \in RowsOf({v}) THEN Gone(rows[r]) ELSE rows[r]
      BY <1>2 DEF DeleteService
    <3>2. rows[r].terms \in Nat /\ rows[r].agreed <= rows[r].terms
      BY TermsAreNumbers DEF RequestsInv, AgreedToTerms
    <3> QED
      BY <1>1, <3>1, <3>2, GoneRow DEF RowsOf
  <2>3. \A r \in DOMAIN rows : HallStays(r)
    BY <2>1, <2>2 DEF HallStays
  <2> QED
    BY <2>1, <2>2, <2>3, WrittenRowsGoOn
<1>3. ASSUME NEW r \in DOMAIN rows, Ages(r)
      PROVE  RowsGoOn
  <2>1. rows' = [rows EXCEPT ![r] = [rows[r] EXCEPT !.old = TRUE]]
    BY <1>3 DEF Ages
  <2>2. /\ rows'[r].service = rows[r].service /\ rows'[r].status = rows[r].status
        /\ rows'[r].terms = rows[r].terms /\ rows'[r].agreed = rows[r].agreed
    BY <1>1, <2>1 DEF RowSet
  <2>3. DOMAIN rows' = DOMAIN rows /\ \A t \in DOMAIN rows : t # r => rows'[t] = rows[t]
    BY <2>1
  <2>4. \A t \in DOMAIN rows : HallStays(t)
    BY <2>2, <2>3 DEF HallStays
  <2>5. \A t \in DOMAIN rows : rows[t].terms <= rows[t].terms /\ rows[t].agreed <= rows[t].terms
    BY TermsAreNumbers DEF RequestsInv, AgreedToTerms
  <2> QED
    BY <2>2, <2>3, <2>4, <2>5, WrittenRowsGoOn
<1>4. ASSUME NEW r \in DOMAIN rows, ExpireInvitation(r)
      PROVE  RowsGoOn
  <2>1. CASE r \in Here
    <3>1. rows' = Set({r}, "REJECTED") /\ {r} \in SUBSET Here
      BY <1>4, <2>1 DEF ExpireInvitation
    <3>2. rows[r].service \notin Own
      BY <1>4 DEF ExpireInvitation, RequestsInv
    <3> QED
      BY <3>1, <3>2, RefusedRow
  <2>2. CASE r \notin Here
    BY <1>4, <2>2, SameRowsGoOn DEF ExpireInvitation
  <2> QED
    BY <2>1, <2>2
<1> QED
  BY <1>2, <1>3, <1>4

(* Rows put behind those there are. *)
LEMMA PutBehind ==
  ASSUME rows \in Seq(RowSet), NEW mid \in [DOMAIN rows -> RowSet], NEW new \in Seq(RowSet),
         rows' = mid \o new
  PROVE  /\ \A r \in DOMAIN rows : r \in DOMAIN rows' /\ rows'[r] = mid[r]
         /\ \A r \in DOMAIN rows' : r \notin DOMAIN rows =>
              \E i \in DOMAIN new : rows'[r] = new[i]
<1>1. mid \in Seq(RowSet) /\ DOMAIN mid = DOMAIN rows /\ DOMAIN mid = 1 .. Len(mid)
      /\ DOMAIN new = 1 .. Len(new) /\ Len(mid) \in Nat /\ Len(new) \in Nat
  BY LenProperties
<1>2. /\ mid \o new \in Seq(RowSet) /\ Len(mid \o new) = Len(mid) + Len(new)
      /\ \A r \in 1 .. (Len(mid) + Len(new)) :
           (mid \o new)[r] = IF r <= Len(mid) THEN mid[r] ELSE new[r - Len(mid)]
  BY <1>1, ConcatProperties, Zenon
<1>3. PICK both \in Seq(RowSet) : both = mid \o new
  BY <1>2
<1>4. PICK n \in Nat, m \in Nat : n = Len(mid) /\ m = Len(new)
  BY <1>1
<1>5. /\ DOMAIN both = 1 .. (n + m)
      /\ \A r \in 1 .. (n + m) : both[r] = IF r <= n THEN mid[r] ELSE new[r - n]
  <2>1. Len(both) = n + m
    BY <1>2, <1>3, <1>4
  <2>2. DOMAIN both = 1 .. (n + m)
    BY <1>3, <2>1
  <2> QED
    BY <1>2, <1>3, <1>4, <2>2, Zenon
<1>6. \A r \in 1 .. n : r \in 1 .. (n + m) /\ r <= n
  BY <1>4
<1>7. \A r \in 1 .. (n + m) : r \notin 1 .. n => ~(r <= n) /\ r - n \in 1 .. m
  BY <1>4
<1>8. \A r \in DOMAIN rows : r \in DOMAIN both /\ both[r] = mid[r]
  BY <1>1, <1>4, <1>5, <1>6, Zenon
<1>9. \A r \in DOMAIN both : r \notin DOMAIN rows => \E i \in DOMAIN new : both[r] = new[i]
  BY <1>1, <1>4, <1>5, <1>7, Zenon
<1> QED
  BY <1>3, <1>8, <1>9, Zenon

LEMMA NewAreAsked ==
  ASSUME NEW S \in SUBSET Services, NEW new,
         new = [i \in 1 .. Cardinality(S) |-> NewRow(SetToSeq(S)[i])]
  PROVE  /\ new \in Seq(RowSet)
         /\ \A i \in DOMAIN new :
              /\ new[i].status = "PENDING_PROVIDER_APPROVAL" => new[i].service \notin Own
              /\ new[i].agreed <= new[i].terms
<1>1. ASSUME NEW i \in 1 .. Cardinality(S)
      PROVE  /\ new[i] \in RowSet
             /\ new[i].status = "PENDING_PROVIDER_APPROVAL" => new[i].service \notin Own
             /\ new[i].agreed <= new[i].terms
  <2>1. PICK v \in Services : new[i] = NewRow(v)
    BY Listed
  <2> QED
    BY <2>1, NewRows DEF NewRow
<1>2. new \in [1 .. Cardinality(S) -> RowSet] /\ DOMAIN new = 1 .. Cardinality(S)
  BY <1>1
<1>3. new \in Seq(RowSet)
  BY <1>2, Listed
<1> QED
  BY <1>1, <1>2, <1>3

LEMMA CreationGoesOn ==
  ASSUME MemberInv, RequestsInv, NEW S \in SUBSET Services, CreatePackage(S)
  PROVE  RowsGoOn
<1>1. DOMAIN rows = {}
  BY DEF MemberInv, NothingYet, CreatePackage
<1>2. rows' = [i \in 1 .. Cardinality(S) |-> NewRow(SetToSeq(S)[i])]
  BY DEF CreatePackage
<1> QED
  BY <1>1, <1>2, NewAreAsked DEF RowsGoOn, OnlyPartnersInvited, AgreedToTerms

(* What an update removes is no hall; whom it asks again is no owner. *)
LEMMA UpdateGoesOn ==
  ASSUME MemberInv, RequestsInv, NEW w \in Workers, CommitUpdate(w)
  PROVE  RowsGoOn
<1> DEFINE j == job[w]
<1>1. j.remove \intersect Halls = {} /\ j.add \in SUBSET Services
  BY DEF RequestsInv, Remembers, MemberInv, JobsOK, JobSet
<1>2. rows \in Seq(RowSet) /\ \A r \in DOMAIN rows : rows[r] \in RowSet
  BY DEF MemberInv, RowsOK
<1>3. PICK mid : mid = AfterRemoval(j, Partners)
  OBVIOUS
<1>4. mid = [r \in DOMAIN rows |->
               CASE r \in RowsOf(j.remove) -> Gone(rows[r])
                 [] r \in RowsOf(Partners \ j.remove) /\ j.reset ->
                      [rows[r] EXCEPT !.status = "PENDING_PROVIDER_APPROVAL", !.terms = @ + 1, !.agreed = 0]
                 [] OTHER -> rows[r]]
  BY <1>3 DEF AfterRemoval
<1>5. RowsOf(j.remove) \intersect RowsOf(Partners \ j.remove) = {}
  BY DEF RowsOf
<1>6. ASSUME NEW r \in DOMAIN rows
      PROVE  /\ mid[r] \in RowSet /\ mid[r].service = rows[r].service
             /\ mid[r].status = "PENDING_PROVIDER_APPROVAL" => rows[r].service \notin Own
             /\ rows[r].service \in Halls => mid[r].status = rows[r].status
             /\ rows[r].terms <= mid[r].terms /\ mid[r].agreed <= mid[r].terms
  <2>1. rows[r] \in RowSet
    BY <1>2
  <2>5. rows[r].terms \in Nat /\ rows[r].agreed <= rows[r].terms
    BY TermsAreNumbers DEF RequestsInv, AgreedToTerms
  <2>2. CASE r \in RowsOf(j.remove)
    <3>1. mid[r] = Gone(rows[r])
      BY <1>4, <1>5, <2>2
    <3>2. rows[r].service \notin Halls
      BY <1>1, <2>2 DEF RowsOf
    <3> QED
      BY <2>1, <2>5, <3>1, <3>2, GoneRow
  <2>3. CASE r \notin RowsOf(j.remove) /\ r \in RowsOf(Partners \ j.remove) /\ j.reset
    <3>1. mid[r] = [rows[r] EXCEPT !.status = "PENDING_PROVIDER_APPROVAL", !.terms = @ + 1, !.agreed = 0]
      BY <1>4, <2>3
    <3>2. rows[r].service \notin Own
      BY <2>3 DEF RowsOf, Partners
    <3>3. /\ mid[r] \in RowSet /\ mid[r].service = rows[r].service
          /\ mid[r].status = "PENDING_PROVIDER_APPROVAL"
          /\ mid[r].terms = rows[r].terms + 1 /\ mid[r].agreed = 0
      BY <2>1, <3>1, AskedAgain
    <3> QED
      BY <2>5, <3>2, <3>3, HallsAreOwn
  <2>4. CASE r \notin RowsOf(j.remove) /\ ~(r \in RowsOf(Partners \ j.remove) /\ j.reset)
    <3>1. mid[r] = rows[r]
      BY <1>4, <2>4
    <3> QED
      BY <2>1, <2>5, <3>1 DEF RequestsInv, OnlyPartnersInvited
  <2> QED
    BY <2>2, <2>3, <2>4
<1>7. mid \in [DOMAIN rows -> RowSet]
  BY <1>4, <1>6
<1>8. PICK new : /\ new = [i \in 1 .. Cardinality(j.add) |-> NewRow(SetToSeq(j.add)[i])]
                 /\ new \in Seq(RowSet)
                 /\ \A i \in DOMAIN new :
                      /\ new[i].status = "PENDING_PROVIDER_APPROVAL" => new[i].service \notin Own
                      /\ new[i].agreed <= new[i].terms
  BY <1>1, NewAreAsked
<1>9. rows' = mid \o new
  BY <1>3, <1>8 DEF CommitUpdate
<1>10. /\ \A r \in DOMAIN rows : r \in DOMAIN rows' /\ rows'[r] = mid[r]
       /\ \A r \in DOMAIN rows' : r \notin DOMAIN rows => \E i \in DOMAIN new : rows'[r] = new[i]
  BY <1>2, <1>7, <1>8, <1>9, PutBehind
<1>11. \A r \in DOMAIN rows : HallStays(r)
  BY <1>6, <1>10 DEF HallStays
<1>12. OnlyPartnersInvited' /\ AgreedToTerms'
  BY <1>6, <1>8, <1>10 DEF OnlyPartnersInvited, AgreedToTerms
<1> QED
  BY <1>6, <1>10, <1>11, <1>12 DEF RowsGoOn

LEMMA StepsGoOn ==
  ASSUME MemberInv, RequestsInv, [MembershipNext]_membershipVars
  PROVE  RowsGoOn
<1>1. CASE rows' = rows
  BY <1>1, SameRowsGoOn
<1>2. CASE rows' # rows
  <2>1. CASE \E S \in SUBSET Services : CreatePackage(S)
    BY <2>1, CreationGoesOn
  <2>2. CASE \E w \in Workers : CommitUpdate(w)
    BY <2>2, UpdateGoesOn
  <2>3. CASE \E w \in Workers : \/ AcceptJoinRequest(w) \/ RejectJoinRequest(w)
                               \/ LeavePackage(w) \/ CancelOwnedPackage(w)
    BY <2>3, AnswersGoOn
  <2>4. CASE \/ \E v \in Deletable : DeleteService(v)
             \/ \E r \in DOMAIN rows : Ages(r) \/ ExpireInvitation(r)
    BY <2>4, TimeGoesOn
  <2> QED
    BY <1>2, <2>1, <2>2, <2>3, <2>4
       DEF MembershipNext, membershipVars, BeginUpdate, CheckUpdate, BeginActivate,
           CountBeforeActivation, ActivatePackage, SuspendDiscounts, FindInvitation,
           FindMembership, CountAfterLeaving, BackToDraft, BeginCancel, Abandon,
           ExpirePendingJoinRequests, BeginDiscount, CreateProviderDiscount,
           CreateCompanyFundedDiscount, Created, Reconfirm, CancelDiscount
<1> QED
  BY <1>1, <1>2

-----------------------------------------------------------------------------
(* What the handlers remember. *)
LEMMA StillRemember ==
  ASSUME MemberInv, MemberInv', RowsGoOn, NEW j, Remembers(j)
  PROVE  Remembers(j)'
<1> SUFFICES ASSUME j.op \in Answers
             PROVE  /\ j.row \in DOMAIN rows' /\ rows'[j.row].service \notin Own
                    /\ j.terms <= rows'[j.row].terms
  BY DEF Remembers
<1>1. /\ j.row \in DOMAIN rows /\ rows[j.row].service \notin Own
      /\ j.terms <= rows[j.row].terms /\ j.terms \in Nat
  BY DEF Remembers
<1>2. /\ j.row \in DOMAIN rows' /\ rows'[j.row].service = rows[j.row].service
      /\ rows[j.row].terms <= rows'[j.row].terms
  BY <1>1 DEF RowsGoOn
<1>3. rows'[j.row] \in RowSet
  BY <1>2 DEF MemberInv, RowsOK
<1>4. rows'[j.row].terms \in Nat
  BY <1>3, TermsOnly DEF RowSet
<1> QED
  BY <1>1, <1>2, <1>4, TermsAreNumbers

LEMMA JobRemembers ==
  ASSUME MemberInv, MemberInv', RequestsInv, RowsGoOn, NEW w \in Workers, NEW j, Remembers(j),
         job' = [job EXCEPT ![w] = j]
  PROVE  \A v \in Workers : Remembers(job[v])'
<1> SUFFICES ASSUME NEW v \in Workers PROVE Remembers(job[v])'
  OBVIOUS
<1>1. job'[v] = IF v = w THEN j ELSE job[v]
  BY DEF MemberInv, JobsOK
<1>2. PICK k : k = job'[v]
  OBVIOUS
<1>3. Remembers(k)
  BY <1>1, <1>2 DEF RequestsInv
<1>4. Remembers(k)'
  BY <1>3, StillRemember
<1> QED
  BY <1>2, <1>4 DEF Remembers

LEMMA HandlersRemember ==
  ASSUME MemberInv, MemberInv', RequestsInv, RowsGoOn, NEW w \in Workers,
         Done(w) \/ \E op \in Ops \ Answers : Goto(w, op)
  PROVE  \A v \in Workers : Remembers(job[v])'
<1>1. CASE Done(w)
  <2>1. Remembers(NoJob)
    BY DEF Remembers, NoJob, Answers
  <2> QED
    BY <1>1, <2>1, JobRemembers DEF Done
<1>2. ASSUME NEW op \in Ops \ Answers, Goto(w, op)
      PROVE  \A v \in Workers : Remembers(job[v])'
  <2> DEFINE j == [job[w] EXCEPT !.op = op]
  <2>1. /\ job[w] \in JobSet /\ job[w].remove \intersect Halls = {}
        /\ job[w].terms \in Nat
    BY DEF MemberInv, JobsOK, RequestsInv, Remembers
  <2>2. j.op = op /\ j.remove = job[w].remove /\ j.terms = job[w].terms
    BY <2>1 DEF JobSet
  <2>3. job' = [job EXCEPT ![w] = j]
    BY <1>2 DEF Goto
  <2> HIDE DEF j
  <2>4. Remembers(j)
    BY <2>1, <2>2 DEF Remembers
  <2> QED
    BY <2>3, <2>4, JobRemembers
<1> QED
  BY <1>1, <1>2

LEMMA BegunRemember ==
  ASSUME MemberInv, MemberInv', RequestsInv, RowsGoOn, NEW w \in Workers,
         \/ BeginUpdate(w) \/ BeginActivate(w) \/ BeginCancel(w)
         \/ \E op \in {"createProviderDiscount", "createCompanyFundedDiscount"} : BeginDiscount(w, op)
         \/ \E r \in DOMAIN rows : \/ FindInvitation(w, r, "accept")
                                  \/ FindInvitation(w, r, "reject")
                                  \/ FindMembership(w, r)
         \/ \E add, remove \in SUBSET Services, reset \in BOOLEAN :
              CheckUpdate(w, add, remove, reset)
  PROVE  \A v \in Workers : Remembers(job[v])'
<1>1. CASE \/ BeginUpdate(w) \/ BeginActivate(w) \/ BeginCancel(w)
           \/ \E op \in {"createProviderDiscount", "createCompanyFundedDiscount"} :
                BeginDiscount(w, op)
  <2>1. PICK op \in {"update", "activate", "cancel", "createProviderDiscount",
                     "createCompanyFundedDiscount"} : Begin(w, [NoJob EXCEPT !.op = op])
    BY <1>1 DEF BeginUpdate, BeginActivate, BeginCancel, BeginDiscount
  <2>2. Remembers([NoJob EXCEPT !.op = op])
    BY DEF Remembers, NoJob, Answers
  <2> QED
    BY <2>1, <2>2, JobRemembers DEF Begin
<1>2. ASSUME NEW r \in DOMAIN rows,
             \/ FindInvitation(w, r, "accept") \/ FindInvitation(w, r, "reject")
             \/ FindMembership(w, r)
      PROVE  \A v \in Workers : Remembers(job[v])'
  <2>1. rows[r].service \notin Own
    BY <1>2 DEF FindInvitation, FindMembership, Invitations, Here, RequestsInv, OnlyPartnersInvited
  <2>3. rows[r].terms \in Nat /\ 1 <= rows[r].terms /\ rows[r].terms <= rows[r].terms
    BY TermsAreNumbers
  <2>2. \E j : /\ job' = [job EXCEPT ![w] = j] /\ j.row = r /\ j.remove = {}
               /\ j.terms \in {1, rows[r].terms}
    <3>1. CASE FindMembership(w, r)
      <4> DEFINE j == [NoJob EXCEPT !.op = "leave", !.row = r, !.was = package]
      <4>1. j.row = r /\ j.remove = {} /\ j.terms \in {1, rows[r].terms}
        BY DEF NoJob
      <4>2. job' = [job EXCEPT ![w] = j]
        BY <3>1 DEF FindMembership, Begin
      <4> HIDE DEF j
      <4> QED
        BY <4>1, <4>2
    <3>2. ASSUME NEW op \in {"accept", "reject"}, FindInvitation(w, r, op)
          PROVE  \E j : /\ job' = [job EXCEPT ![w] = j] /\ j.row = r /\ j.remove = {}
                        /\ j.terms \in {1, rows[r].terms}
      <4> DEFINE j == [NoJob EXCEPT !.op = op, !.row = r, !.terms = rows[r].terms]
      <4>1. j.row = r /\ j.remove = {} /\ j.terms \in {1, rows[r].terms}
        BY DEF NoJob
      <4>2. job' = [job EXCEPT ![w] = j]
        BY <3>2 DEF FindInvitation, Begin
      <4> HIDE DEF j
      <4> QED
        BY <4>1, <4>2
    <3> QED
      BY <1>2, <3>1, <3>2
  <2>4. PICK j : /\ job' = [job EXCEPT ![w] = j] /\ j.row = r /\ j.remove = {}
                 /\ j.terms \in {1, rows[r].terms}
    BY <2>2
  <2>5. Remembers(j)
    BY <2>1, <2>3, <2>4 DEF Remembers
  <2> QED
    BY <2>4, <2>5, JobRemembers
<1>3. ASSUME NEW add \in SUBSET Services, NEW remove \in SUBSET Services, NEW reset \in BOOLEAN,
             CheckUpdate(w, add, remove, reset)
      PROVE  \A v \in Workers : Remembers(job[v])'
  <2>1. remove \intersect Halls = {}
    BY <1>3 DEF CheckUpdate
  <2>2. Remembers([NoJob EXCEPT !.op = "updateChecked", !.add = add, !.remove = remove,
                                 !.reset = reset])
    BY <2>1 DEF Remembers, NoJob, Answers
  <2> QED
    BY <1>3, <2>2, JobRemembers DEF CheckUpdate
<1> QED
  BY <1>1, <1>2, <1>3

LEMMA JobsRemember ==
  ASSUME MemberInv, MemberInv', RequestsInv, RowsGoOn, [MembershipNext]_membershipVars
  PROVE  \A v \in Workers : Remembers(job[v])'
<1>1. CASE UNCHANGED job
  <2> SUFFICES ASSUME NEW v \in Workers PROVE Remembers(job[v])'
    OBVIOUS
  <2>1. PICK k : k = job[v]
    OBVIOUS
  <2>2. Remembers(k)
    BY <2>1 DEF RequestsInv
  <2>3. Remembers(k)'
    BY <2>2, StillRemember
  <2> QED
    BY <1>1, <2>1, <2>3 DEF Remembers
<1>2. CASE \E w \in Workers : Done(w) \/ \E op \in Ops \ Answers : Goto(w, op)
  BY <1>2, HandlersRemember
<1>3. CASE \E w \in Workers :
             \/ BeginUpdate(w) \/ BeginActivate(w) \/ BeginCancel(w)
             \/ \E op \in {"createProviderDiscount", "createCompanyFundedDiscount"} :
                  BeginDiscount(w, op)
             \/ \E r \in DOMAIN rows : \/ FindInvitation(w, r, "accept")
                                      \/ FindInvitation(w, r, "reject")
                                      \/ FindMembership(w, r)
             \/ \E add, remove \in SUBSET Services, reset \in BOOLEAN :
                  CheckUpdate(w, add, remove, reset)
  BY <1>3, BegunRemember
<1>4. {"activateCounted", "suspendDiscounts", "left", "backToDraft"} \subseteq Ops \ Answers
  BY DEF Ops, Answers
<1>5. CASE \E w \in Workers :
             \/ CommitUpdate(w) \/ CountBeforeActivation(w) \/ ActivatePackage(w)
             \/ SuspendDiscounts(w) \/ AcceptJoinRequest(w) \/ RejectJoinRequest(w)
             \/ LeavePackage(w) \/ CountAfterLeaving(w) \/ BackToDraft(w)
             \/ CancelOwnedPackage(w) \/ Abandon(w)
             \/ \E d \in Discounts : CreateProviderDiscount(w, d) \/ CreateCompanyFundedDiscount(w, d)
  <2>1. \E w \in Workers : Done(w) \/ \E op \in Ops \ Answers : Goto(w, op)
    BY <1>4, <1>5
       DEF CommitUpdate, CountBeforeActivation, ActivatePackage, SuspendDiscounts,
           AcceptJoinRequest, RejectJoinRequest, LeavePackage, CountAfterLeaving, BackToDraft,
           CancelOwnedPackage, Abandon, CreateProviderDiscount, CreateCompanyFundedDiscount,
           Created
  <2> QED
    BY <1>2, <2>1
<1> QED
  BY <1>1, <1>3, <1>5
     DEF MembershipNext, membershipVars, CreatePackage, DeleteService, Ages, ExpireInvitation,
         ExpirePendingJoinRequests, Reconfirm, CancelDiscount

LEMMA RequestsKeep ==
  ASSUME MemberInv, RequestsInv, [MembershipNext]_membershipVars
  PROVE  RequestsInv' /\ RowsGoOn
<1>1. RowsGoOn
  BY StepsGoOn
<1>2. \A v \in Workers : Remembers(job[v])'
  BY <1>1, NextKeeps, JobsRemember
<1>3. \A r \in stale' : r \in DOMAIN rows /\ rows[r].service \notin Own
  <2>1. CASE stale' \subseteq stale
    BY <2>1 DEF RequestsInv, MemberInv, RowsOK
  <2>2. CASE ExpirePendingJoinRequests
    BY <2>2 DEF ExpirePendingJoinRequests, Expired, Invitations, Here, RequestsInv,
                OnlyPartnersInvited
  <2> QED
    BY <2>1, <2>2
       DEF MembershipNext, membershipVars, others, BeginUpdate, CheckUpdate, BeginActivate,
           CountBeforeActivation, ActivatePackage, SuspendDiscounts, FindInvitation,
           FindMembership, CountAfterLeaving, BackToDraft, BeginCancel, Abandon, CreatePackage,
           CommitUpdate, AcceptJoinRequest, RejectJoinRequest, LeavePackage, CancelOwnedPackage,
           DeleteService, Ages, ExpireInvitation, BeginDiscount, CreateProviderDiscount,
           CreateCompanyFundedDiscount, Created, Reconfirm, CancelDiscount
<1>4. \A r \in stale' : rows'[r].service \notin Own
  BY <1>1, <1>3 DEF RowsGoOn
<1> QED
  BY <1>1, <1>2, <1>4 DEF RequestsInv, RowsGoOn

LEMMA RequestsInvHold == MembershipSpec => [](MemberInv /\ RequestsInv)
<1>1. MembershipInit => RequestsInv
  BY DEF MembershipInit, RequestsInv, OnlyPartnersInvited, AgreedToTerms, Remembers, NoJob, Answers
<1>2. MemberInv /\ RequestsInv /\ [MembershipNext]_membershipVars => RequestsInv'
  BY RequestsKeep
<1> QED
  BY <1>1, <1>2, InvHolds, PTL DEF MembershipSpec

(* No partner's service is an active part of a package without an acceptance *)
(* of this invitation, as it stood when the acceptance was found: of a row   *)
(* taken out and invited again, never the old one's, since acceptJoinRequest *)
(* writes by the id of the row it found; and after a new discount only one   *)
(* that was already on its way (packages.service.ts).                        *)
THEOREM ActivePartnersConsented == MembershipSpec => []PartnersConsented
<1>1. MemberInv /\ RequestsInv => PartnersConsented
  <2> SUFFICES ASSUME MemberInv, RequestsInv, NEW r \in Active, rows[r].service \notin Own
               PROVE  rows[r].agreed = rows[r].terms \/ Overtaken(r)
    BY DEF PartnersConsented
  <2>1. r \in DOMAIN rows
    BY DEF Active, Here
  <2>2. rows[r].agreed # 0 /\ rows[r].agreed <= rows[r].terms
    BY <2>1 DEF MemberInv, RowsOK, Accepted, RequestsInv, AgreedToTerms
  <2> QED
    BY <2>1, <2>2, TermsAreNumbers DEF Overtaken
<1> QED
  BY <1>1, RequestsInvHold, PTL

(* The hall a package stands on is never refused, reset, expired or taken    *)
(* out by a request that crosses another, however many there are: it leaves  *)
(* with the whole package or when the service itself is deleted.             *)
THEOREM HallStaysInPackage == MembershipSpec => OwnerHallStays
<1>1. MemberInv /\ RequestsInv /\ [MembershipNext]_membershipVars =>
        [\A r \in Active : rows[r].service \in Halls =>
           \/ rows'[r].status = "ACTIVE"
           \/ package' = "CANCELLED"
           \/ rows[r].service \in deleted']_membershipVars
  <2> SUFFICES ASSUME MemberInv, RequestsInv, [MembershipNext]_membershipVars,
                      NEW r \in Active, rows[r].service \in Halls
               PROVE  \/ rows'[r].status = "ACTIVE"
                      \/ package' = "CANCELLED"
                      \/ rows[r].service \in deleted'
    OBVIOUS
  <2>1. RowsGoOn /\ r \in DOMAIN rows /\ rows[r].status = "ACTIVE"
    BY RequestsKeep DEF Active, Here
  <2> QED
    BY <2>1 DEF RowsGoOn, HallStays
<1> QED
  BY <1>1, RequestsInvHold, PTL DEF MembershipSpec, OwnerHallStays
=============================================================================
