------------------------------ MODULE BackOffice ------------------------------
(***************************************************************************)
(* Three parts that share no table: an account, the notifications of a     *)
(* user, and what follows a booking.  None reads what another wrote, so    *)
(* they are checked side by side: one of them works at a time, the other   *)
(* two have not begun.                                                     *)
(***************************************************************************)
EXTENDS Accounts, Notifications, AfterSales

backVars == <<accountVars, noticeVars, deskVars>>

BackOfficeInit == AccountsInit /\ NotificationsInit /\ AfterSalesInit

OnlyAccounts      == NotificationsInit /\ AfterSalesInit /\ UNCHANGED <<noticeVars, deskVars>>
OnlyNotifications == AccountsInit /\ AfterSalesInit /\ UNCHANGED <<accountVars, deskVars>>
OnlyAfterSales    == AccountsInit /\ NotificationsInit /\ UNCHANGED <<accountVars, noticeVars>>

BackOfficeNext ==
  \/ OnlyAccounts /\ AccountsNext
  \/ OnlyNotifications /\ NotificationsNext
  \/ OnlyAfterSales /\ AfterSalesNext

(* A delivery under way goes on, and Redis drops a key when its time is up; *)
(* no request has to come.                                                  *)
BackOfficeFairness ==
  /\ \A d \in Deliveries : WF_backVars(OnlyNotifications /\ DeliverySteps(d))
  /\ WF_backVars(OnlyAfterSales /\ CacheExpires)

BackOfficeSpec == BackOfficeInit /\ [][BackOfficeNext]_backVars /\ BackOfficeFairness

(* The types of the three parts.                                            *)
BackOfficeTypeOK == AccountsTypeOK /\ NotificationsTypeOK /\ AfterSalesTypeOK
=============================================================================
