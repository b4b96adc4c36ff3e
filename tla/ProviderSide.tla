----------------------------- MODULE ProviderSide -----------------------------
(***************************************************************************)
(* What a provider keeps up: what it sells (Catalogue) and the files its   *)
(* profile and a sub-service show (Files).  The first follows statuses and *)
(* lets every upload pass, the second follows the files of a sub-service   *)
(* that exists, so they are checked side by side: one of them works, the   *)
(* other has not begun.                                                    *)
(***************************************************************************)
EXTENDS Catalogue, Files

sideVars == <<catalogueVars, fileVars>>

ProviderSideInit == CatalogueInit /\ FilesInit

ProviderSideNext ==
  \/ FilesInit /\ CatalogueNext /\ UNCHANGED fileVars
  \/ CatalogueInit /\ FilesNext /\ UNCHANGED catalogueVars

ProviderSideSpec == ProviderSideInit /\ [][ProviderSideNext]_sideVars

(* The types of both parts.                                                 *)
ProviderSideTypeOK == CatalogueTypeOK /\ FilesTypeOK
=============================================================================
