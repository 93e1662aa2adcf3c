---------------------------- MODULE MCShopOffice ----------------------------
(***************************************************************************)
(* The parts of the shop that share no state with each other, checked in   *)
(* one run: OfficeInit picks a part, and only that part moves.             *)
(***************************************************************************)
EXTENDS BranchStock, SignIn, SoftwareUpdate, PortalSync, BranchLicence,
        StockCount, CashierShift, PieceStock, TLC

CONSTANTS Nasr, Giza, Clerk, low, unpaid, old, new, c1, c2, c3, far, legacy,
          first, second, s1, s2

(* The main branch and two others of equal standing.                       *)
OtherBranches == Permutations({Nasr, Giza})

(* A lock lasts one period, then two; the second release is critical.      *)
Steps      == <<1, 2>>
Severities == <<"normal", "critical">>

VARIABLE part

officeVars == <<vars, signInVars, updateVars, portalVars, licenceVars, countVars, shiftVars, pieceVars, part>>

OfficeInit ==
  /\ Init /\ SignInInit /\ UpdateInit /\ PortalInit /\ LicenceInit /\ CountInit /\ ShiftInit /\ PieceInit
  /\ part \in {"branches", "sign-in", "updates", "portal", "licences", "counts", "shifts",
              "pieces"}
  /\ part # "sign-in" => slips = "password"

OfficeNext ==
  \/ /\ part = "branches" /\ Next
     /\ UNCHANGED <<part, signInVars, updateVars, portalVars, licenceVars, countVars, shiftVars, pieceVars>>
  \/ /\ part = "sign-in" /\ SignInNext
     /\ UNCHANGED <<part, vars, updateVars, portalVars, licenceVars, countVars, shiftVars, pieceVars>>
  \/ /\ part = "updates" /\ UpdateNext
     /\ UNCHANGED <<part, vars, signInVars, portalVars, licenceVars, countVars, shiftVars, pieceVars>>
  \/ /\ part = "portal" /\ PortalNext
     /\ UNCHANGED <<part, vars, signInVars, updateVars, licenceVars, countVars, shiftVars, pieceVars>>
  \/ /\ part = "licences" /\ LicenceNext
     /\ UNCHANGED <<part, vars, signInVars, updateVars, portalVars, countVars, shiftVars, pieceVars>>
  \/ /\ part = "counts" /\ CountNext
     /\ UNCHANGED <<part, vars, signInVars, updateVars, portalVars, licenceVars, shiftVars, pieceVars>>
  \/ /\ part = "shifts" /\ ShiftNext
     /\ UNCHANGED <<part, vars, signInVars, updateVars, portalVars, licenceVars, countVars, pieceVars>>
  \/ /\ part = "pieces" /\ PieceNext
     /\ UNCHANGED <<part, vars, signInVars, updateVars, portalVars, licenceVars, countVars, shiftVars>>

OfficeSpec == OfficeInit /\ [][OfficeNext]_officeVars

(* Every part's variables keep their types.                                *)
OfficeTypeOK ==
  /\ TypeOK /\ SignInTypeOK /\ UpdateTypeOK /\ PortalTypeOK
  /\ LicenceTypeOK /\ CountTypeOK /\ ShiftTypeOK /\ PieceTypeOK
=============================================================================
