------------------------------- MODULE Office -------------------------------
(***************************************************************************)
(* The back office: the accountant's books and handovers, and the work of  *)
(* the administrators, against one database.                               *)
(*                                                                         *)
(* They share no row that either changes, so a behaviour of the office is  *)
(* one of the books or one of the administration (a bound of this module). *)
(***************************************************************************)
EXTENDS Books, Administration

officeVars == <<vars, adminVars>>

OfficeInit == Init /\ AdminInit

Closed == journal = <<>> /\ handovers = <<>>
Unadministered == updates = 0 /\ uploads = 0

OfficeNext ==
  \/ Unadministered /\ Next /\ UNCHANGED adminVars
  \/ Closed /\ AdminNext /\ UNCHANGED vars

OfficeSpec == OfficeInit /\ [][OfficeNext]_officeVars

-----------------------------------------------------------------------------
(* Every row of the back office keeps its type. *)
OfficeTypeOK == TypeOK /\ AdminTypeOK
=============================================================================
