--------------------------- MODULE MCLoanHistory ---------------------------
(***************************************************************************)
(* LoanHistory with the values of MCCirculation.                           *)
(***************************************************************************)
EXTENDS MCCirculation, LoanHistory

=============================================================================
