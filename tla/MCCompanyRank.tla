---------------------------- MODULE MCCompanyRank ----------------------------
(* CompanyRank for TLC.                                                     *)
EXTENDS CompanyRank, TLC

Symmetry == Permutations(Instances) \cup Permutations(Companies \ {NoCompany})
==============================================================================
