---------------------------- MODULE MCMigrations ----------------------------
(***************************************************************************)
(* The 21 versions, two old cards to move, and one version of the kind     *)
(* MIGRATIONS.md describes but nobody has written yet: transactional, with *)
(* before-deploy steps, and a DDL statement that ends its transaction.     *)
(***************************************************************************)
EXTENDS Migrations

CONSTANTS r1, r2

TwoCards == <<"card1", "card2">>

NextVersion ==
  [version |-> 2026050101,
   beforeDeploy |-> <<Insert("modules", "goals"), Update("modules")>>,
   execute |-> <<Insert("modules", "reports"), Insert("gateways", "Stripe"),
                 AddPart("revenue", "goal"), Insert("payment_methods", "link")>>,
   transactional |-> TRUE]

AllVersions == Discovered(Append(Classes, NextVersion))

ASSUME VersionsAssumption == NoVersionTwice(AllVersions)

Symmetry == Permutations(Runs)
=============================================================================
