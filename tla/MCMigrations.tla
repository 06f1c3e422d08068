---------------------------- MODULE MCMigrations ----------------------------
(***************************************************************************)
(* Openers of one file: two of the current build with its six migrations,  *)
(* or three with builds of different ages.                                 *)
(***************************************************************************)
EXTENDS Migrations

CONSTANTS Old, New, Newer

SameBuild   == [p \in Openers |-> 6]
\* migrations 3, 5 and 6 begin with PRAGMA table_xinfo
ColumnAdds  == {3, 5, 6}

MixedBuilds == [p \in Openers |-> IF p = Old THEN 2 ELSE 3]
ThirdReads  == {3}
=============================================================================
