--------------------------- MODULE MCRegistration ---------------------------
(* An instance of Registration for TLC: a root, another one whose path      *)
(* begins with the first one's, both in one repository, and sessions below  *)
(* the first and in the second.                                             *)
EXTENDS Registration

MCRoots == {<<"r">>, <<"r", "2">>}
MCCwds == {<<"r", "/", "s">>, <<"r", "2">>}
MCCommonDir == [r \in MCRoots |-> "common"]
=============================================================================
