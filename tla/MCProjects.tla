------------------------------ MODULE MCProjects ------------------------------
(* Small instances of Projects for TLC.                                    *)
EXTENDS Projects, TLC

CONSTANTS a, b, c, s1, s2, s3, r

\* Two directories of one repository and a third that is no git tree.
MCRepo == a :> r @@ b :> r @@ c :> NoRepo
MCHome == s1 :> a @@ s2 :> b @@ s3 :> c
=============================================================================
