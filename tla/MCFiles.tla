------------------------------- MODULE MCFiles ------------------------------
(* A small instance of Files: the maker's form, and an administrator. *)
EXTENDS Files, TLC

MCRolesOf   == "maker" :> {"factory"} @@ "ann" :> {"admin"} @@ "rival" :> {"factory"}
MCFactoryOf == "maker" :> "factory" @@ "ann" :> "none" @@ "rival" :> "another"
=============================================================================
