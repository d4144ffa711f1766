----------------------------- MODULE MCConfigInit -----------------------------
(***************************************************************************)
(* A small instance of ConfigInit for TLC: two users whose scripts are     *)
(* copies of each other at different paths.                                *)
(***************************************************************************)
EXTENDS ConfigInitLedger, TLC

CONSTANTS p1, p2, c1, c2, bad, commit1, commit2, script, path1, path2, path3, path4, repo

TwoClients == {p1, p2}
AllTables == {"storage_root", "storage_location", "object", "code_run"}

(* The registry tells locations apart by all their fields, or by content.  *)
LocationKeys(fields) ==
    [t \in AllTables |->
        CASE t = "storage_root" -> {"root"}
          [] t = "storage_location" -> fields
          [] OTHER -> {}]
TwoKeys == {LocationKeys({"path", "hash", "storage_root"}),
            LocationKeys({"hash", "storage_root"})}

AllContents == {c1, c2, bad}
(* Two configs that name different commits, or a bad one next to a good    *)
(* one.                                                                    *)
FilesOf(c, d) == [p \in TwoClients |-> IF p = p1 THEN c ELSE d]
TwoCases == {FilesOf(c1, c2), FilesOf(bad, c1)}
ValidContents == {c1, c2}
Commits == [c \in AllContents |-> IF c = c1 THEN commit1 ELSE commit2]
ConfigPaths == [p \in TwoClients |-> IF p = p1 THEN path1 ELSE path2]
ScriptPaths == [p \in TwoClients |-> IF p = p1 THEN path3 ELSE path4]
SameScript == [p \in TwoClients |-> script]
=============================================================================
