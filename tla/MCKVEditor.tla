----------------------------- MODULE MCKVEditor ------------------------------
(* TLC instance of KVEditor: keys of two folders, or of a folder whose    *)
(* path begins with the path of another ("app" and "app2").                *)
EXTENDS KVEditor

CONSTANTS u1, root, app, app2, a

MCKeys == {Path(root, a), Path(app, a), Path(app, NoName)}
MCBegins == [f \in Folders |->
                IF f = root THEN Folders ELSE IF f = app THEN Folders \ {root} ELSE {f}]
MCSiblings == {Path(app, a), Path(app2, a), Path(app2, NoName)}
=============================================================================
