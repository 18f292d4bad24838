----------------------------- MODULE MCSessions -----------------------------
(* Two clients with a folder each, or with one between them.                *)
EXTENDS Sessions

OneOrTwoFolders ==
  {[c \in Clients |-> "f"], [c \in Clients |-> IF c = "a" THEN "f" ELSE "g"]}
AFolderEach == {[c \in Clients |-> c]}
OneFolder == {[c \in Clients |-> "f"]}
=============================================================================
