----------------------------- MODULE MCEditorTabs -----------------------------
(* Small instances of the editor's tabs for TLC: which tabs and rivals there   *)
(* are and every bound is in the .cfg; no definition is needed here.           *)
EXTENDS EditorTabsProperties
==============================================================================
