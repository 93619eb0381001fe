----------------------------- MODULE MCSnapshotTool -----------------------------
(* Two pods and two keyspaces; a retention period of one second out of     *)
(* three.                                                                  *)
EXTENDS SnapshotTool

TwoPods == <<"a-0", "b-0">>
=============================================================================
