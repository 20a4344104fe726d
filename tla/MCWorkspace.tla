---------------------------- MODULE MCWorkspace ----------------------------
(***************************************************************************)
(* Instances of Workspace for TLC.                                         *)
(***************************************************************************)
EXTENDS Workspace, TLC

CONSTANTS f1, f2, n1, n2

\* Two nodes with a file each, two nodes that share one, and a single node.
OwnFiles == (n1 :> {f1}) @@ (n2 :> {f2})
SharedFile == (n1 :> {f1}) @@ (n2 :> {f1})
OneNode == n1 :> {f1}
=============================================================================
