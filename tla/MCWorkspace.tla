---------------------------- MODULE MCWorkspace ----------------------------
(* One host and one session; the stored workspace of an old version holds  *)
(* the host's picker beside a terminal, either of them active.             *)
EXTENDS Workspace, TLC

MCLegacy == {[leaves |-> <<Pane("session-picker", Host, ""), Pane("terminal", Host, Session)>>,
              active |-> at] : at \in {1, 2}}

Symmetry == Permutations(FilesIds) \cup Permutations(TerminalIds) \cup Permutations(Tabs)
=============================================================================
