---------------------------- MODULE WorkspaceMC ----------------------------
(* What may happen in the runs of Workspace.                                  *)
EXTENDS Workspace

P == [versions |-> 4, clicks |-> 0, uploads |-> 0, failures |-> 0, foreign |-> 0, calls |-> {}]

TestPlans == {
  [P EXCEPT !.failures = 1, !.uploads = 1, !.foreign = 1, !.calls = {"open", "rename", "delete"}],
  [P EXCEPT !.failures = 2, !.clicks = 2, !.calls = {"open", "duplicate"}],
  [P EXCEPT !.failures = 1, !.foreign = 1, !.calls = {"import", "rename-other", "delete-other"}],
  [P EXCEPT !.versions = 5, !.failures = 1, !.uploads = 1,
             !.calls = {"import", "rename", "create"}],
  [P EXCEPT !.failures = 1, !.uploads = 1, !.calls = {"open", "run", "reset"}],
  [P EXCEPT !.versions = 5, !.uploads = 1, !.clicks = 1, !.calls = {"open", "rename", "delete"}]
  }
=============================================================================
