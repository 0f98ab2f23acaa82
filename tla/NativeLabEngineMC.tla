------------------------- MODULE NativeLabEngineMC -------------------------
EXTENDS NativeLabEngine

(* The application (App.tsx): a toggle of a node is not awaited, so that any  *)
(* call may overtake it; start, pause and dispose hold its operation lock, so *)
(* that nothing is called while one of them is outstanding.                   *)
AppOverlap == Calls \X Toggles
=============================================================================
