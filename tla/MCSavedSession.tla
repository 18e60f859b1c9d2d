----------------------------- MODULE MCSavedSession -----------------------------
(* A bounded instance of SavedSession for TLC. *)
EXTENDS SavedSession, TLC

SlotSymmetry == Permutations(Slots)
=================================================================================
