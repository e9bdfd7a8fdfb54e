----------------------------- MODULE MCAiBudget -----------------------------
(***************************************************************************)
(* Small instances of AiBudget: windows of two and four ticks, a cooldown  *)
(* longer than the day window, and calls left by an earlier version that   *)
(* are recent, old, or at the edge of a window.                            *)
(***************************************************************************)
EXTENDS AiBudget, TLC

Left(times) == {[id |-> 0, at |-> t, subject |-> NoSubject] : t \in times}

MCLegacyHistories == {Left({}), Left({Start}), Left({Start - Hour, Start - 1}),
                      Left({Start - Day, Start - Day + 1})}

SubjectSymmetry == Permutations(Subjects)

=============================================================================
