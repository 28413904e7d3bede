------------------------- MODULE DefenseAttemptClaims -------------------------
(***************************************************************************)
(* What comments, messages and tests of the repository say about a defense  *)
(* attempt and what the transactions of DefenseAttempt do not keep.  The  *)
(* formula is refuted by the run of its name; the README describes the      *)
(* counterexample.                                                          *)
(***************************************************************************)
EXTENDS DefenseAttempt

\* "This hearing records its outcome automatically. No manual verdict is
\* requested." (execution/auto_panelist_eval.py:429, record_verdict): with the
\* whole panel in, an open automatic hearing has its verdict.
CompletePanelResolved ==
  LET h == grade.schedule
  IN  Automatic /\ participationOpen /\ h # 0
        => (status[h] = "scheduled" => ~EvaluatorsComplete(h, submission))
==============================================================================
