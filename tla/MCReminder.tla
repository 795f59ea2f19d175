----------------------------- MODULE MCReminder -----------------------------
(***************************************************************************)
(* Small instances of Reminder.                                            *)
(***************************************************************************)
EXTENDS Reminder, TLC

CONSTANTS w1, w2

\* retryDelays of one entry, so that a second retry reuses the last one.
MCDelays == <<1>>

\* Zero and below stand for "not given" and become the default of three.
MCMaxRetryTwo == {2}
MCMaxRetryDefault == {-1, 0, 1}

MCSymmetry == Permutations(Workers)

=============================================================================
