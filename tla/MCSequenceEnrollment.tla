------------------------ MODULE MCSequenceEnrollment ------------------------
(***************************************************************************)
(* Instances of SequenceEnrollment for TLC.                                *)
(***************************************************************************)
EXTENDS SequenceEnrollment, TLC

\* Day 0 and day 1.
TwoSteps == <<0, 1>>

\* Three messages on consecutive days.
ThreeSteps == <<0, 1, 2>>

=============================================================================
