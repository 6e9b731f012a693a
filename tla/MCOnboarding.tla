------------------------------ MODULE MCOnboarding ------------------------------
(***************************************************************************)
(* Instances of Onboarding: the keys are interchangeable.                  *)
(***************************************************************************)
EXTENDS Onboarding, TLC

KeySymmetry == Permutations(Keys)
===============================================================================
