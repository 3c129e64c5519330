---------------------------- MODULE MCChatSession ----------------------------
(***************************************************************************)
(* Instances of ChatSession for TLC.  One tool is enough: chat gives the   *)
(* runner no validators, and what is checked is which items reach whom.    *)
(***************************************************************************)
EXTENDS ChatSession, TLC

CONSTANTS patch, c1, c2, c3

OneTool == {patch}
TwoConvs == {c1, c2}
ThreeConvs == {c1, c2, c3}
ConvSymmetry == Permutations(Convs)
=============================================================================
