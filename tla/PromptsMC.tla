------------------------------ MODULE PromptsMC ------------------------------
(* Instances of Prompts for TLC.                                            *)
EXTENDS Prompts

TextsOf == (1..MaxPrompts) \cup {-m : m \in 1..MaxMessages}
==============================================================================
