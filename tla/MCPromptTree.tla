---------------------------- MODULE MCPromptTree ----------------------------
(* A small instance of PromptTree for TLC. *)
EXTENDS PromptTree

CONSTANTS here, there, reader1

AB == {"a", "b"}
ShortPrompts == UNION {[1 .. n -> AB] : n \in 1 .. 3}
SomePrompts == {<<"a">>, <<"a", "b">>, <<"a", "b", "a">>, <<"a", "b", "b">>, <<"b", "a">>}
TreeNodes == 1 .. 2 * MaxInserts

=============================================================================
