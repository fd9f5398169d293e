---------------------------- MODULE MCModelAccess ----------------------------
(* Instances of ModelAccess for TLC. *)
EXTENDS ModelAccess, TLC

AccessSymmetry ==
    Permutations(Turns) \cup Permutations(Attempts) \cup Permutations(Tabs) \cup Permutations(Logins)

(* Nothing, a key for a provider, its address, or both. *)
SomeEnvironments ==
    LET E(url, key) == [method |-> "", url |-> url, key |-> key]
    IN {E("", ""), E("", Default), E(Default, ""), E(Default, Default)}

SomeForms == {"apikey", "codex"} \X {"", Polza, Local}
=============================================================================
