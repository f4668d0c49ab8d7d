------------------------------- MODULE MCShim -------------------------------
(* One process, under others' changes: two directories of two formats, an  *)
(* open and a proprietary vendor, two builds of a line in early access,    *)
(* which the live API has released, and a build number spelled two ways.   *)
EXTENDS Shim

Plain(nums) == [head |-> nums, sep |-> "none", tail |-> <<>>]
Early(n)    == [head |-> <<27>>, sep |-> "-", tail |-> <<Word(1), Plus, Digits(n)>>]

Pack(v, t, ea) == [vendor |-> v, version |-> t, ea |-> ea]

ThePublished == {Pack("temurin", Early(8), TRUE), Pack("temurin", Early(31), TRUE),
                 Pack("oracle", Plain(<<27, 11>>), FALSE)}
TheLive      == {Pack("temurin", Plain(<<27>>), FALSE)}

TheSelectors == {[vendor |-> NoVendor, version |-> Plain(<<27>>)],
                 [vendor |-> "temurin", version |-> Plain(<<27>>)],
                 [vendor |-> "temurin",
                  version |-> [head |-> <<27>>, sep |-> "-", tail |-> <<Word(1)>>]],
                 [vendor |-> "oracle",
                  version |-> [head |-> <<27>>, sep |-> "+", tail |-> <<Digits(11)>>]]}

Says(v, policy, accept) ==
    [readable |-> TRUE, vendor |-> v, policy |-> policy, accept |-> accept]
TheConfigs == {Says("temurin", "prompt", FALSE), Says("oracle", "always", TRUE),
               [Says("temurin", "never", FALSE) EXCEPT !.readable = FALSE]}

=============================================================================
