----------------------------- MODULE MCGenerator -----------------------------
(* A required vendor with two stable versions, one of them listed twice,   *)
(* and one in early access for x64, and one version for aarch64; and a     *)
(* vendor that may be missing.                                             *)
EXTENDS Generator

On(v, a) == [vendor |-> v, arch |-> a]
TheOrder == <<On("temurin", "x64"), On("oracle", "x64"), On("temurin", "aarch64")>>

Pack(f, v, ea, u, c) ==
    [platform |-> f, version |-> v, ea |-> ea, url |-> u, checksum |-> c]

ThePackages == {Pack(TheOrder[1], 2, FALSE, 0, "inline"),
                Pack(TheOrder[1], 1, FALSE, 1, "none"),
                Pack(TheOrder[1], 2, FALSE, 2, "sha1"),
                Pack(TheOrder[1], 2, FALSE, 3, "uri"),
                Pack(TheOrder[1], 3, TRUE, 4, "inline"),
                Pack(TheOrder[2], 1, FALSE, 5, "none"),
                Pack(TheOrder[3], 1, FALSE, 6, "uri")}

=============================================================================
