------------------------------- MODULE Sshsig -------------------------------
(***************************************************************************)
(* What jdk-core/src/sshsig.rs takes for a signature.  An armored file is  *)
(* a sequence of `lines`, each of a kind, around the `wire` fields that    *)
(* its base64 decodes to, in their order; a field that is cut off is not   *)
(* there.  What a key signed is the value Signed(...), which nobody else   *)
(* can make.                                                               *)
(***************************************************************************)
EXTENDS Naturals, Sequences

KeyType == "ssh-ed25519"
Magic == "SSHSIG"
Hashes == {"sha256", "sha512"}

(* A key as it goes over the wire: a type and 32 bytes.                    *)
KeyBlob(key) == <<KeyType, key>>

(* PublicKey::parse of the fields of a line.                               *)
ParsesKey(line) ==
    /\ Len(line) > 1
    /\ line[1] = KeyType
    /\ Len(line[2]) = 2 /\ line[2][1] = KeyType

(* dearmor: BEGIN first, no blank line before END, only blank ones after.  *)
Armored(lines) ==
    \E e \in DOMAIN lines :
        /\ lines[1] = "begin" /\ lines[e] = "end"
        /\ \A i \in 2..(e - 1) : lines[i] = "base64"
        /\ \A i \in (e + 1)..Len(lines) : lines[i] = "blank"

(* The blob that is signed: `reserved` is empty, whatever the wire says.   *)
Signed(key, namespace, hash, message) ==
    [key |-> key, magic |-> Magic, namespace |-> namespace, reserved |-> "",
     hash |-> hash, message |-> message]

(* Mutant: the message that was signed is not compared.                    *)
VerifiesAny(file, message, key, namespace) ==
    /\ Armored(file.lines)
    /\ Len(file.wire) = 7
    /\ file.wire[3] = KeyBlob(key)
    /\ file.wire[4] = namespace

(* verify.                                                                 *)
Verifies(file, message, key, namespace) ==
    /\ Armored(file.lines)
    /\ Len(file.wire) = 7
    /\ file.wire[1] = Magic
    /\ file.wire[2] = 1
    /\ file.wire[3] = KeyBlob(key)
    /\ file.wire[4] = namespace
    /\ file.wire[6] \in Hashes
    /\ file.wire[7] = <<KeyType, Signed(key, namespace, file.wire[6], message)>>

=============================================================================
