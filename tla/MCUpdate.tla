------------------------------ MODULE MCUpdate ------------------------------
(* Two releases, the second of which trusts a new key; a test key; servers *)
(* that hold what the project published, and some of it damaged.           *)
EXTENDS Update

Site == [scheme |-> "https", host |-> "github", path |-> <<<<"releases", 0>>>>]
Local == [scheme |-> "http", host |-> "localhost", path |-> <<>>]
Mirror == [scheme |-> "https", host |-> "mirror", path |-> <<>>]

KeyLine(k) == <<KeyType, KeyBlob(k)>>
MCPinned == <<KeyLine("A"), KeyLine("B")>>
MCOverrides == {Local, Mirror}
MCPubkeys == {KeyLine("T"), <<"ssh-rsa", KeyBlob("R")>>}

Tag(v) == <<<<"releases", 0>>, <<"tag", 0>>, <<"v", v>>>>
MCLocations ==
    {[form |-> "rooted", url |-> [Site EXCEPT !.path = Tag(v)]] : v \in {1, 2}}
    \cup {[form |-> "absolute", url |-> [u EXCEPT !.path = Tag(2)]] : u \in {Mirror, Local}}
    \cup {[form |-> "relative", url |-> [Site EXCEPT !.path = <<<<"..", 0>>>>]]}

File(name, v, size) ==
    [name |-> <<name>>, rooted |-> FALSE, kind |-> "file", declared |-> size,
     size |-> size, content |-> v]
Zip(v, entries) == [zip |-> TRUE, release |-> v, entries |-> entries]
Whole(v) == Zip(v, <<File("jdk.exe", v, 1), File("jdk-shim.exe", v, 1)>>)
Half == Zip(2, <<File("jdk.exe", 2, 1)>>)
Big == Zip(2, <<File("jdk.exe", 2, 1), File("jdk-shim.exe", 2, 9)>>)
MCBundles == {Whole(1), Whole(2), Half, Big}

(* A line for another machine, one that is malformed, and the right one.   *)
Sums(v, z) ==
    <<[names |-> <<<<"arm64", v>>>>, hash |-> Whole(1)],
      [names |-> <<<<"x64", v>>>>, hash |-> None],
      [names |-> <<<<"x64", v>>>>, hash |-> z]>>
MCSumsFiles == {Sums(1, Whole(1))} \cup {Sums(2, z) : z \in MCBundles \ {Whole(1)}}

Armor == <<"begin", "base64", "end", "blank">>
Wire(key, namespace, hash, made) ==
    <<Magic, 1, KeyBlob(key), namespace, "", hash, <<KeyType, made>>>>
Made(key, m) == Signed(key, Namespace, "sha512", m)
Good(key, m) == [lines |-> Armor, wire |-> Wire(key, Namespace, "sha512", Made(key, m))]
MCSigFiles ==
    {Good("A", m) : m \in MCSumsFiles}
    \cup {Good("B", Sums(2, Whole(2))), Good("T", Sums(1, Whole(1)))}
    \cup {[lines |-> Armor,
           wire |-> Wire("A", Namespace, "sha512", Signed("A", "file", "sha512", Sums(2, Whole(2))))]}

=============================================================================
