------------------------------ MODULE Archive -------------------------------
(***************************************************************************)
(* What extract_zip_capped (jdk-core/src/extract.rs) makes of an archive.  *)
(* An entry has a name, which is a sequence of segments and may be rooted  *)
(* (a leading separator, a drive or stream colon), a kind, the size it     *)
(* declares, the size it has, its content and, for a link, a target.       *)
(***************************************************************************)
EXTENDS Naturals, Sequences

Plain(name) == SelectSeq(name, LAMBDA s : s \notin {"", "."})

(* entry_rel_path refuses a name that leads out, or nowhere.               *)
SafeName(entry) ==
    /\ ~entry.rooted
    /\ \A i \in DOMAIN entry.name : entry.name[i] # ".."
    /\ Plain(entry.name) # <<>>

Escapes == <<"..">>

(* symlink_source: where a relative target leads, Escapes for out of it.   *)
SymlinkSource(entry) ==
    LET link    == Plain(entry.name)
        target  == Plain(entry.target.name)
        dir     == SubSeq(link, 1, Len(link) - 1)
        walk[i \in 0..Len(target)] ==
          IF i = 0 THEN dir
          ELSE LET here == walk[i - 1] IN
               IF here = Escapes \/ (target[i] = ".." /\ here = <<>>) THEN Escapes
               ELSE IF target[i] = ".." THEN SubSeq(here, 1, Len(here) - 1)
               ELSE Append(here, target[i])
    IN IF entry.target.rooted THEN Escapes ELSE walk[Len(target)]

(* The files under the destination: pairs of a path and a content.         *)
Lacking(files, path) == {f \in files : f[1] # path}
Placed(files, path, content) == Lacking(files, path) \cup {<<path, content>>}

(* A link becomes a copy of the file it leads to, or nothing.              *)
Linked(s, entry) ==
    LET found == {f \in s.files : f[1] = SymlinkSource(entry)} IN
    IF found = {} THEN s
    ELSE [s EXCEPT !.files =
            Placed(@, Plain(entry.name), (CHOOSE f \in found : TRUE)[2])]

(* The zip reader fails a file that outgrows its declared size.            *)
Written(s, entry) ==
    IF entry.size > entry.declared
    THEN [s EXCEPT !.ok = FALSE, !.files = Lacking(@, Plain(entry.name))]
    ELSE [s EXCEPT !.files = Placed(@, Plain(entry.name), entry.content),
                   !.written = @ + entry.size]

(* One entry, onto the files and the bytes written so far.                 *)
Unpack(s, entry, maxBytes) ==
    LET refused == \/ ~SafeName(entry)
                   \/ entry.kind # "dir" /\ s.written + entry.declared > maxBytes
    IN CASE refused -> [s EXCEPT !.ok = FALSE]
         [] ~refused /\ entry.kind = "dir"  -> s
         [] ~refused /\ entry.kind = "link" -> Linked(s, entry)
         [] ~refused /\ entry.kind = "file" -> Written(s, entry)

(* Onto what the destination has already.                                  *)
Extract(archive, files, maxBytes, maxEntries) ==
    LET n == Len(archive.entries)
        start == [ok |-> archive.zip /\ n \in 1..maxEntries, written |-> 0, files |-> files]
        after[i \in 0..n] ==
          IF i = 0 \/ ~start.ok THEN start
          ELSE IF after[i - 1].ok
               THEN Unpack(after[i - 1], archive.entries[i], maxBytes)
               ELSE after[i - 1]
    IN after[n]

=============================================================================
