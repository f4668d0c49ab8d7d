------------------------ MODULE Environment_proofs ------------------------
(***************************************************************************)
(* With one command at a time, and a user who waits for its end, JAVA_HOME *)
(* is never lost: see JavaHomeIsOnRecord and UndoGivesBack; the settings   *)
(* and the other entries of Path stay as they are, and a command that ends *)
(* well is complete.  The invariants say what the command that is under way*)
(* has read, and that it is still so when it writes.  What a removal from  *)
(* Path leaves is a recursive function of its entries, of which the first  *)
(* lemmas prove, by induction, what the rest needs.                        *)
(***************************************************************************)
EXTENDS Environment, FiniteSetTheorems, TLAPS

-----------------------------------------------------------------------------
(* Sequences.                                                              *)

(* The library states induction with an operator as its parameter; of a    *)
(* set of numbers it follows from the order of the naturals being well     *)
(* founded.                                                                *)
LEMMA NatSetInduction ==
    ASSUME NEW S, 0 \in S, \A n \in Nat : n \in S => n + 1 \in S
    PROVE  Nat \subseteq S
<1> DEFINE T == Nat \ S
<1>1. SUFFICES ASSUME T # {} PROVE FALSE
  OBVIOUS
<1>2. PICK n \in T : \A m \in T : <<m, n>> \notin OpToRel(<, Nat)
  BY <1>1, NatLessThanWellFounded, WFMin
<1>3. n \in Nat \ {0} /\ n - 1 \in Nat
  OBVIOUS
<1>4. <<n - 1, n>> \in OpToRel(<, Nat)
  BY <1>3 DEF OpToRel
<1>5. n - 1 \notin T
  BY <1>2, <1>4
<1> QED  BY <1>3, <1>5

(* f is the function that Without(s, E) is read off, up to n.              *)
Filters(f, s, E, n) ==
    f = [i \in 0 .. n |->
           IF i = 0 THEN <<>>
           ELSE IF s[i] \in E THEN f[i - 1] ELSE Append(f[i - 1], s[i])]

(* There is one: that of n + 1 is that of n, and one entry more.           *)
LEMMA FilterExists ==
    ASSUME NEW s, NEW E
    PROVE  \A n \in Nat : \E f : Filters(f, s, E, n)
<1> DEFINE S == {n \in Nat : \E f : Filters(f, s, E, n)}
<1>1. 0 \in S
  <2>1. Filters([i \in 0 .. 0 |-> <<>>], s, E, 0)
    BY DEF Filters
  <2> QED BY <2>1
<1>2. ASSUME NEW n \in Nat, n \in S
      PROVE  n + 1 \in S
  <2>1. PICK f : Filters(f, s, E, n)
    BY <1>2
  <2> DEFINE g == [i \in 0 .. n + 1 |->
                     IF i = n + 1
                     THEN IF s[i] \in E THEN f[n] ELSE Append(f[n], s[i])
                     ELSE f[i]]
  <2>2. \A i \in 0 .. n : g[i] = f[i]
    OBVIOUS
  <2>3. \A i \in 0 .. n : g[i] = IF i = 0 THEN <<>>
           ELSE IF s[i] \in E THEN g[i - 1] ELSE Append(g[i - 1], s[i])
    <3> SUFFICES ASSUME NEW i \in 0 .. n PROVE g[i] = IF i = 0 THEN <<>>
           ELSE IF s[i] \in E THEN g[i - 1] ELSE Append(g[i - 1], s[i])
      OBVIOUS
    <3> HIDE DEF g
    <3>1. f[i] = IF i = 0 THEN <<>>
           ELSE IF s[i] \in E THEN f[i - 1] ELSE Append(f[i - 1], s[i])
      BY <2>1 DEF Filters
    <3>2. i # 0 => i - 1 \in 0 .. n
      OBVIOUS
    <3> QED BY <2>2, <3>1, <3>2
  <2>4. Filters(g, s, E, n + 1)
    BY <2>2, <2>3 DEF Filters
  <2> HIDE DEF g
  <2> QED BY <2>4
<1> HIDE DEF S
<1>3. Nat \subseteq S
  BY <1>1, <1>2, NatSetInduction
<1> QED BY <1>3 DEF S

(* So the recursive definition has the values that its equation says.      *)
LEMMA WithoutUnfolds ==
    ASSUME NEW s, NEW E, Len(s) \in Nat
    PROVE  \E f : Filters(f, s, E, Len(s)) /\ Without(s, E) = f[Len(s)]
<1> DEFINE F == CHOOSE f : Filters(f, s, E, Len(s))
<1>1. Filters(F, s, E, Len(s))
  BY FilterExists
<1>2. Without(s, E) = F[Len(s)]
  BY DEF Without, Filters
<1> QED BY <1>1, <1>2

(* One step of the filter.                                                 *)
LEMMA FiltersStep ==
    ASSUME NEW f, NEW s, NEW E, NEW n \in Nat, Filters(f, s, E, n)
    PROVE  /\ f[0] = <<>>
           /\ \A i \in Nat : i < n =>
                f[i + 1] = IF s[i + 1] \in E THEN f[i] ELSE Append(f[i], s[i + 1])
<1>1. f[0] = <<>>
  BY DEF Filters
<1>2. ASSUME NEW i \in Nat, i < n
      PROVE  f[i + 1] = IF s[i + 1] \in E THEN f[i] ELSE Append(f[i], s[i + 1])
  <2>1. i + 1 \in 0 .. n /\ i + 1 # 0 /\ (i + 1) - 1 = i
    BY <1>2
  <2>2. f[i + 1] = IF s[i + 1] \in E THEN f[(i + 1) - 1] ELSE Append(f[(i + 1) - 1], s[i + 1])
    BY <2>1 DEF Filters
  <2> QED BY <2>1, <2>2
<1> QED BY <1>1, <1>2

(* What is left has none of the entries that were to go, and nothing else  *)
(* than s had.                                                             *)
LEMMA WithoutType ==
    ASSUME NEW D, NEW s \in Seq(D), NEW E
    PROVE  Without(s, E) \in Seq(D \ E)
<1>1. PICK f : Filters(f, s, E, Len(s)) /\ Without(s, E) = f[Len(s)]
  BY WithoutUnfolds
<1> DEFINE S == {n \in Nat : n <= Len(s) => f[n] \in Seq(D \ E)}
<1>2. 0 \in S
  BY <1>1 DEF Filters
<1>3. ASSUME NEW n \in Nat, n \in S
      PROVE  n + 1 \in S
  <2>1. SUFFICES ASSUME n + 1 <= Len(s)
                 PROVE  f[n + 1] \in Seq(D \ E)
    OBVIOUS
  <2>2. n + 1 \in 0 .. Len(s) /\ s[n + 1] \in D /\ f[n] \in Seq(D \ E)
    BY <1>3, <2>1
  <2>3. f[n + 1] = IF s[n + 1] \in E THEN f[n] ELSE Append(f[n], s[n + 1])
    BY <1>1, <2>1, FiltersStep
  <2>4. CASE s[n + 1] \in E
    BY <2>2, <2>3, <2>4
  <2>5. CASE s[n + 1] \notin E
    <3>1. s[n + 1] \in D \ E
      BY <2>2, <2>5
    <3> QED BY <2>2, <2>3, <2>5, <3>1
  <2> QED BY <2>4, <2>5
<1> HIDE DEF S
<1>4. Nat \subseteq S
  BY <1>2, <1>3, NatSetInduction
<1>5. Len(s) \in S
  BY <1>4
<1> QED BY <1>1, <1>5 DEF S

(* An entry in front that is to go changes nothing of what is left.        *)
LEMMA WithoutCons ==
    ASSUME NEW D, NEW s \in Seq(D), NEW E, NEW x \in D \cap E
    PROVE  Without(<<x>> \o s, E) = Without(s, E)
<1> DEFINE t == <<x>> \o s
<1>1. t \in Seq(D) /\ Len(t) = Len(s) + 1 /\ t[1] = x
      /\ \A i \in 1 .. Len(s) : t[i + 1] = s[i]
  OBVIOUS
<1> HIDE DEF t
<1>2. PICK f : Filters(f, s, E, Len(s)) /\ Without(s, E) = f[Len(s)]
  BY WithoutUnfolds
<1>3. PICK g : Filters(g, t, E, Len(t)) /\ Without(t, E) = g[Len(t)]
  BY <1>1, WithoutUnfolds
<1> DEFINE S == {n \in Nat : n <= Len(s) => g[n + 1] = f[n]}
<1>4. 0 \in S
  BY <1>1, <1>2, <1>3 DEF Filters
<1>5. ASSUME NEW n \in Nat, n \in S
      PROVE  n + 1 \in S
  <2>1. SUFFICES ASSUME n + 1 <= Len(s)
                 PROVE  g[n + 2] = f[n + 1]
    OBVIOUS
  <2>2. f[n + 1] = IF s[n + 1] \in E THEN f[n] ELSE Append(f[n], s[n + 1])
    BY <1>2, <2>1, FiltersStep
  <2>3. g[n + 2] = IF t[n + 2] \in E THEN g[n + 1] ELSE Append(g[n + 1], t[n + 2])
    <3>1. n + 1 \in Nat /\ n + 1 < Len(t) /\ (n + 1) + 1 = n + 2
      BY <1>1, <2>1
    <3> QED BY <1>1, <1>3, <3>1, FiltersStep
  <2>4. t[n + 2] = s[n + 1]
    BY <1>1, <2>1
  <2> QED BY <1>5, <2>1, <2>2, <2>3, <2>4
<1> HIDE DEF S
<1>6. Nat \subseteq S
  BY <1>4, <1>5, NatSetInduction
<1>7. g[Len(s) + 1] = f[Len(s)]
  BY <1>6 DEF S
<1> QED BY <1>1, <1>2, <1>3, <1>7 DEF t

(* Where nothing is to go all is left.                                     *)
LEMMA WithoutNone ==
    ASSUME NEW D, NEW s \in Seq(D), NEW E, D \cap E = {}
    PROVE  Without(s, E) = s
<1>1. PICK f : Filters(f, s, E, Len(s)) /\ Without(s, E) = f[Len(s)]
  BY WithoutUnfolds
<1> DEFINE S == {n \in Nat : n <= Len(s) => f[n] = SubSeq(s, 1, n)}
<1>2. 0 \in S
  BY <1>1 DEF Filters
<1>3. ASSUME NEW n \in Nat, n \in S
      PROVE  n + 1 \in S
  <2>1. SUFFICES ASSUME n + 1 <= Len(s)
                 PROVE  f[n + 1] = SubSeq(s, 1, n + 1)
    OBVIOUS
  <2>2. f[n + 1] = IF s[n + 1] \in E THEN f[n] ELSE Append(f[n], s[n + 1])
    BY <1>1, <2>1, FiltersStep
  <2>3. s[n + 1] \in D /\ f[n] = SubSeq(s, 1, n)
    BY <1>3, <2>1
  <2>4. Append(SubSeq(s, 1, n), s[n + 1]) = SubSeq(s, 1, n + 1)
    BY <2>1
  <2> QED BY <2>2, <2>3, <2>4
<1> HIDE DEF S
<1>4. Nat \subseteq S
  BY <1>2, <1>3, NatSetInduction
<1>5. f[Len(s)] = SubSeq(s, 1, Len(s))
  BY <1>4 DEF S
<1> QED BY <1>1, <1>5
(* A removal from Path leaves entries, and so does a prepend.              *)
LEMMA PathTypes ==
    ASSUME NEW s \in Seq(Entries)
    PROVE  /\ \A E : Without(s, E) \in Seq(Entries)
           /\ \A e \in Entries : <<e>> \o s \in Seq(Entries)
           /\ \A e \in Entries : Append(s, e) \in Seq(Entries)
<1>1. ASSUME NEW E
      PROVE  Without(s, E) \in Seq(Entries)
  <2>1. Without(s, E) \in Seq(Entries \ E)
    BY WithoutType
  <2> QED  BY <2>1
<1> QED  BY <1>1

-----------------------------------------------------------------------------
(* JAVA_HOME.                                                              *)

OneAtATime == UserWaits /\ \A p, q \in Procs : p = q

(* What a setup displaces is what it saw, and is on record when it writes. *)
SetupKnows(p) ==
    /\ pc[p] = "backup" => seen[p] = home
    /\ pc[p] = "home" => home # "junction" /\ backup = users

(* What an undo gives back is what it read, and it is done with JAVA_HOME  *)
(* before it touches the backup.                                           *)
UndoKnows(p) ==
    /\ pc[p] \in {"restore", "give"} => kept[p] = backup
    /\ pc[p] = "give" => home = "junction"
    /\ pc[p] \in {"clear", "unpath", "unpathSet", "purge"} => home # "junction"
    /\ pc[p] = "purge" => cmd[p] = "purge"

HomeInv ==
    /\ TypeOK
    /\ UndoGivesBack
    /\ JavaHomeIsOnRecord
    /\ \A p \in Procs : SetupKnows(p) /\ UndoKnows(p)

LEMMA HomeStep ==
    ASSUME OneAtATime, HomeInv, [Next]_vars
    PROVE  HomeInv'
<1> USE EnvironmentAssumption DEF HomeInv, TypeOK, SetupKnows, UndoKnows,
        UndoGivesBack, JavaHomeIsOnRecord, OneAtATime, Backups, PCs, Goto, registry, config, own
<1>1. ASSUME NEW p \in Procs, NEW c \in Commands, Begin(p, c)
      PROVE  HomeInv'
  BY <1>1 DEF Begin, Forget
<1>2. ASSUME NEW p \in Procs, Load(p) \/ Keep(p) \/ RestoreRead(p)
      PROVE  HomeInv'
  BY <1>2 DEF Load, Keep, RestoreRead
<1>3. ASSUME NEW p \in Procs, See(p)
      PROVE  HomeInv'
  BY <1>3 DEF See
<1>4. ASSUME NEW p \in Procs, BackUp(p)
      PROVE  HomeInv'
  BY <1>4 DEF BackUp, Emit
<1>5. ASSUME NEW p \in Procs, SetHome(p) \/ GiveBack(p)
      PROVE  HomeInv'
  BY <1>5 DEF SetHome, GiveBack
<1>6. ASSUME NEW p \in Procs, PrependRead(p) \/ PrependWrite(p)
      PROVE  HomeInv'
  <2>1. ASSUME PrependRead(p)
        PROVE  HomeInv'
    BY <2>1 DEF PrependRead, Ours
  <2>2. ASSUME PrependWrite(p)
        PROVE  HomeInv'
    <3>1. path' \in Seq(Entries)
      <4>1. raw[p] \in Seq(Entries) /\ "bin" \in Entries /\ "shims" \in Entries
        BY DEF Entries, Ours
      <4>2. <<"bin">> \o raw[p] \in Seq(Entries) /\ <<"shims">> \o raw[p] \in Seq(Entries)
        BY <4>1, PathTypes
      <4> QED  BY <2>2, <4>2 DEF PrependWrite
    <3>2. CASE pc[p] = "binSet"
      BY <2>2, <3>1, <3>2 DEF PrependWrite
    <3>3. CASE pc[p] = "shimsSet"
      BY <2>2, <3>1, <3>3 DEF PrependWrite
    <3> QED  BY <2>2, <3>2, <3>3 DEF PrependWrite
  <2> QED  BY <1>6, <2>1, <2>2
<1>7. ASSUME NEW p \in Procs, UnpathRead(p) \/ UnpathWrite(p)
      PROVE  HomeInv'
  <2>1. ASSUME UnpathRead(p)
        PROVE  HomeInv'
    BY <2>1 DEF UnpathRead, AfterPath
  <2>2. ASSUME UnpathWrite(p)
        PROVE  HomeInv'
    <3>1. path' \in Seq(Entries)
      BY <2>2, PathTypes DEF UnpathWrite
    <3> QED  BY <2>2, <3>1 DEF UnpathWrite, AfterPath
  <2> QED  BY <1>7, <2>1, <2>2
<1>8. ASSUME NEW p \in Procs, Clear(p) \/ Purge(p)
      PROVE  HomeInv'
  BY <1>8 DEF Clear, Purge, Emit
<1>9. ASSUME NEW p \in Procs, Stop(p)
      PROVE  HomeInv'
  BY <1>9 DEF Stop, Forget
<1>10. ASSUME NEW v \in Backups, UserHome(v)
       PROVE  HomeInv'
  BY <1>10 DEF UserHome, MayChange, Quiet
<1>11. ASSUME NEW e \in Entries, UserPath(e)
       PROVE  HomeInv'
  <2>1. path' \in Seq(Entries)
    <3> DEFINE others == Without(path, {e})
    <3>1. others \in Seq(Entries)
      BY PathTypes
    <3> HIDE DEF others
    <3>2. path' \in {others, <<e>> \o others, Append(others, e), Append(path, e)}
      BY <1>11 DEF UserPath, others
    <3>3. /\ <<e>> \o others \in Seq(Entries)
          /\ Append(others, e) \in Seq(Entries)
          /\ Append(path, e) \in Seq(Entries)
      BY <3>1, PathTypes
    <3> QED  BY <3>1, <3>2, <3>3
  <2>2. UNCHANGED <<home, users, settings, backup, pc, cmd, loaded, kept, seen, raw>>
    BY <1>11 DEF UserPath
  <2> QED  BY <2>1, <2>2
<1>12. ASSUME NEW s \in Settings, UserSettings(s)
       PROVE  HomeInv'
  BY <1>12 DEF UserSettings
<1>13. CASE UNCHANGED vars
  BY <1>13 DEF vars
<1> QED
  BY <1>1, <1>2, <1>3, <1>4, <1>5, <1>6, <1>7, <1>8, <1>9, <1>10, <1>11,
     <1>12, <1>13 DEF Next, Step

LEMMA HomeInvariant ==
    ASSUME OneAtATime
    PROVE  Spec => []HomeInv
<1>1. ASSUME Init
      PROVE  HomeInv
  <2>1. path \in Seq(Entries) /\ \A p \in Procs : raw[p] \in Seq(Entries)
    <3>1. <<>> \in Seq(Entries) /\ \A d \in Dirs : <<d>> \in Seq(Entries)
      BY DEF Entries
    <3> QED  BY <1>1, <3>1 DEF Init
  <2> QED  BY <1>1, <2>1, EnvironmentAssumption DEF Init, HomeInv, TypeOK,
              SetupKnows, UndoKnows, UndoGivesBack, JavaHomeIsOnRecord,
              Backups, PCs, AllCommands
<1>2. HomeInv /\ [Next]_vars => HomeInv'
  BY HomeStep
<1> QED  BY <1>1, <1>2, PTL DEF Spec

(* For any processes, values and settings the variables have their types.  *)
THEOREM Typing ==
    ASSUME OneAtATime
    PROVE  Spec => []TypeOK
<1>1. HomeInv => TypeOK
  BY DEF HomeInv
<1> QED  BY <1>1, HomeInvariant, PTL

(* The JAVA_HOME that a setup displaces is on record as long as the        *)
(* junction is there, wherever the command is refused or dies.             *)
THEOREM NothingIsLost ==
    ASSUME OneAtATime
    PROVE  Spec => []JavaHomeIsOnRecord
<1>1. HomeInv => JavaHomeIsOnRecord
  BY DEF HomeInv
<1> QED  BY <1>1, HomeInvariant, PTL

(* And an undo gives exactly that back, whatever setups and undos, refused *)
(* or dead at any call, went before.                                       *)
THEOREM UndoRestores ==
    ASSUME OneAtATime
    PROVE  Spec => []UndoGivesBack
<1>1. HomeInv => UndoGivesBack
  BY DEF HomeInv
<1> QED  BY <1>1, HomeInvariant, PTL

-----------------------------------------------------------------------------
(* The settings and Path.                                                  *)

SetupPCs == {"see", "backup", "home", "bin", "binSet", "shims", "shimsSet"}
UndoPCs  == {"kept", "restore", "give", "clear", "unpath", "unpathSet", "purge"}

(* The settings that a command writes back are the ones that are there,    *)
(* until a purge resets them.                                              *)
CommandKnows(p) ==
    /\ pc[p] \in SetupPCs => cmd[p] = "setup"
    /\ pc[p] \in UndoPCs  => cmd[p] # "setup"
    /\ pc[p] \in (SetupPCs \cup UndoPCs) \ {"purge"} => loaded[p] = settings

(* What a write of Path starts from is Path, an entry is only prepended    *)
(* where it is missing, and each call of the command leaves its part done. *)
PathKnows(p) ==
    /\ pc[p] \in {"bin", "binSet", "shims", "shimsSet"} => home = "junction"
    /\ pc[p] \in {"binSet", "shimsSet", "unpathSet"} => raw[p] = path
    /\ pc[p] = "binSet" => ~Listed("bin", path)
    /\ pc[p] \in {"shims", "shimsSet"} => Listed("bin", path)
    /\ pc[p] = "shimsSet" => ~Listed("shims", path)
    /\ pc[p] = "purge" => \A e \in Ours : ~Listed(e, path)

PathInv == \A p \in Procs : CommandKnows(p) /\ PathKnows(p)

(* What is in Path after a prepend, and after a removal.                   *)
LEMMA ListedCons ==
    ASSUME NEW s \in Seq(Entries), NEW x \in Entries, NEW e
    PROVE  Listed(e, <<x>> \o s) <=> e = x \/ Listed(e, s)
<1> DEFINE t == <<x>> \o s
<1>1. /\ Len(t) = Len(s) + 1 /\ DOMAIN t = 1 .. Len(t) /\ t[1] = x
      /\ \A i \in 1 .. Len(s) : t[i + 1] = s[i]
      /\ DOMAIN s = 1 .. Len(s) /\ Len(s) \in Nat
  OBVIOUS
<1> HIDE DEF t
<1>2. ASSUME Listed(e, t)
      PROVE  e = x \/ Listed(e, s)
  <2>1. PICK i \in 1 .. Len(t) : t[i] = e
    BY <1>1, <1>2 DEF Listed
  <2>2. CASE i = 1
    BY <1>1, <2>1, <2>2
  <2>3. CASE i # 1
    <3>1. i - 1 \in 1 .. Len(s) /\ (i - 1) + 1 = i
      BY <1>1, <2>3
    <3> QED  BY <1>1, <2>1, <3>1 DEF Listed
  <2> QED  BY <2>2, <2>3
<1>3. ASSUME Listed(e, s)
      PROVE  Listed(e, t)
  <2>1. PICK i \in 1 .. Len(s) : s[i] = e
    BY <1>1, <1>3 DEF Listed
  <2>2. i + 1 \in DOMAIN t /\ t[i + 1] = e
    BY <1>1, <2>1
  <2> QED  BY <2>2 DEF Listed
<1>4. Listed(x, t)
  BY <1>1 DEF Listed
<1> QED  BY <1>2, <1>3, <1>4 DEF t

LEMMA NotListedWithout ==
    ASSUME NEW s \in Seq(Entries), NEW E, NEW e \in E
    PROVE  ~Listed(e, Without(s, E))
<1>1. Without(s, E) \in Seq(Entries \ E)
  BY WithoutType
<1> QED  BY <1>1 DEF Listed

LEMMA PathStep ==
    ASSUME OneAtATime, HomeInv, PathInv, [Next]_vars
    PROVE  PathInv'
<1> USE DEF PathInv, CommandKnows, PathKnows, SetupPCs, UndoPCs, Ours,
        HomeInv, TypeOK, OneAtATime, PCs, Goto, registry, config, own
<1>1. ASSUME NEW p \in Procs, NEW c \in Commands, Begin(p, c)
      PROVE  PathInv'
  BY <1>1 DEF Begin, Forget
<1>2. ASSUME NEW p \in Procs, Load(p) \/ Keep(p) \/ RestoreRead(p)
      PROVE  PathInv'
  BY <1>2 DEF Load, Keep, RestoreRead
<1>3. ASSUME NEW p \in Procs, See(p)
      PROVE  PathInv'
  BY <1>3 DEF See
<1>4. ASSUME NEW p \in Procs, BackUp(p)
      PROVE  PathInv'
  BY <1>4 DEF BackUp, Emit, SetupKnows
<1>5. ASSUME NEW p \in Procs, SetHome(p) \/ GiveBack(p)
      PROVE  PathInv'
  BY <1>5 DEF SetHome, GiveBack
<1>6. ASSUME NEW p \in Procs, PrependRead(p)
      PROVE  PathInv'
  BY <1>6 DEF PrependRead
<1>7. ASSUME NEW p \in Procs, PrependWrite(p)
      PROVE  PathInv'
  <2>1. CASE pc[p] = "binSet"
    <3>1. Listed("bin", path')
      <4>1. raw[p] \in Seq(Entries) /\ "bin" \in Entries
        BY DEF Entries
      <4>2. Listed("bin", <<"bin">> \o raw[p])
        BY <4>1, ListedCons
      <4> QED  BY <1>7, <2>1, <4>2 DEF PrependWrite
    <3> QED  BY <1>7, <2>1, <3>1 DEF PrependWrite
  <2>2. CASE pc[p] = "shimsSet"
    BY <1>7, <2>2 DEF PrependWrite
  <2> QED  BY <1>7, <2>1, <2>2 DEF PrependWrite
<1>8. ASSUME NEW p \in Procs, UnpathRead(p)
      PROVE  PathInv'
  BY <1>8 DEF UnpathRead, AfterPath
<1>9. ASSUME NEW p \in Procs, UnpathWrite(p)
      PROVE  PathInv'
  <2>1. \A e \in Ours : ~Listed(e, path')
    BY <1>9, NotListedWithout DEF UnpathWrite
  <2> QED  BY <1>9, <2>1 DEF UnpathWrite, AfterPath
<1>10. ASSUME NEW p \in Procs, Clear(p) \/ Purge(p)
       PROVE  PathInv'
  BY <1>10 DEF Clear, Purge, Emit
<1>11. ASSUME NEW p \in Procs, Stop(p)
       PROVE  PathInv'
  BY <1>11 DEF Stop, Forget
<1>12. ASSUME NEW v \in Backups, UserHome(v)
       PROVE  PathInv'
  BY <1>12 DEF UserHome, MayChange, Quiet
<1>13. ASSUME NEW e \in Entries, UserPath(e)
       PROVE  PathInv'
  BY <1>13 DEF UserPath, MayChange, Quiet
<1>14. ASSUME NEW s \in Settings, UserSettings(s)
       PROVE  PathInv'
  BY <1>14 DEF UserSettings, MayChange, Quiet
<1>15. CASE UNCHANGED vars
  BY <1>15 DEF vars
<1> QED
  BY <1>1, <1>2, <1>3, <1>4, <1>5, <1>6, <1>7, <1>8, <1>9, <1>10, <1>11,
     <1>12, <1>13, <1>14, <1>15 DEF Next, Step

LEMMA PathInvariant ==
    ASSUME OneAtATime
    PROVE  Spec => []PathInv
<1>1. Init => PathInv
  BY DEF Init, PathInv, CommandKnows, PathKnows, SetupPCs, UndoPCs
<1>2. HomeInv /\ PathInv /\ [Next]_vars => PathInv'
  BY PathStep, OneAtATime
<1> QED  BY <1>1, <1>2, HomeInvariant, OneAtATime, PTL DEF Spec

(* A rewrite of config.toml keeps what the user said there, unless it is a *)
(* purge's (config.rs:57-60, 114-118).                                     *)
THEOREM SettingsStay ==
    ASSUME OneAtATime
    PROVE  Spec => SettingsAreKept
<1>1. ASSUME HomeInv, PathInv, [Next]_vars
      PROVE  [settings' # settings
                => \/ \E s \in Settings : UserSettings(s)
                   \/ \E p \in Procs : pc[p] = "purge"]_vars
  <2>1. ASSUME NEW p \in Procs, BackUp(p) \/ Clear(p)
        PROVE  settings' = settings
    <3>1. pc[p] \in {"backup", "clear"} => loaded[p] = settings
      BY <1>1 DEF PathInv, CommandKnows, SetupPCs, UndoPCs
    <3> QED  BY <2>1, <3>1 DEF BackUp, Clear, Emit, config
  <2>2. ASSUME NEW p \in Procs, Purge(p)
        PROVE  pc[p] = "purge"
    BY <2>2 DEF Purge
  <2>3. ASSUME Next
        PROVE  \/ settings' = settings
               \/ \E s \in Settings : UserSettings(s)
               \/ \E p \in Procs : BackUp(p) \/ Clear(p) \/ Purge(p)
    BY <2>3 DEF Next, Step, Begin, Load, See, SetHome, PrependRead,
       PrependWrite, Keep, RestoreRead, GiveBack, UnpathRead, UnpathWrite,
       Stop, UserHome, UserPath, config
  <2> QED  BY <1>1, <2>1, <2>2, <2>3 DEF vars
<1> QED  BY <1>1, HomeInvariant, PathInvariant, OneAtATime, PTL
        DEF Spec, SettingsAreKept

(* The entries of other programs stay in Path, in their order, through     *)
(* every setup and every undo (env.rs:164-168, 215-225).                   *)
THEOREM OthersStay ==
    ASSUME OneAtATime
    PROVE  Spec => OthersAreKept
<1>1. ASSUME HomeInv, PathInv, [Next]_vars
      PROVE  [Theirs(path') # Theirs(path)
                => \E e \in Entries : UserPath(e)]_vars
  <2>1. ASSUME NEW p \in Procs, PrependWrite(p)
        PROVE  Theirs(path') = Theirs(path)
    <3>1. raw[p] = path /\ path \in Seq(Entries)
      BY <1>1, <2>1 DEF PrependWrite, PathInv, PathKnows, HomeInv, TypeOK
    <3>2. "bin" \in Entries \cap Ours /\ "shims" \in Entries \cap Ours
      BY DEF Entries, Ours
    <3>3. /\ Without(<<"bin">> \o path, Ours) = Without(path, Ours)
          /\ Without(<<"shims">> \o path, Ours) = Without(path, Ours)
      BY <3>1, <3>2, WithoutCons
    <3> QED  BY <2>1, <3>1, <3>3 DEF PrependWrite, Theirs
  <2>2. ASSUME NEW p \in Procs, UnpathWrite(p)
        PROVE  Theirs(path') = Theirs(path)
    <3>1. path' = Without(path, Ours) /\ path \in Seq(Entries)
      BY <1>1, <2>2 DEF UnpathWrite, PathInv, PathKnows, HomeInv, TypeOK
    <3>2. Without(path, Ours) \in Seq(Entries \ Ours)
      BY <3>1, WithoutType
    <3>3. Without(Without(path, Ours), Ours) = Without(path, Ours)
      BY <3>2, WithoutNone
    <3> QED  BY <3>1, <3>3 DEF Theirs
  <2>3. ASSUME Next
        PROVE  \/ path' = path
               \/ \E e \in Entries : UserPath(e)
               \/ \E p \in Procs : PrependWrite(p) \/ UnpathWrite(p)
    BY <2>3 DEF Next, Step, Begin, Load, See, BackUp, SetHome, PrependRead,
       Keep, RestoreRead, GiveBack, Clear, UnpathRead, Purge, Stop,
       UserHome, UserSettings, registry
  <2> QED  BY <1>1, <2>1, <2>2, <2>3 DEF vars
<1> QED  BY <1>1, HomeInvariant, PathInvariant, OneAtATime, PTL
        DEF Spec, OthersAreKept

-----------------------------------------------------------------------------
(* What doctor counts.                                                     *)

LEMMA CopiesType ==
    ASSUME NEW s \in Seq(Entries), NEW e
    PROVE  /\ Copies(e, s) \in Nat
           /\ Copies(e, s) = 0 <=> ~Listed(e, s)
<1> DEFINE places == {i \in DOMAIN s : s[i] = e}
<1>1. IsFiniteSet(places)
  <2>1. IsFiniteSet(1 .. Len(s))
    BY FS_Interval
  <2> QED  BY <2>1, FS_Subset
<1>2. Cardinality(places) \in Nat /\ (Cardinality(places) = 0 <=> places = {})
  BY <1>1, FS_CardinalityType, FS_EmptySet
<1> QED  BY <1>2 DEF Copies, Listed

(* A prepend adds one of its own entry and none of any other.              *)
LEMMA CopiesCons ==
    ASSUME NEW s \in Seq(Entries), NEW x \in Entries
    PROVE  /\ ~Listed(x, s) => Copies(x, <<x>> \o s) = 1
           /\ \A e : e # x => Copies(e, <<x>> \o s) = Copies(e, s)
<1> DEFINE t == <<x>> \o s
<1>1. /\ Len(t) = Len(s) + 1 /\ DOMAIN t = 1 .. Len(t) /\ t[1] = x
      /\ \A i \in 1 .. Len(s) : t[i + 1] = s[i]
      /\ DOMAIN s = 1 .. Len(s) /\ Len(s) \in Nat
  OBVIOUS
<1> HIDE DEF t
<1>2. ASSUME ~Listed(x, s)
      PROVE  Copies(x, t) = 1
  <2>1. ASSUME NEW i \in DOMAIN t, t[i] = x
        PROVE  i = 1
    <3>1. SUFFICES ASSUME i # 1
                   PROVE  FALSE
      OBVIOUS
    <3>2. i - 1 \in 1 .. Len(s) /\ (i - 1) + 1 = i
      BY <1>1, <3>1
    <3> QED  BY <1>1, <1>2, <2>1, <3>2 DEF Listed
  <2>2. {i \in DOMAIN t : t[i] = x} = {1}
    BY <1>1, <2>1
  <2> QED  BY <2>2, FS_Singleton DEF Copies
<1>3. ASSUME NEW e, e # x
      PROVE  Copies(e, t) = Copies(e, s)
  <2> DEFINE S == {i \in DOMAIN s : s[i] = e}
             T == {i \in DOMAIN t : t[i] = e}
             f == [i \in S |-> i + 1]
  <2>1. IsFiniteSet(S)
    <3>1. IsFiniteSet(1 .. Len(s))
      BY <1>1, FS_Interval
    <3> QED  BY <1>1, <3>1, FS_Subset
  <2>2. \A i \in S : i + 1 \in T
    BY <1>1
  <2>3. \A j \in T : \E i \in S : j = i + 1
    <3>1. SUFFICES ASSUME NEW j \in T
                   PROVE  \E i \in S : j = i + 1
      OBVIOUS
    <3>2. j # 1
      BY <1>1, <1>3
    <3>3. j - 1 \in 1 .. Len(s) /\ (j - 1) + 1 = j
      BY <1>1, <3>2
    <3>4. j - 1 \in S
      BY <1>1, <3>3
    <3> QED  BY <3>3, <3>4
  <2>4. S \subseteq Nat
    BY <1>1
  <2> HIDE DEF S, T
  <2>5. f \in [S -> T]
    BY <2>2
  <2>6. f \in Injection(S, T)
    BY <2>4, <2>5 DEF Injection, IsInjective
  <2>7. f \in Surjection(S, T)
    BY <2>3, <2>5 DEF Surjection
  <2>8. ExistsBijection(S, T)
    BY <2>6, <2>7 DEF ExistsBijection, Bijection
  <2>9. Cardinality(T) = Cardinality(S)
    BY <2>1, <2>8, FS_Bijection
  <2> QED  BY <2>9 DEF Copies, S, T
<1> QED  BY <1>2, <1>3 DEF t

(* What a step of a command owes: see SuccessIsComplete.                   *)
Complete(p) ==
    /\ cmd[p] = "setup" /\ pc'[p] = "done"
         => \A r \in Remedies' : r[1] # "jdk setup"
    /\ cmd[p] = "setup" => Remedies' \subseteq Remedies
    /\ cmd[p] # "setup" /\ pc'[p] = "done"
         => home' # "junction" /\ \A e \in Ours : ~Listed(e, path')

(* Where JAVA_HOME and both entries are in place, doctor sends nobody back *)
(* to setup.                                                               *)
LEMMA NothingForSetup ==
    ASSUME path' \in Seq(Entries), home' = "junction",
           \A e \in Ours : Listed(e, path')
    PROVE  \A r \in Remedies' : r[1] # "jdk setup"
<1>1. HomeRemedy' = {}
  BY EnvironmentAssumption DEF HomeRemedy
<1>2. ASSUME NEW e \in Ours, NEW r \in PathRemedy(e)'
      PROVE  r[1] # "jdk setup"
  <2>1. Copies(e, path') # 0
    BY CopiesType
  <2>2. PathRemedy(e)' \in {{}, {<<"keep a single", e>>}}
    BY <2>1 DEF PathRemedy
  <2>3. r = <<"keep a single", e>>
    BY <1>2, <2>2
  <2> QED  BY <2>3
<1> QED  BY <1>1, <1>2 DEF Remedies, Ours

(* The steps that touch neither JAVA_HOME nor Path leave doctor's advice   *)
(* as it was.                                                              *)
LEMMA SameAdvice ==
    ASSUME UNCHANGED <<home, path>>
    PROVE  Remedies' = Remedies
  BY DEF Remedies, HomeRemedy, PathRemedy

(* A prepend of an entry that is not there yet removes one remedy, and     *)
(* brings none.                                                            *)
LEMMA PrependAdvice ==
    ASSUME path \in Seq(Entries), NEW x \in Ours, ~Listed(x, path),
           path' = <<x>> \o path, home' = home
    PROVE  Remedies' \subseteq Remedies
<1>1. x \in Entries
  BY DEF Entries
<1>2. Copies(x, path') = 1
  BY <1>1, CopiesCons
<1>3. \A e \in Ours \ {x} : Copies(e, path') = Copies(e, path)
  BY <1>1, CopiesCons
<1>4. PathRemedy(x)' = {}
  BY <1>2 DEF PathRemedy
<1>5. \A e \in Ours \ {x} : PathRemedy(e)' = PathRemedy(e)
  BY <1>3 DEF PathRemedy
<1>6. HomeRemedy' = HomeRemedy
  BY DEF HomeRemedy
<1> QED  BY <1>4, <1>5, <1>6 DEF Remedies, Ours

LEMMA StepCompletes ==
    ASSUME HomeInv, PathInv, NEW p \in Procs, Step(p)
    PROVE  Complete(p)
<1> USE DEF Complete, PathInv, CommandKnows, PathKnows, SetupPCs, UndoPCs,
        HomeInv, TypeOK, Goto
<1>1. CASE Load(p) \/ See(p) \/ BackUp(p) \/ Keep(p) \/ RestoreRead(p) \/ Clear(p)
  <2>1. UNCHANGED <<home, path>>
    BY <1>1 DEF Load, See, BackUp, Keep, RestoreRead, Clear, registry
  <2>2. pc'[p] # "done"
    BY <1>1 DEF Load, See, BackUp, Keep, RestoreRead, Clear
  <2> QED  BY <2>1, <2>2, SameAdvice
<1>2. CASE PrependRead(p)
  <2>1. UNCHANGED <<home, path>> /\ cmd[p] = "setup" /\ home = "junction"
    BY <1>2 DEF PrependRead, Ours, registry
  <2>2. ASSUME pc'[p] = "done"
        PROVE  \A e \in Ours : Listed(e, path)
    BY <1>2, <2>2 DEF PrependRead, Ours
  <2>3. pc'[p] = "done" => \A r \in Remedies' : r[1] # "jdk setup"
    BY <2>1, <2>2, NothingForSetup
  <2> QED  BY <2>1, <2>3, SameAdvice
<1>3. CASE SetHome(p)
  <2>1. pc'[p] # "done" /\ path' = path /\ home' = "junction" /\ cmd[p] = "setup"
    BY <1>3 DEF SetHome
  <2>2. HomeRemedy' = {}
    BY <2>1, EnvironmentAssumption DEF HomeRemedy
  <2>3. \A e : PathRemedy(e)' = PathRemedy(e)
    BY <2>1 DEF PathRemedy
  <2> QED  BY <2>1, <2>2, <2>3 DEF Remedies
<1>4. CASE GiveBack(p)
  BY <1>4 DEF GiveBack
<1>5. CASE PrependWrite(p)
  <2>1. /\ raw[p] = path /\ home' = home /\ home = "junction"
        /\ cmd[p] = "setup" /\ path \in Seq(Entries)
    BY <1>5 DEF PrependWrite
  <2>2. CASE pc[p] = "binSet"
    <3>1. path' = <<"bin">> \o path /\ ~Listed("bin", path) /\ pc'[p] # "done"
      BY <1>5, <2>1, <2>2 DEF PrependWrite
    <3> QED  BY <2>1, <3>1, PrependAdvice DEF Ours
  <2>3. CASE pc[p] = "shimsSet"
    <3>1. /\ path' = <<"shims">> \o path
          /\ ~Listed("shims", path) /\ Listed("bin", path)
      BY <1>5, <2>1, <2>3 DEF PrependWrite
    <3>2. Remedies' \subseteq Remedies
      BY <2>1, <3>1, PrependAdvice DEF Ours
    <3>3. "shims" \in Entries /\ "bin" \in Entries
      BY DEF Entries, Ours
    <3>4. \A e \in Ours : Listed(e, path')
      BY <2>1, <3>1, <3>3, ListedCons DEF Ours
    <3>5. path' \in Seq(Entries)
      BY <2>1, <3>1, <3>3
    <3> QED  BY <2>1, <3>2, <3>4, <3>5, NothingForSetup
  <2> QED  BY <1>5, <2>2, <2>3 DEF PrependWrite
<1>6. CASE UnpathRead(p)
  <2>1. UNCHANGED <<home, path>> /\ home # "junction" /\ cmd[p] # "setup"
    BY <1>6 DEF UnpathRead, UndoKnows, registry
  <2>2. pc'[p] = "done" => \A e \in Ours : ~Listed(e, path)
    BY <1>6 DEF UnpathRead
  <2> QED  BY <2>1, <2>2
<1>7. CASE UnpathWrite(p)
  <2>1. home' = home /\ home # "junction" /\ cmd[p] # "setup"
    BY <1>7 DEF UnpathWrite, UndoKnows
  <2>2. \A e \in Ours : ~Listed(e, path')
    BY <1>7, NotListedWithout DEF UnpathWrite
  <2> QED  BY <2>1, <2>2
<1>8. CASE Purge(p)
  BY <1>8 DEF Purge, UndoKnows, registry
<1> QED
  BY <1>1, <1>2, <1>3, <1>4, <1>5, <1>6, <1>7, <1>8 DEF Step

(* `jdk setup` is the remedy it is said to be, no setup makes anything     *)
(* worse, and an undo that ends well leaves none of jdk's values           *)
(* (setup.rs:58-75, undo.rs:69-105, doctor.rs:250-363).                    *)
THEOREM CommandsAreComplete ==
    ASSUME OneAtATime
    PROVE  Spec => SuccessIsComplete
<1>1. ASSUME HomeInv, PathInv, [Next]_vars
      PROVE  [\A p \in Procs :
                pc[p] # "idle" /\ pc'[p] # pc[p] => Complete(p)]_vars
  <2>1. SUFFICES ASSUME NEW p \in Procs, pc[p] # "idle", pc'[p] # pc[p]
                 PROVE  Complete(p)
    OBVIOUS
  <2>2. CASE Step(p)
    BY <1>1, <2>2, StepCompletes
  <2>3. ASSUME NEW c \in Commands, Begin(p, c)
        PROVE  Complete(p)
    <3>1. UNCHANGED <<home, path>> /\ pc'[p] # "done"
      BY <1>1, <2>3 DEF Begin, Goto, registry, HomeInv, TypeOK
    <3> QED  BY <3>1, SameAdvice DEF Complete
  <2>4. CASE Stop(p)
    <3>1. UNCHANGED <<home, path>> /\ pc'[p] # "done"
      BY <1>1, <2>4 DEF Stop, Goto, registry, HomeInv, TypeOK
    <3> QED  BY <3>1, SameAdvice DEF Complete
  <2>5. \/ \E c \in Commands : Begin(p, c)
        \/ Step(p) \/ Stop(p)
    <3>1. Next
      BY <1>1, <2>1 DEF vars
    <3> QED  BY <2>1, <3>1, OneAtATime
             DEF Next, OneAtATime, UserHome, UserPath, UserSettings
  <2> QED  BY <2>2, <2>3, <2>4, <2>5
<1> QED  BY <1>1, HomeInvariant, PathInvariant, OneAtATime, PTL
        DEF Spec, SuccessIsComplete, Complete

=============================================================================
