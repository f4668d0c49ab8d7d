----------------------------- MODULE Shim_proofs -----------------------------
(***************************************************************************)
(* What `java` runs, for any number of commands at a time, of directories, *)
(* of formats and of packages.  The module has two invariants.             *)
(*                                                                         *)
(* ShimInv needs no calm: pin files, configuration, store and global JDK   *)
(* change at any time.  It says what the walk has passed (Walk), and that  *)
(* what is to run answers the pin (Pins).  The walk's view then decides as *)
(* the files do (WalkDecides), what answers a pin is of its line           *)
(* (MatchingIsOfTheLine), and that one JDK is the best follows from the    *)
(* order of versions being a strict total one (BeatsIsAnOrder) in a store  *)
(* that is finite.                                                         *)
(*                                                                         *)
(* KnowInv adds what a command knows as long as nobody else changes        *)
(* anything but by installing (Knows), AloneInv what it knows if no other  *)
(* command runs either (Alone).  Each action of a command is shown to keep *)
(* both of that command (Told), and of the others what an install leaves   *)
(* true.                                                                   *)
(***************************************************************************)
EXTENDS Shim, FiniteSetTheorems, SequenceTheorems, WellFoundedInduction,
        NaturalsInduction, TLAPS

-----------------------------------------------------------------------------

(* Induction over the naturals, of a set of numbers.                       *)
LEMMA NatSetInduction ==
    ASSUME NEW S, 0 \in S, \A n \in Nat : n \in S => n + 1 \in S
    PROVE  Nat \subseteq S
<1> DEFINE T == Nat \ S
<1>1. SUFFICES ASSUME T # {} PROVE FALSE
  OBVIOUS
<1>2. PICK n \in T : \A m \in T : <<m, n>> \notin OpToRel(<, Nat)
  BY <1>1, NatLessThanWellFounded, WFMin
<1>3. n \in Nat \ {0} /\ n - 1 \in Nat
  OBVIOUS
<1>4. <<n - 1, n>> \in OpToRel(<, Nat)
  BY <1>3 DEF OpToRel
<1>5. n - 1 \notin T
  BY <1>2, <1>4
<1> QED  BY <1>3, <1>5

-----------------------------------------------------------------------------
(* ShimInv.                                                                *)

Ops == {"java", "install"} \cup Reports

Steps == {"idle", "settings", "cascade", "vendor", "global", "find", "policy", "ask",
          "spawn", "catalog", "terms", "install", "elect", "rescan", "exists", "launch"}

RunType ==
    [op : Ops, sel : Selectors \cup {NoPin}, tty : BOOLEAN, at : Places,
     view : [Places -> Contents \cup {Unread}], vendor : Vendors \cup {NoVendor},
     consent : BOOLEAN, pick : Jdks \cup {NoJdk}, edited : BOOLEAN]

ShimTyped ==
    /\ config \in Configs
    /\ installed \subseteq Jdks /\ IsFiniteSet(installed)
    /\ global \in Jdks \cup {NoJdk}
    /\ pc \in [Procs -> Steps]
    /\ run \in [Procs -> RunType]

(* Which command is where.                                                 *)
Doing(w, r) ==
    /\ w = "settings" => r.op \in Reports
    /\ w \in {"cascade", "vendor", "global", "find", "exists"} => r.op # "install"
    /\ w \in {"policy", "ask", "spawn", "rescan", "launch"} => r.op = "java"
    /\ w \in {"catalog", "terms", "install", "elect"} => r.op \in {"java", "install"}

(* The places that come before another in a walk.                          *)
Before(f, g) == f[1] < g[1] \/ (f[1] = g[1] /\ f[2] < g[2])

(* What the walk has passed pins nothing, and has no file in a directory   *)
(* below.                                                                  *)
Passed(at, view) ==
    \A f \in Places : Before(f, at) =>
        /\ view[f].kind \in {"absent", "silent"}
        /\ f[1] < at[1] => view[f].kind = "absent"

(* What is ahead of the walk is not read yet.                              *)
Ahead(at, view) == \A f \in Places : ~Before(f, at) => view[f] = Unread

(* Where a selector is gone by.                                            *)
Looking == {"vendor", "find", "policy", "ask", "spawn", "catalog", "terms", "install",
            "elect", "rescan"}

(* How far a walk has come, and what it has come to.                       *)
Walk(w, r) ==
    /\ w = "settings" => r.at = <<1, 1>> /\ r.view = NoView
    /\ w \in {"settings", "cascade", "global"} => r.sel = NoPin
    /\ w \in Looking => r.sel \in Selectors
    /\ w = "cascade" => Passed(r.at, r.view) /\ Ahead(r.at, r.view)
    /\ w = "vendor" =>
         /\ Passed(r.at, r.view)
         /\ r.view[r.at].kind = "pin" /\ r.view[r.at].sel = r.sel
    /\ w = "global" =>
         /\ Passed(r.at, r.view)
         /\ r.view[r.at].kind \in {"absent", "silent"}
         /\ EndsHere(r.at, r.view)

Answers(j, v, s) == j.vendor = v /\ Matches(Parse(j.version), Parse(s.version))

(* The vendor is the pinned one, what is to run answers the pin, and what  *)
(* is to be installed is a JDK.                                            *)
Pins(w, r) ==
    /\ w \notin {"idle", "settings", "cascade", "global", "vendor"} /\ r.op # "install" =>
         r.sel.vendor \in {NoVendor, r.vendor}
    /\ w \in {"exists", "launch"} /\ r.sel # NoPin => Answers(r.pick, r.vendor, r.sel)
    /\ w \in {"terms", "install", "elect"} => r.pick \in Jdks

Sound(w, r) == Doing(w, r) /\ Walk(w, r) /\ Pins(w, r)

ShimInv == ShimTyped /\ \A p \in Procs : Sound(pc[p], run[p])

-----------------------------------------------------------------------------

(* The first place, and the next one.                                      *)
LEMMA PlaceFacts ==
    /\ <<1, 1>> \in Places
    /\ \A f \in Places : f[1] \in 1..Depth /\ f[2] \in 1..Sources /\ f = <<f[1], f[2]>>
    /\ \A f \in Places : ~Before(f, <<1, 1>>) /\ ~Before(f, f)
BY ShimAssumption DEF Places, Before

(* A process that has nothing to do.                                       *)
LEMMA NoRunFacts == NoRun \in RunType /\ Sound("idle", NoRun)
<1>1. NoView \in [Places -> Contents \cup {Unread}]
  BY DEF NoView
<1>2. NoRun \in RunType
  BY <1>1, PlaceFacts DEF NoRun, RunType, Ops
<1> QED  BY <1>2 DEF Sound, Doing, Walk, Pins, Looking

(* One process moves, and finds what it finds.                             *)
LEMMA Moves ==
    ASSUME ShimInv, NEW p \in Procs, NEW w \in Steps, NEW r \in RunType, Sound(w, r),
           pc' = [pc EXCEPT ![p] = w],
           run' = [run EXCEPT ![p] = r]
    PROVE  /\ pc' \in [Procs -> Steps]
           /\ run' \in [Procs -> RunType]
           /\ \A q \in Procs : Sound(pc'[q], run'[q])
<1>1. pc \in [Procs -> Steps] /\ run \in [Procs -> RunType]
      /\ \A q \in Procs : Sound(pc[q], run[q])
  BY DEF ShimInv, ShimTyped
<1> QED  BY <1>1

(* The same when the surroundings do not change.                           *)
LEMMA MovesAlone ==
    ASSUME ShimInv, NEW p \in Procs, NEW w \in Steps, NEW r \in RunType, Sound(w, r),
           pc' = [pc EXCEPT ![p] = w],
           run' = [run EXCEPT ![p] = r],
           UNCHANGED env
    PROVE  ShimInv'
<1>1. /\ pc' \in [Procs -> Steps]
      /\ run' \in [Procs -> RunType]
      /\ \A q \in Procs : Sound(pc'[q], run'[q])
  BY Moves
<1> QED  BY <1>1 DEF ShimInv, ShimTyped, env

(* A process that goes on with what it knows, or ends.                     *)
LEMMA GoesOn ==
    ASSUME ShimInv, NEW p \in Procs, NEW w \in Steps, Sound(w, run[p]),
           Goto(p, w), UNCHANGED run, UNCHANGED env
    PROVE  ShimInv'
<1>1. run[p] \in RunType /\ run' = [run EXCEPT ![p] = run[p]]
  BY DEF ShimInv, ShimTyped
<1> QED  BY <1>1, MovesAlone DEF Goto

LEMMA Ends ==
    ASSUME ShimInv, NEW p \in Procs, NEW c, End(p, c), UNCHANGED env
    PROVE  ShimInv'
BY NoRunFacts, MovesAlone DEF End, Steps

-----------------------------------------------------------------------------

(* A process of the invariant.                                             *)
LEMMA TheRun ==
    ASSUME ShimInv, NEW p \in Procs
    PROVE  /\ run[p] \in RunType /\ pc[p] \in Steps /\ Sound(pc[p], run[p])
           /\ run[p].view \in [Places -> Contents \cup {Unread}]
           /\ run[p].at \in Places
BY DEF ShimInv, ShimTyped, RunType

(* The beginning of a command.                                             *)
LEMMA CommandStep ==
    ASSUME ShimInv, NEW p \in Procs,
           \/ \E t \in BOOLEAN :
                \/ BeginJava(p, t)
                \/ \E s \in Selectors, flag \in BOOLEAN : BeginInstall(p, s, flag, t)
           \/ \E c \in Reports : BeginReport(p, c)
    PROVE  ShimInv'
<1> USE DEF Sound, Doing, Walk, Pins, Looking, Passed, Ahead, Steps
<1>1. NoRun \in RunType
  BY NoRunFacts
<1>2. /\ \A f \in Places : NoView[f] = Unread /\ ~Before(f, <<1, 1>>)
      /\ NoRun.at = <<1, 1>> /\ NoRun.view = NoView /\ NoRun.sel = NoPin /\ NoRun.op = "java"
  BY PlaceFacts DEF NoRun, NoView
<1>3. ASSUME NEW t \in BOOLEAN, BeginJava(p, t)
      PROVE  ShimInv'
  <2> DEFINE r == [NoRun EXCEPT !.tty = t]
  <2>1. r \in RunType /\ r.op = "java" /\ r.at = <<1, 1>> /\ r.view = NoView /\ r.sel = NoPin
    BY <1>1, <1>2 DEF RunType
  <2> HIDE DEF r
  <2>2. Sound("cascade", r)
    BY <1>2, <2>1
  <2>3. pc' = [pc EXCEPT ![p] = "cascade"] /\ run' = [run EXCEPT ![p] = r] /\ UNCHANGED env
    BY <1>3, <2>1 DEF BeginJava, Start, r
  <2> HIDE DEF Sound
  <2> QED  BY <2>1, <2>2, <2>3, MovesAlone
<1>4. ASSUME NEW t \in BOOLEAN, NEW s \in Selectors, NEW flag \in BOOLEAN,
             BeginInstall(p, s, flag, t)
      PROVE  ShimInv'
  <2> DEFINE r == [NoRun EXCEPT !.op = "install", !.sel = s, !.consent = flag, !.tty = t]
  <2>1. r \in RunType /\ r.op = "install" /\ r.sel = s
    BY <1>1 DEF RunType, Ops
  <2> HIDE DEF r
  <2>2. Sound("catalog", r)
    BY <2>1
  <2>3. pc' = [pc EXCEPT ![p] = "catalog"] /\ run' = [run EXCEPT ![p] = r] /\ UNCHANGED env
    <3>1. Start(p, "catalog", r)
      BY <1>4 DEF BeginInstall, r
    <3> QED  BY <3>1 DEF Start
  <2> HIDE DEF Sound
  <2> QED  BY <2>1, <2>2, <2>3, MovesAlone
<1>5. ASSUME NEW c \in Reports, BeginReport(p, c)
      PROVE  ShimInv'
  <2> DEFINE r == [NoRun EXCEPT !.op = c]
  <2>1. /\ r \in RunType /\ r.op = c /\ c \notin {"java", "install"}
        /\ r.at = <<1, 1>> /\ r.view = NoView /\ r.sel = NoPin
    BY <1>1, <1>2 DEF RunType, Ops, Reports
  <2> HIDE DEF r
  <2>2. Sound("settings", r)
    BY <2>1
  <2>3. pc' = [pc EXCEPT ![p] = "settings"] /\ run' = [run EXCEPT ![p] = r] /\ UNCHANGED env
    <3>1. Start(p, "settings", r)
      BY <1>5 DEF BeginReport, r
    <3> QED  BY <3>1 DEF Start
  <2> HIDE DEF Sound
  <2> QED  BY <2>1, <2>2, <2>3, MovesAlone
<1> QED  BY <1>3, <1>4, <1>5

(* A report reads config.toml.                                             *)
LEMMA SettingsStep ==
    ASSUME ShimInv, NEW p \in Procs, LoadSettings(p)
    PROVE  ShimInv'
<1>1. CASE End(p, "badconfig")
  BY <1>1, Ends DEF LoadSettings
<1>2. CASE run' = [run EXCEPT ![p].vendor = config.vendor] /\ Goto(p, "cascade")
  <2> DEFINE r == [run[p] EXCEPT !.vendor = config.vendor]
  <2>1. config.vendor \in Vendors
    BY ShimAssumption DEF ShimInv, ShimTyped
  <2>2. r \in RunType /\ r.op = run[p].op /\ r.at = run[p].at /\ r.view = run[p].view
        /\ r.sel = run[p].sel
    BY <2>1, TheRun DEF RunType
  <2>3. run' = [run EXCEPT ![p] = r]
    BY <1>2
  <2> HIDE DEF r
  <2>4. \A f \in Places : NoView[f] = Unread /\ ~Before(f, <<1, 1>>)
    BY PlaceFacts DEF NoView
  <2>5. Sound("cascade", r)
    <3>1. Doing("cascade", r)
      BY <2>2, TheRun DEF LoadSettings, Sound, Doing, Reports
    <3>2. r.sel = NoPin /\ r.at = <<1, 1>> /\ r.view = NoView
      BY <2>2, TheRun DEF LoadSettings, Sound, Walk
    <3>3. Walk("cascade", r)
      BY <2>4, <3>2 DEF Walk, Looking, Passed, Ahead
    <3>4. Pins("cascade", r)
      BY DEF Pins
    <3> QED  BY <3>1, <3>3, <3>4 DEF Sound
  <2> QED  BY <1>2, <2>2, <2>3, <2>5, MovesAlone DEF LoadSettings, Goto, Steps
<1> QED  BY <1>1, <1>2 DEF LoadSettings

-----------------------------------------------------------------------------
(* The walk.                                                               *)

LEMMA KindsOfContent ==
    /\ \A c \in Contents : c.kind \in {"absent", "silent", "malformed", "pin"}
    /\ Unread.kind = "unread"
    /\ \A c \in Contents : c.kind = "pin" => c.sel \in Selectors
<1>1. Absent.kind = "absent" /\ Content("silent").kind = "silent"
      /\ Content("malformed").kind = "malformed" /\ Unread.kind = "unread"
  BY DEF Absent, Content, Unread
<1> QED  BY <1>1 DEF Contents

(* A file is read.                                                         *)
LEMMA SeenFacts ==
    ASSUME ShimInv, NEW p \in Procs, NEW c \in Contents
    PROVE  /\ Seen(p, c) \in [Places -> Contents \cup {Unread}]
           /\ Seen(p, c)[run[p].at] = c
           /\ \A f \in Places : f # run[p].at => Seen(p, c)[f] = run[p].view[f]
BY TheRun DEF Seen

(* Where a file is read that pins nothing, the walk has passed it.         *)
LEMMA PassesOn ==
    ASSUME NEW at \in Places, NEW view \in [Places -> Contents \cup {Unread}],
           Passed(at, view), view[at].kind \in {"absent", "silent"},
           \A f \in Places : ~Before(f, at) /\ f # at => view[f] = Unread,
           ~EndsHere(at, view)
    PROVE  /\ NextPlace(at) \in Places
           /\ Passed(NextPlace(at), view)
           /\ Ahead(NextPlace(at), view)
<1> DEFINE a == at[1]
           b == at[2]
<1>1. /\ a \in 1 .. Depth /\ b \in 1 .. Sources /\ at = <<a, b>>
      /\ Depth \in Nat /\ Sources \in Nat /\ 1 \in 1 .. Sources
  BY PlaceFacts, ShimAssumption
<1>2. /\ \A f \in Places : f[1] \in 1 .. Depth /\ f[2] \in 1 .. Sources /\ f = <<f[1], f[2]>>
      /\ \A d \in 1 .. Depth, k \in 1 .. Sources :
           <<d, k>> \in Places /\ <<d, k>>[1] = d /\ <<d, k>>[2] = k
  BY DEF Places
<1> HIDE DEF a, b
<1>3. CASE b < Sources
  <2>1. NextPlace(at) = <<a, b + 1>> /\ b + 1 \in 1 .. Sources
    BY <1>1, <1>3 DEF NextPlace, a, b
  <2>2. \A f \in Places : Before(f, <<a, b + 1>>) <=> Before(f, at) \/ f = at
    BY <1>1, <1>2 DEF Before
  <2>3. \A f \in Places : Before(f, at) /\ f[1] < a => view[f].kind = "absent"
    BY DEF Passed, a
  <2>4. \A f \in Places : f[1] < a => Before(f, at)
    BY DEF Before, a
  <2> QED  BY <1>1, <1>2, <2>1, <2>2, <2>3, <2>4 DEF Passed, Ahead
<1>4. CASE b = Sources
  <2>1. ~HasFile(view, a) /\ a # Depth
    BY <1>4 DEF EndsHere, a, b
  <2>2. NextPlace(at) = <<a + 1, 1>> /\ a + 1 \in 1 .. Depth
    BY <1>1, <1>4, <2>1 DEF NextPlace, a, b
  <2>3. \A f \in Places : Before(f, <<a + 1, 1>>) <=> Before(f, at) \/ f = at
    BY <1>1, <1>2, <1>4 DEF Before
  <2>4. \A f \in Places : Before(f, at) \/ f = at => view[f].kind = "absent"
    <3> SUFFICES ASSUME NEW f \in Places, Before(f, at) \/ f = at
                 PROVE  view[f].kind = "absent"
      OBVIOUS
    <3>1. CASE f[1] < a
      BY <3>1 DEF Passed, Before, a
    <3>2. CASE f[1] = a
      <4>1. view[f].kind \in {"absent", "silent"}
        BY DEF Passed
      <4>2. view[<<a, f[2]>>].kind \in {"absent", "unread"} /\ f = <<a, f[2]>>
        BY <1>2, <2>1, <3>2 DEF HasFile
      <4> QED  BY <4>1, <4>2
    <3> QED  BY <1>1, <1>2, <3>1, <3>2 DEF Before, a
  <2> QED  BY <1>1, <1>2, <2>2, <2>3, <2>4 DEF Passed, Ahead
<1> QED  BY <1>1, <1>3, <1>4

LEMMA NoDeclarationStep ==
    ASSUME ShimInv, NEW p \in Procs, NEW c \in Contents, NoDeclaration(p, c)
    PROVE  ShimInv'
<1> DEFINE at == run[p].at
           view == Seen(p, c)
<1>1. /\ view \in [Places -> Contents \cup {Unread}] /\ at \in Places
      /\ view[at] = c
      /\ \A f \in Places : f # at => view[f] = run[p].view[f]
  BY SeenFacts, TheRun
<1>2. /\ pc[p] = "cascade" /\ c.kind \in {"absent", "silent"} /\ UNCHANGED env
      /\ run[p] \in RunType /\ run[p].op # "install" /\ run[p].sel = NoPin
      /\ Passed(at, run[p].view) /\ Ahead(at, run[p].view)
  BY TheRun DEF NoDeclaration, Sound, Doing, Walk
<1>3. Passed(at, view) /\ \A f \in Places : ~Before(f, at) /\ f # at => view[f] = Unread
  BY <1>1, <1>2, PlaceFacts DEF Passed, Ahead
<1>4. CASE /\ EndsHere(at, view) /\ run' = [run EXCEPT ![p].view = view] /\ Goto(p, "global")
  <2> DEFINE r == [run[p] EXCEPT !.view = view]
  <2>1. run' = [run EXCEPT ![p] = r]
    BY <1>4
  <2>2. r \in RunType /\ r.op = run[p].op /\ r.sel = NoPin /\ r.at = at /\ r.view = view
    BY <1>1, <1>2 DEF RunType
  <2> HIDE DEF r, view, at
  <2>3. Sound("global", r)
    BY <1>1, <1>2, <1>3, <1>4, <2>2 DEF Sound, Doing, Walk, Pins, Looking
  <2> QED  BY <1>2, <1>4, <2>1, <2>2, <2>3, MovesAlone DEF Goto, Steps
<1>5. CASE /\ ~EndsHere(at, view) /\ UNCHANGED pc
           /\ run' = [run EXCEPT ![p].view = view, ![p].at = NextPlace(@)]
  <2> DEFINE r == [run[p] EXCEPT !.view = view, !.at = NextPlace(at)]
  <2>1. run' = [run EXCEPT ![p] = r]
    BY <1>5
  <2>2. /\ NextPlace(at) \in Places
        /\ Passed(NextPlace(at), view) /\ Ahead(NextPlace(at), view)
    BY <1>1, <1>2, <1>3, <1>5, PassesOn
  <2>3. /\ r \in RunType /\ r.op = run[p].op /\ r.sel = NoPin
        /\ r.at = NextPlace(at) /\ r.view = view
    BY <1>1, <1>2, <2>2 DEF RunType
  <2> HIDE DEF r, view, at
  <2>4. Sound("cascade", r)
    BY <1>2, <2>2, <2>3 DEF Sound, Doing, Walk, Pins, Looking
  <2>5. pc' = [pc EXCEPT ![p] = "cascade"]
    BY <1>2, <1>5 DEF ShimInv, ShimTyped
  <2> QED  BY <1>2, <2>1, <2>3, <2>4, <2>5, MovesAlone DEF Steps
<1> QED  BY <1>4, <1>5 DEF NoDeclaration

LEMMA DeclarationStep ==
    ASSUME ShimInv, NEW p \in Procs, NEW c \in Contents, Declaration(p, c)
    PROVE  ShimInv'
<1> DEFINE at == run[p].at
           view == Seen(p, c)
           r == [run[p] EXCEPT !.view = view, !.sel = c.sel]
<1>1. /\ view \in [Places -> Contents \cup {Unread}] /\ at \in Places
      /\ view[at] = c
      /\ \A f \in Places : f # at => view[f] = run[p].view[f]
  BY SeenFacts, TheRun
<1>2. /\ pc[p] = "cascade" /\ c.kind = "pin" /\ UNCHANGED env /\ Goto(p, "vendor")
      /\ run[p] \in RunType /\ run[p].op # "install"
      /\ Passed(at, run[p].view)
      /\ run' = [run EXCEPT ![p] = r]
  BY TheRun DEF Declaration, Sound, Doing, Walk
<1>3. Passed(at, view)
  BY <1>1, <1>2, PlaceFacts DEF Passed
<1>4. c.sel \in Selectors
  BY <1>2, KindsOfContent
<1>5. r \in RunType /\ r.op = run[p].op /\ r.sel = c.sel /\ r.at = at /\ r.view = view
  BY <1>1, <1>2, <1>4 DEF RunType
<1> HIDE DEF r, view, at
<1>6. Sound("vendor", r)
  BY <1>1, <1>2, <1>3, <1>4, <1>5 DEF Sound, Doing, Walk, Pins, Looking
<1> QED  BY <1>2, <1>5, <1>6, MovesAlone DEF Goto, Steps

LEMMA CascadeFailsStep ==
    ASSUME ShimInv, NEW p \in Procs, CascadeFails(p)
    PROVE  ShimInv'
BY Ends DEF CascadeFails

-----------------------------------------------------------------------------
(* What is looked for, and what is done where nothing is found.            *)

LEMMA VendorTypes ==
    /\ \A s \in Selectors \cup {NoPin} : s.vendor \in Vendors \cup {NoVendor}
    /\ \A c \in Configs : c.vendor \in Vendors /\ c.accept \in BOOLEAN
    /\ Default \in Vendors
<1>1. NoPin.vendor = NoVendor
  BY DEF NoPin, NoJdk
<1> QED  BY <1>1, ShimAssumption DEF Selector

LEMMA LoadVendorStep ==
    ASSUME ShimInv, NEW p \in Procs, LoadVendor(p)
    PROVE  ShimInv'
<1> DEFINE v == Means(run[p].sel, Given(p))
           r == [run[p] EXCEPT !.vendor = v, !.view = NoView, !.at = NoRun.at]
<1>1. /\ run[p] \in RunType /\ run[p].sel \in Selectors
      /\ run[p].vendor \in Vendors \cup {NoVendor} /\ run[p].op # "install"
      /\ config \in Configs
  BY TheRun DEF LoadVendor, Sound, Doing, Walk, Looking, RunType, ShimInv, ShimTyped
<1>2. Given(p) \in Vendors \cup {NoVendor}
  BY <1>1, VendorTypes DEF Given
<1>3. v \in Vendors \cup {NoVendor} /\ run[p].sel.vendor \in {NoVendor, v}
  BY <1>1, <1>2, VendorTypes DEF Means
<1>4. CASE run' = [run EXCEPT ![p].vendor = v, ![p].view = NoView, ![p].at = NoRun.at]
           /\ Goto(p, "find")
  <2>1. run' = [run EXCEPT ![p] = r]
    BY <1>4
  <2>2. NoRun.at \in Places /\ NoView \in [Places -> Contents \cup {Unread}]
    BY PlaceFacts DEF NoRun, NoView
  <2>3. r \in RunType /\ r.op = run[p].op /\ r.sel = run[p].sel /\ r.vendor = v
    BY <1>1, <1>3, <2>2 DEF RunType
  <2> HIDE DEF r, v
  <2>4. Sound("find", r)
    BY <1>1, <1>3, <2>3 DEF Sound, Doing, Walk, Pins, Looking
  <2> QED  BY <1>4, <2>1, <2>3, <2>4, MovesAlone DEF Goto, Steps, LoadVendor
<1>5. CASE End(p, "badconfig")
  BY <1>5, Ends DEF LoadVendor
<1> QED  BY <1>4, <1>5 DEF LoadVendor

LEMMA FindStep ==
    ASSUME ShimInv, NEW p \in Procs, Find(p)
    PROVE  ShimInv'
<1>1. PICK j \in Best(Answering(p)) : run' = [run EXCEPT ![p].pick = j]
  BY DEF Find
<1>2. j \in Jdks /\ Answers(j, run[p].vendor, run[p].sel)
  BY <1>1 DEF Best, Answering, Candidates, Answers, ShimInv, ShimTyped
<1> DEFINE r == [run[p] EXCEPT !.pick = j]
<1>3. run' = [run EXCEPT ![p] = r]
  BY <1>1
<1>4. /\ r \in RunType /\ r.op = run[p].op /\ r.sel = run[p].sel /\ r.vendor = run[p].vendor
      /\ r.pick = j
  BY <1>2, TheRun DEF RunType
<1> HIDE DEF r
<1>5. Sound("exists", r)
  BY <1>2, <1>4, TheRun DEF Find, Sound, Doing, Walk, Pins, Looking
<1> QED  BY <1>3, <1>4, <1>5, MovesAlone DEF Find, Goto, Steps

(* Nothing is found, and what the shim does then.                          *)
LEMMA AskingSteps ==
    ASSUME ShimInv, NEW p \in Procs,
           \/ FindsNothing(p) \/ ScanFails(p) \/ DecideInstall(p) \/ Answer(p) \/ Spawn(p)
    PROVE  ShimInv'
<1>1. CASE FindsNothing(p)
  <2>1. CASE pc[p] = "find" /\ run[p].op = "java" /\ Goto(p, "policy") /\ UNCHANGED run
    <3>1. Sound("policy", run[p])
      BY <2>1, TheRun DEF Sound, Doing, Walk, Pins, Looking
    <3> QED  BY <1>1, <2>1, <3>1, GoesOn DEF FindsNothing, Steps
  <2>2. CASE End(p, "notinstalled")
    BY <1>1, <2>2, Ends DEF FindsNothing
  <2> QED  BY <1>1, <2>1, <2>2 DEF FindsNothing
<1>2. CASE ScanFails(p)
  BY <1>2, Ends DEF ScanFails
<1>3. CASE DecideInstall(p)
  <2>1. ASSUME NEW w \in {"spawn", "ask"}, Goto(p, w), UNCHANGED run
        PROVE  ShimInv'
    <3>1. Sound(w, run[p])
      BY <1>3, <2>1, TheRun DEF DecideInstall, Sound, Doing, Walk, Pins, Looking
    <3> QED  BY <1>3, <2>1, <3>1, GoesOn DEF DecideInstall, Steps
  <2>2. ASSUME NEW c, End(p, c)
        PROVE  ShimInv'
    BY <1>3, <2>2, Ends DEF DecideInstall
  <2> QED  BY <1>3, <2>1, <2>2 DEF DecideInstall
<1>4. CASE Answer(p)
  <2>1. CASE Goto(p, "spawn") /\ UNCHANGED run
    <3>1. Sound("spawn", run[p])
      BY <1>4, TheRun DEF Answer, Sound, Doing, Walk, Pins, Looking
    <3> QED  BY <1>4, <2>1, <3>1, GoesOn DEF Answer, Steps
  <2> QED  BY <1>4, <2>1, Ends DEF Answer
<1>5. CASE Spawn(p)
  <2>1. CASE Goto(p, "catalog") /\ UNCHANGED run
    <3>1. Sound("catalog", run[p])
      BY <1>5, TheRun DEF Spawn, Sound, Doing, Walk, Pins, Looking
    <3> QED  BY <1>5, <2>1, <3>1, GoesOn DEF Spawn, Steps
  <2> QED  BY <1>5, <2>1, Ends DEF Spawn
<1> QED  BY <1>1, <1>2, <1>3, <1>4, <1>5

-----------------------------------------------------------------------------
(* The install.                                                            *)

LEMMA ResolveStep ==
    ASSUME ShimInv, NEW p \in Procs, Resolve(p)
    PROVE  ShimInv'
<1>1. PICK k \in Offers(p) :
        run' = [run EXCEPT ![p].pick = Jdk(k), ![p].consent = Consent(p)]
  BY DEF Resolve
<1>2. Jdk(k) \in Jdks
  <2>1. k \in Published \cup Live
    BY <1>1 DEF Offers, PickBest, Eligible, Matching
  <2> QED  BY <2>1 DEF Jdks
<1>3. Consent(p) \in BOOLEAN
  BY TheRun, VendorTypes DEF Consent, RunType, ShimInv, ShimTyped
<1> DEFINE c == Consent(p)
           j == Jdk(k)
           r == [run[p] EXCEPT !.pick = j, !.consent = c]
<1>4. run' = [run EXCEPT ![p] = r]
  BY <1>1
<1> HIDE DEF c, j
<1>5. /\ r \in RunType /\ r.op = run[p].op /\ r.sel = run[p].sel /\ r.vendor = run[p].vendor
      /\ r.pick = j
  BY <1>2, <1>3, TheRun DEF RunType, c, j
<1> HIDE DEF r
<1>6. Sound("terms", r)
  BY <1>2, <1>5, TheRun DEF Resolve, Sound, Doing, Walk, Pins, Looking, j
<1> QED  BY <1>4, <1>5, <1>6, MovesAlone DEF Resolve, Goto, Steps

LEMMA TermsStep ==
    ASSUME ShimInv, NEW p \in Procs, Terms(p)
    PROVE  ShimInv'
<1>1. CASE Goto(p, "install") /\ UNCHANGED run
  <2>1. Sound("install", run[p])
    BY TheRun DEF Terms, Sound, Doing, Walk, Pins, Looking
  <2> QED  BY <1>1, <2>1, GoesOn DEF Terms, Steps
<1>2. CASE End(p, "declined")
  BY <1>2, Ends DEF Terms
<1> QED  BY <1>1, <1>2 DEF Terms

LEMMA InstallStep ==
    ASSUME ShimInv, NEW p \in Procs, Install(p)
    PROVE  ShimInv'
<1>1. CASE installed' = installed \cup {run[p].pick} /\ Goto(p, "elect") /\ UNCHANGED run
  <2>1. run[p].pick \in Jdks /\ Sound("elect", run[p]) /\ run[p] \in RunType
    BY TheRun DEF Install, Sound, Doing, Walk, Pins, Looking
  <2>2. installed' \subseteq Jdks /\ IsFiniteSet(installed')
    BY <1>1, <2>1, FS_AddElement DEF ShimInv, ShimTyped
  <2>3. pc' = [pc EXCEPT ![p] = "elect"] /\ run' = [run EXCEPT ![p] = run[p]]
    BY <1>1 DEF Goto, ShimInv, ShimTyped
  <2>4. /\ pc' \in [Procs -> Steps] /\ run' \in [Procs -> RunType]
        /\ \A q \in Procs : Sound(pc'[q], run'[q])
    BY <2>1, <2>3, Moves DEF Steps
  <2> QED  BY <2>2, <2>4 DEF ShimInv, ShimTyped, Install
<1>2. CASE UNCHANGED installed /\ End(p, "failure")
  BY <1>2, Ends DEF Install, env
<1> QED  BY <1>1, <1>2 DEF Install

LEMMA ElectStep ==
    ASSUME ShimInv, NEW p \in Procs, Elect(p)
    PROVE  ShimInv'
<1>1. global' \in Jdks \cup {NoJdk} /\ UNCHANGED <<config, installed>>
  BY TheRun DEF Elect, Sound, Pins, ShimInv, ShimTyped
<1>2. /\ pc' \in [Procs -> Steps] /\ run' \in [Procs -> RunType]
      /\ \A q \in Procs : Sound(pc'[q], run'[q])
  <2>1. CASE run[p].op = "java" /\ Goto(p, "rescan") /\ UNCHANGED run
    <3>1. Sound("rescan", run[p]) /\ run[p] \in RunType
      BY <2>1, TheRun DEF Elect, Sound, Doing, Walk, Pins, Looking
    <3>2. pc' = [pc EXCEPT ![p] = "rescan"] /\ run' = [run EXCEPT ![p] = run[p]]
      BY <2>1 DEF Goto, ShimInv, ShimTyped
    <3> QED  BY <3>1, <3>2, Moves DEF Steps
  <2>2. CASE End(p, "installed")
    BY <2>2, NoRunFacts, Moves DEF End, Steps
  <2> QED  BY <2>1, <2>2 DEF Elect
<1> QED  BY <1>1, <1>2 DEF ShimInv, ShimTyped

LEMMA InstallEnds ==
    ASSUME ShimInv, NEW p \in Procs, ResolveFails(p) \/ ElectFails(p)
    PROVE  ShimInv'
BY Ends DEF ResolveFails, ElectFails

-----------------------------------------------------------------------------
(* The launch, the reports, and others.                                    *)

LEMMA UseGlobalStep ==
    ASSUME ShimInv, NEW p \in Procs, UseGlobal(p)
    PROVE  ShimInv'
<1>1. CASE run' = [run EXCEPT ![p].view = NoView, ![p].at = NoRun.at] /\ Goto(p, "exists")
  <2> DEFINE r == [run[p] EXCEPT !.view = NoView, !.at = NoRun.at]
  <2>1. run' = [run EXCEPT ![p] = r]
    BY <1>1
  <2>2. NoRun.at \in Places /\ NoView \in [Places -> Contents \cup {Unread}]
        /\ NoPin.vendor = NoVendor
    BY PlaceFacts DEF NoRun, NoView, NoPin, NoJdk
  <2>3. /\ r \in RunType /\ r.op = run[p].op /\ r.sel = run[p].sel
        /\ run[p].op # "install" /\ run[p].sel = NoPin
    <3>1. r \in RunType
      BY <2>2, TheRun DEF RunType
    <3>2. r.op = run[p].op /\ r.sel = run[p].sel
      BY TheRun DEF RunType
    <3>3. run[p].op # "install" /\ run[p].sel = NoPin
      BY TheRun DEF UseGlobal, Sound, Doing, Walk
    <3> QED  BY <3>1, <3>2, <3>3
  <2> HIDE DEF r
  <2>4. Sound("exists", r)
    BY <2>2, <2>3 DEF Sound, Doing, Walk, Pins, Looking
  <2> QED  BY <1>1, <2>1, <2>3, <2>4, MovesAlone DEF UseGlobal, Goto, Steps
<1>2. CASE End(p, "notinstalled")
  BY <1>2, Ends DEF UseGlobal
<1> QED  BY <1>1, <1>2 DEF UseGlobal

LEMMA LaunchSteps ==
    ASSUME ShimInv, NEW p \in Procs,
           Exists(p) \/ ReportTool(p) \/ ReportCurrent(p) \/ Launch(p)
    PROVE  ShimInv'
<1>1. CASE Exists(p)
  <2>1. CASE Goto(p, "launch") /\ UNCHANGED run
    <3>1. Sound("launch", run[p])
      BY <1>1, TheRun DEF Exists, Sound, Doing, Walk, Pins, Looking
    <3> QED  BY <1>1, <2>1, <3>1, GoesOn DEF Exists, Steps
  <2> QED  BY <1>1, <2>1, Ends DEF Exists
<1> QED  BY <1>1, Ends DEF ReportTool, ReportCurrent, Launch

(* Others leave the processes where they are.                              *)
LEMMA TouchKeeps ==
    ASSUME ShimInv, Touch
    PROVE  /\ pc' \in [Procs -> Steps]
           /\ run' \in [Procs -> RunType]
           /\ \A q \in Procs : Sound(pc'[q], run'[q])
<1>1. pc' \in [Procs -> Steps]
  BY DEF Touch, ShimInv, ShimTyped
<1>2. ASSUME NEW q \in Procs
      PROVE  run'[q] \in RunType /\ Sound(pc'[q], run'[q])
  <2> DEFINE r == [run[q] EXCEPT !.edited = pc[q] # "idle"]
  <2>1. run'[q] = r /\ pc'[q] = pc[q]
    BY DEF Touch
  <2>2. /\ r \in RunType /\ r.op = run[q].op /\ r.sel = run[q].sel /\ r.at = run[q].at
        /\ r.view = run[q].view /\ r.vendor = run[q].vendor /\ r.pick = run[q].pick
    BY TheRun DEF RunType
  <2> HIDE DEF r
  <2> QED  BY <2>1, <2>2, TheRun DEF Sound, Doing, Walk, Pins, Looking
<1>3. run' \in [Procs -> RunType]
  BY <1>2 DEF Touch
<1> QED  BY <1>1, <1>2, <1>3

LEMMA OthersStep ==
    ASSUME ShimInv,
           \/ \E c \in Configs : Configure(c)
           \/ \E j \in Jdks : Arrive(j) \/ Use(j) \/ Uninstall(j)
    PROVE  ShimInv'
<1>1. Touch
  BY DEF Configure, Arrive, Use, Uninstall
<1>2. /\ config' \in Configs /\ installed' \subseteq Jdks /\ global' \in Jdks \cup {NoJdk}
  BY DEF Configure, Arrive, Use, Uninstall, ShimInv, ShimTyped
<1>3. IsFiniteSet(installed')
  BY FS_AddElement, FS_RemoveElement DEF Configure, Arrive, Use, Uninstall, ShimInv, ShimTyped
<1> QED  BY <1>1, <1>2, <1>3, TouchKeeps DEF ShimInv, ShimTyped

-----------------------------------------------------------------------------

LEMMA StepKeeps ==
    ASSUME ShimInv, NEW p \in Procs, Step(p)
    PROVE  ShimInv'
<1>1. ASSUME NEW c \in Contents, NoDeclaration(p, c) \/ Declaration(p, c)
      PROVE  ShimInv'
  BY <1>1, NoDeclarationStep, DeclarationStep
<1>2. CASE CascadeFails(p) \/ LoadSettings(p) \/ LoadVendor(p) \/ Find(p)
  BY <1>2, CascadeFailsStep, SettingsStep, LoadVendorStep, FindStep
<1>3. CASE FindsNothing(p) \/ ScanFails(p) \/ DecideInstall(p) \/ Spawn(p)
  BY <1>3, AskingSteps
<1>4. CASE Resolve(p) \/ ResolveFails(p) \/ Terms(p) \/ Install(p) \/ Elect(p) \/ ElectFails(p)
  BY <1>4, ResolveStep, TermsStep, InstallStep, ElectStep, InstallEnds
<1>5. CASE UseGlobal(p) \/ Exists(p) \/ ReportTool(p) \/ ReportCurrent(p) \/ Launch(p)
  BY <1>5, UseGlobalStep, LaunchSteps
<1> QED  BY <1>1, <1>2, <1>3, <1>4, <1>5 DEF Step

LEMMA ShimKeeps == ShimInv /\ [Next]_vars => ShimInv'
<1> SUFFICES ASSUME ShimInv, [Next]_vars
             PROVE  ShimInv'
  OBVIOUS
<1>1. CASE Next
  <2>1. ASSUME NEW p \in Procs,
               \/ \E t \in BOOLEAN :
                    \/ BeginJava(p, t)
                    \/ \E s \in Selectors, flag \in BOOLEAN : BeginInstall(p, s, flag, t)
               \/ \E c \in Reports : BeginReport(p, c)
        PROVE  ShimInv'
    BY <2>1, CommandStep
  <2>2. ASSUME NEW p \in Procs, Step(p) \/ Answer(p)
        PROVE  ShimInv'
    BY <2>2, StepKeeps, AskingSteps
  <2>3. ASSUME \/ \E c \in Configs : Configure(c)
               \/ \E j \in Jdks : Arrive(j) \/ Use(j) \/ Uninstall(j)
        PROVE  ShimInv'
    BY <2>3, OthersStep
  <2> QED  BY <1>1, <2>1, <2>2, <2>3 DEF Next
<1>2. CASE UNCHANGED vars
  BY <1>2 DEF vars, ShimInv, ShimTyped
<1> QED  BY <1>1, <1>2

LEMMA ShimStarts == Init => ShimInv
<1>1. IsFiniteSet({})
  BY FS_EmptySet
<1> QED  BY <1>1, NoRunFacts DEF Init, ShimInv, ShimTyped, Steps

LEMMA ShimInvHolds == Spec => []ShimInv
BY ShimStarts, ShimKeeps, PTL DEF Spec

-----------------------------------------------------------------------------
(* Texts and versions.                                                     *)

IsVersion(v) == v.nums \in Seq(Nat) /\ v.build \in Seq(Nat) /\ v.pre \in Seq(Nat)
                /\ v = [nums |-> v.nums, build |-> v.build, pre |-> v.pre]

LEMMA ParseTypes ==
    ASSUME NEW t \in Texts
    PROVE  IsVersion(Parse(t)) /\ Parse(t).nums = t.head
BY DEF Texts, Parse, IsVersion, None

(* What is written is read as what it was: the name of a store directory   *)
(* is that of one version (version.rs, Display and FromStr).               *)
LEMMA RoundTrip ==
    ASSUME NEW t \in Texts
    PROVE  Display(Parse(t)) \in Texts /\ Parse(Display(Parse(t))) = Parse(t)
<1> DEFINE v == Parse(t)
           d == Display(v)
<1>1. t.tail \in Seq(Nat) /\ t.head \in Seq(Nat) /\ t.sep \in {"none", "+", "-"}
  BY DEF Texts, Separators
<1>2. ~Numeric(None)
  BY DEF Numeric, None
<1>3. CASE t.sep = "+" /\ Numeric(t.tail)
  <2>1. v = [nums |-> t.head, build |-> t.tail, pre |-> None] /\ t.tail # None
    BY <1>2, <1>3 DEF Parse
  <2>2. d = [head |-> t.head, sep |-> "+", tail |-> t.tail]
    BY <2>1 DEF Display
  <2> HIDE DEF d, v
  <2> QED  BY <1>1, <1>3, <2>1, <2>2 DEF Parse, Texts, Separators, v, d
<1>4. CASE t.sep = "none" \/ t.tail = None
  <2>1. v = [nums |-> t.head, build |-> None, pre |-> None]
    BY <1>2, <1>4 DEF Parse
  <2>2. d = [head |-> t.head, sep |-> "none", tail |-> None]
    BY <2>1 DEF Display
  <2>3. None \in Seq(Nat)
    BY DEF None
  <2> HIDE DEF d, v
  <2> QED  BY <1>1, <2>1, <2>2, <2>3 DEF Parse, Texts, Separators, v, d
<1>5. CASE t.sep # "none" /\ t.tail # None /\ ~(t.sep = "+" /\ Numeric(t.tail))
  <2>1. v = [nums |-> t.head, build |-> None, pre |-> t.tail]
    BY <1>5 DEF Parse
  <2>2. d = [head |-> t.head, sep |-> "-", tail |-> t.tail]
    BY <1>5, <2>1 DEF Display
  <2> HIDE DEF d, v
  <2> QED  BY <1>1, <2>1, <2>2 DEF Parse, Texts, Separators, v, d
<1> QED  BY <1>3, <1>4, <1>5

LEMMA JdkTexts ==
    /\ \A j \in Jdks : j = [vendor |-> j.vendor, version |-> j.version] /\ j.version \in Texts
    /\ \A j \in Jdks : j.version = Display(Parse(j.version))
    /\ NoText \in Texts
<1>1. ASSUME NEW k \in Published \cup Live
      PROVE  /\ Display(Parse(k.version)) \in Texts
             /\ Display(Parse(Display(Parse(k.version)))) = Display(Parse(k.version))
  <2>1. k.version \in Texts
    BY ShimAssumption DEF Package
  <2> QED  BY <2>1, RoundTrip
<1>2. NoText \in Texts
  BY DEF NoText, Texts, Separators
<1> QED  BY <1>1, <1>2 DEF Jdks, Jdk

-----------------------------------------------------------------------------
(* Prefixes.                                                               *)

LEMMA PrefixIs ==
    ASSUME NEW s \in Seq(Int), NEW t \in Seq(Int)
    PROVE  IsPrefix(s, t) <=> Len(s) <= Len(t) /\ \A i \in 1 .. Len(s) : s[i] = t[i]
<1>1. SubSeq(s, 1, Len(s)) = [i \in 1 .. Len(s) |-> s[i]] /\ Len(s) \in Nat /\ Len(t) \in Nat
  OBVIOUS
<1>2. Len(s) <= Len(t) => SubSeq(t, 1, Len(s)) = [i \in 1 .. Len(s) |-> t[i]]
  OBVIOUS
<1> QED  BY <1>1, <1>2 DEF IsPrefix

(* What matches a pattern is of its line, in either way of writing.        *)
LEMMA MatchingIsOfTheLine ==
    ASSUME NEW v, NEW w, IsVersion(v), IsVersion(w), Matches(v, w)
    PROVE  IsPrefix(w.nums, IF LoneBuild(v) THEN Folded(v) ELSE v.nums)
<1>1. v.nums \in Seq(Int) /\ w.nums \in Seq(Int)
  BY DEF IsVersion
<1>2. ASSUME NEW x \in {v, w}, LoneBuild(x)
      PROVE  /\ Folded(x) \in Seq(Int) /\ Len(Folded(x)) = Len(x.nums) + 1
             /\ \A i \in 1 .. Len(x.nums) : Folded(x)[i] = x.nums[i]
  <2>1. x.build[1] \in Int /\ x.nums \in Seq(Int)
    BY <1>2 DEF LoneBuild, IsVersion
  <2>2. x.build[1] - Digits(0) \in Int
    BY <2>1 DEF Digits
  <2> QED  BY <2>1, <2>2 DEF Folded
<1>3. IsPrefix(w.nums, v.nums) => IsPrefix(w.nums, IF LoneBuild(v) THEN Folded(v) ELSE v.nums)
  <2>1. IsPrefix(w.nums, v.nums) =>
          Len(w.nums) <= Len(v.nums) /\ \A i \in 1 .. Len(w.nums) : w.nums[i] = v.nums[i]
    BY <1>1, PrefixIs
  <2>2. CASE LoneBuild(v)
    <3>1. IsPrefix(w.nums, v.nums) =>
            /\ Len(w.nums) <= Len(Folded(v))
            /\ \A i \in 1 .. Len(w.nums) : w.nums[i] = Folded(v)[i]
      BY <1>1, <1>2, <2>1, <2>2
    <3>2. Folded(v) \in Seq(Int)
      BY <1>2, <2>2
    <3> QED  BY <1>1, <2>2, <3>1, <3>2, PrefixIs
  <2> QED  BY <2>2
<1>4. CASE MatchesDirectly(v, w)
  BY <1>3, <1>4 DEF MatchesDirectly
<1>5. CASE LoneBuild(w) /\ IsPrefix(Folded(w), v.nums)
  <2>1. IsPrefix(w.nums, v.nums)
    <3>1. Folded(w) \in Seq(Int) /\ Len(Folded(w)) = Len(w.nums) + 1
          /\ \A i \in 1 .. Len(w.nums) : Folded(w)[i] = w.nums[i]
      BY <1>2, <1>5
    <3>2. Len(Folded(w)) <= Len(v.nums) /\ \A i \in 1 .. Len(Folded(w)) : Folded(w)[i] = v.nums[i]
      BY <1>1, <1>5, <3>1, PrefixIs
    <3>3. Len(w.nums) <= Len(v.nums) /\ \A i \in 1 .. Len(w.nums) : w.nums[i] = v.nums[i]
      <4>1. Len(w.nums) \in Nat /\ Len(v.nums) \in Nat
        BY <1>1
      <4>2. \A i \in 1 .. Len(w.nums) : i \in 1 .. Len(Folded(w))
        BY <3>1, <4>1
      <4>3. \A i \in 1 .. Len(w.nums) : w.nums[i] = v.nums[i]
        BY <3>1, <3>2, <4>2
      <4>4. Len(w.nums) <= Len(v.nums)
        <5>1. Len(Folded(w)) = Len(w.nums) + 1 /\ Len(Folded(w)) <= Len(v.nums)
          BY <3>1, <3>2
        <5> QED  BY <4>1, <5>1
      <4> QED  BY <4>3, <4>4
    <3> QED  BY <1>1, <3>3, PrefixIs
  <2> QED  BY <1>3, <2>1
<1>6. CASE LoneBuild(v) /\ w.nums = Folded(v)
  BY <1>1, <1>6, PrefixIs
<1> QED  BY <1>4, <1>5, <1>6 DEF Matches

-----------------------------------------------------------------------------
(* The order of versions is a strict total one.                            *)

LEMMA SeqLessIrreflexive ==
    ASSUME NEW s \in Seq(Nat)
    PROVE  ~SeqLess(s, s)
BY DEF SeqLess

LEMMA SeqLessTransitive ==
    ASSUME NEW s \in Seq(Nat), NEW t \in Seq(Nat), NEW u \in Seq(Nat),
           SeqLess(s, t), SeqLess(t, u)
    PROVE  SeqLess(s, u)
<1>1. PICK i \in 1 .. Len(t) :
        i <= Len(s) + 1 /\ (\A l \in 1 .. (i - 1) : s[l] = t[l]) /\ (i <= Len(s) => s[i] < t[i])
  BY DEF SeqLess
<1>2. PICK j \in 1 .. Len(u) :
        j <= Len(t) + 1 /\ (\A l \in 1 .. (j - 1) : t[l] = u[l]) /\ (j <= Len(t) => t[j] < u[j])
  BY DEF SeqLess
<1>3. Len(s) \in Nat /\ Len(t) \in Nat /\ Len(u) \in Nat
      /\ (\A l \in 1 .. Len(s) : s[l] \in Nat) /\ (\A l \in 1 .. Len(t) : t[l] \in Nat)
      /\ (\A l \in 1 .. Len(u) : u[l] \in Nat)
  OBVIOUS
<1>4. CASE i < j
  <2>1. i \in 1 .. Len(u) /\ t[i] = u[i] /\ \A l \in 1 .. (i - 1) : s[l] = u[l]
    <3>1. /\ i \in 1 .. Len(u) /\ i \in 1 .. (j - 1)
          /\ \A l \in 1 .. (i - 1) : l \in 1 .. (j - 1)
      BY <1>3, <1>4
    <3>2. t[i] = u[i]
      BY <1>2, <3>1
    <3>3. \A l \in 1 .. (i - 1) : s[l] = u[l]
      BY <1>1, <1>2, <3>1
    <3> QED  BY <3>1, <3>2, <3>3
  <2> QED  BY <1>1, <2>1 DEF SeqLess
<1>5. CASE j < i
  <2>1. i \in Nat /\ j \in Nat /\ j \in 1 .. (i - 1) /\ j <= Len(s) /\ j <= Len(t)
    <3>1. i \in Nat /\ j \in Nat /\ 1 <= j /\ i <= Len(t)
      BY <1>3
    <3>2. i <= Len(s) + 1 /\ Len(s) \in Nat /\ Len(t) \in Nat
      BY <1>1, <1>3
    <3>3. j \in 1 .. (i - 1) /\ j <= Len(t)
      BY <1>5, <3>1, <3>2
    <3>4. j <= Len(s)
      BY <1>5, <3>1, <3>2
    <3> QED  BY <3>1, <3>3, <3>4
  <2>2. s[j] = t[j] /\ t[j] < u[j]
    BY <1>1, <1>2, <2>1
  <2>3. \A l \in 1 .. (j - 1) : s[l] = u[l]
    <3>1. \A l \in 1 .. (j - 1) : l \in 1 .. (i - 1)
      BY <2>1
    <3> QED  BY <1>1, <1>2, <3>1
  <2>4. j \in 1 .. Len(u) /\ j <= Len(s) + 1 /\ s[j] < u[j]
    BY <1>3, <2>1, <2>2
  <2> QED  BY <2>3, <2>4 DEF SeqLess
<1>6. CASE i = j
  <2>1. \A l \in 1 .. (i - 1) : s[l] = u[l]
    BY <1>1, <1>2, <1>6
  <2>2. i <= Len(s) => s[i] < u[i]
    <3> SUFFICES ASSUME i <= Len(s)
                 PROVE  s[i] < u[i]
      OBVIOUS
    <3>1. i \in 1 .. Len(s) /\ i \in 1 .. Len(t) /\ i \in 1 .. Len(u) /\ i <= Len(t)
      BY <1>1, <1>3, <1>6
    <3>2. s[i] < t[i] /\ t[i] < u[i]
      BY <1>1, <1>2, <1>6, <3>1
    <3>3. s[i] \in Nat /\ t[i] \in Nat /\ u[i] \in Nat
      BY <1>3, <3>1
    <3>4. \A a, b, c \in Nat : a < b /\ b < c => a < c
      OBVIOUS
    <3> QED  BY <3>2, <3>3, <3>4, Zenon
  <2> QED  BY <1>1, <1>2, <1>6, <2>1, <2>2 DEF SeqLess
<1> QED  BY <1>4, <1>5, <1>6

LEMMA LeastExists ==
    ASSUME NEW S \in SUBSET Nat, S # {}
    PROVE  \E m \in S : \A i \in S : m <= i
<1>1. PICK m \in S : \A i \in S : <<i, m>> \notin OpToRel(<, Nat)
  BY NatLessThanWellFounded, WFMin
<1>2. ASSUME NEW i \in S, i < m
      PROVE  FALSE
  <2>1. <<i, m>> \in OpToRel(<, Nat)
    BY <1>2 DEF OpToRel
  <2> QED  BY <1>1, <2>1
<1> QED  BY <1>2

LEMMA SeqLessTotal ==
    ASSUME NEW s \in Seq(Nat), NEW t \in Seq(Nat), s # t
    PROVE  SeqLess(s, t) \/ SeqLess(t, s)
<1> DEFINE D == {i \in Nat : i >= 1 /\ (i > Len(s) \/ i > Len(t) \/ s[i] # t[i])}
<1>1. Len(s) \in Nat /\ Len(t) \in Nat /\ Len(s) + 1 \in D
  OBVIOUS
<1>2. PICK m \in D : \A i \in D : m <= i
  BY <1>1, LeastExists
<1>3. \A i \in D : m <= i
  BY <1>2
<1>4. \A i \in 1 .. (m - 1) : i <= Len(s) /\ i <= Len(t) /\ s[i] = t[i]
  BY <1>3
<1>5. m <= Len(s) + 1 /\ m <= Len(t) + 1
  BY <1>3, <1>1
<1>6. CASE m > Len(s) /\ m > Len(t)
  <2>1. Len(s) = Len(t) /\ \A i \in 1 .. Len(s) : s[i] = t[i]
    BY <1>1, <1>4, <1>5, <1>6
  <2> QED  BY <2>1, SeqEqual
<1>7. CASE m > Len(s) /\ m <= Len(t)
  BY <1>1, <1>4, <1>5, <1>7 DEF SeqLess
<1>8. CASE m <= Len(s) /\ m > Len(t)
  BY <1>1, <1>4, <1>5, <1>8 DEF SeqLess
<1>9. CASE m <= Len(s) /\ m <= Len(t)
  <2>1. s[m] # t[m] /\ s[m] \in Nat /\ t[m] \in Nat /\ m >= 1
    BY <1>9
  <2>2. m \in 1 .. Len(s) /\ m \in 1 .. Len(t)
    BY <1>1, <1>9, <2>1
  <2>3. CASE s[m] < t[m]
    BY <1>4, <1>5, <2>2, <2>3 DEF SeqLess
  <2>4. CASE t[m] < s[m]
    BY <1>4, <1>5, <2>2, <2>4 DEF SeqLess
  <2> QED  BY <2>1, <2>3, <2>4
<1>10. m \in Nat
  OBVIOUS
<1> HIDE DEF D
<1> QED  BY <1>1, <1>6, <1>7, <1>8, <1>9, <1>10

LEMMA LessIsAnOrder ==
    /\ \A v : IsVersion(v) => ~Less(v, v)
    /\ \A v, w, x : IsVersion(v) /\ IsVersion(w) /\ IsVersion(x) /\ Less(v, w) /\ Less(w, x)
         => Less(v, x)
    /\ \A v, w : IsVersion(v) /\ IsVersion(w) /\ v # w => Less(v, w) \/ Less(w, v)
<1>1. ASSUME NEW v, IsVersion(v)
      PROVE  ~Less(v, v)
  BY <1>1, SeqLessIrreflexive DEF Less, IsVersion
<1>2. ASSUME NEW v, NEW w, NEW x, IsVersion(v), IsVersion(w), IsVersion(x),
             Less(v, w), Less(w, x)
      PROVE  Less(v, x)
  BY <1>2, SeqLessTransitive DEF Less, IsVersion
<1>3. ASSUME NEW v, NEW w, IsVersion(v), IsVersion(w), v # w
      PROVE  Less(v, w) \/ Less(w, v)
  <2>1. v.nums # w.nums \/ v.build # w.build \/ v.pre # w.pre
    BY <1>3 DEF IsVersion
  <2> QED  BY <1>3, <2>1, SeqLessTotal DEF Less, IsVersion
<1> QED  BY <1>1, <1>2, <1>3

(* So is the ranking of JDKs: stable first, then the order.                *)
Beats(j, k) == Outranks(Parse(j.version), Stable(Parse(j.version)),
                        Parse(k.version), Stable(Parse(k.version)))

LEMMA BeatsIsAnOrder ==
    /\ \A j \in Jdks : ~Beats(j, j)
    /\ \A j, k, l \in Jdks : Beats(j, k) /\ Beats(k, l) => Beats(j, l)
    /\ \A j, k \in Jdks : j.vendor = k.vendor /\ j # k => Beats(j, k) \/ Beats(k, j)
<1>1. \A j \in Jdks : IsVersion(Parse(j.version)) /\ Stable(Parse(j.version)) \in BOOLEAN
  BY JdkTexts, ParseTypes DEF Stable
<1>2. ASSUME NEW j \in Jdks
      PROVE  ~Beats(j, j)
  BY <1>1, LessIsAnOrder DEF Beats, Outranks
<1>3. ASSUME NEW j \in Jdks, NEW k \in Jdks, NEW l \in Jdks, Beats(j, k), Beats(k, l)
      PROVE  Beats(j, l)
  BY <1>1, <1>3, LessIsAnOrder DEF Beats, Outranks
<1>4. ASSUME NEW j \in Jdks, NEW k \in Jdks, j.vendor = k.vendor, j # k
      PROVE  Beats(j, k) \/ Beats(k, j)
  <2>1. Parse(j.version) # Parse(k.version)
    BY <1>4, JdkTexts
  <2>2. Less(Parse(j.version), Parse(k.version)) \/ Less(Parse(k.version), Parse(j.version))
    BY <1>1, <2>1, LessIsAnOrder
  <2> QED  BY <1>1, <2>2 DEF Beats, Outranks
<1> QED  BY <1>2, <1>3, <1>4

(* Of finitely many there is one that none outranks.                       *)
LEMMA BestExists ==
    ASSUME NEW S \in SUBSET Jdks, IsFiniteSet(S), S # {}
    PROVE  Best(S) # {}
<1> DEFINE N == {n \in Nat : \A T \in SUBSET Jdks :
                    IsFiniteSet(T) /\ T # {} /\ Cardinality(T) = n =>
                      \E j \in T : \A k \in T : ~Beats(k, j)}
<1>1. 0 \in N
  <2>1. \A T : IsFiniteSet(T) /\ Cardinality(T) = 0 => T = {}
    BY FS_EmptySet
  <2> QED  BY <2>1
<1>2. ASSUME NEW n \in Nat, n \in N
      PROVE  n + 1 \in N
  <2> SUFFICES ASSUME NEW T \in SUBSET Jdks, IsFiniteSet(T), T # {}, Cardinality(T) = n + 1
               PROVE  \E j \in T : \A k \in T : ~Beats(k, j)
    OBVIOUS
  <2>1. PICK x \in T : TRUE
    OBVIOUS
  <2> DEFINE R == T \ {x}
  <2>2. IsFiniteSet(R) /\ Cardinality(R) = n
    <3>1. IsFiniteSet(T \ {x}) /\ Cardinality(T \ {x}) = Cardinality(T) - 1
      BY FS_RemoveElement
    <3> HIDE DEF N
    <3> QED  BY <3>1
  <2>3. CASE R = {}
    <3>1. T = {x}
      BY <2>1, <2>3
    <3> QED  BY <3>1, BeatsIsAnOrder
  <2>4. CASE R # {}
    <3>1. PICK b \in R : \A k \in R : ~Beats(k, b)
      BY <1>2, <2>2, <2>4
    <3>2. CASE Beats(x, b)
      <4>1. \A k \in R : ~Beats(k, x)
        BY <3>1, <3>2, BeatsIsAnOrder
      <4> QED  BY <4>1, BeatsIsAnOrder
    <3>3. CASE ~Beats(x, b)
      BY <3>1, <3>3
    <3> QED  BY <3>2, <3>3
  <2> QED  BY <2>3, <2>4
<1> HIDE DEF N
<1>3. Nat \subseteq N
  BY <1>1, <1>2, NatSetInduction
<1>4. Cardinality(S) \in N
  BY <1>3, FS_CardinalityType
<1> QED  BY <1>4 DEF N, Best, Beats

(* And of one vendor's there is no other such.                             *)
LEMMA BestIsOne ==
    ASSUME NEW S \in SUBSET Jdks, IsFiniteSet(S), S # {},
           \A j, k \in S : j.vendor = k.vendor
    PROVE  Cardinality(Best(S)) = 1
<1>1. PICK j \in Best(S) : TRUE
  BY BestExists
<1>2. \A k \in Best(S) : k = j
  BY <1>1, BeatsIsAnOrder DEF Best, Beats
<1>3. Best(S) = {j}
  BY <1>1, <1>2
<1> QED  BY <1>3, FS_Singleton

-----------------------------------------------------------------------------
(* What a walk has come to is what the pin files come to.                  *)
LEMMA WalkDecides ==
    ASSUME NEW at \in Places, NEW view \in [Places -> Contents \cup {Unread}],
           NEW rest \in [{f \in Places : view[f] = Unread} -> Contents],
           Passed(at, view)
    PROVE  /\ view[at].kind = "pin" => Nearest(Filled(view, rest)) = view[at].sel
           /\ view[at].kind \in {"absent", "silent"} /\ EndsHere(at, view) =>
                Nearest(Filled(view, rest)) = NoPin
<1> DEFINE files == Filled(view, rest)
           a == at[1]
           b == at[2]
           Levels == {d \in 1 .. Depth : HasFile(files, d)}
           Decides == CHOOSE d \in Levels : \A e \in Levels : d <= e
           Speaks == {k \in 1 .. Sources : files[<<Decides, k>>].kind \in {"pin", "malformed"}}
<1>1. /\ a \in 1 .. Depth /\ b \in 1 .. Sources /\ at = <<a, b>>
      /\ Depth \in Nat /\ Sources \in Nat
  BY PlaceFacts, ShimAssumption
<1>2. \A d \in 1 .. Depth, k \in 1 .. Sources :
        <<d, k>> \in Places /\ <<d, k>>[1] = d /\ <<d, k>>[2] = k
  BY DEF Places
<1>3. \A f \in Places : view[f] # Unread => files[f] = view[f]
  BY DEF Filled
<1>4. \A f \in Places : view[f].kind # "unread" => files[f] = view[f]
  BY <1>3, KindsOfContent
<1>5. Nearest(files) =
        IF Levels = {} \/ Speaks = {} THEN NoPin
        ELSE files[<<Decides, CHOOSE k \in Speaks : \A l \in Speaks : k <= l>>].sel
  BY DEF Nearest
<1>6. \A f \in Places : Before(f, at) =>
        /\ files[f].kind \in {"absent", "silent"}
        /\ f[1] < a => files[f].kind = "absent"
  BY <1>4 DEF Passed
<1> HIDE DEF files, a, b
<1>7. \A d \in 1 .. Depth : d < a => d \notin Levels
  <2> SUFFICES ASSUME NEW d \in 1 .. Depth, d < a
               PROVE  ~HasFile(files, d)
    OBVIOUS
  <2>1. \A k \in 1 .. Sources : files[<<d, k>>].kind = "absent"
    <3> SUFFICES ASSUME NEW k \in 1 .. Sources
                 PROVE  files[<<d, k>>].kind = "absent"
      OBVIOUS
    <3>1. <<d, k>> \in Places /\ <<d, k>>[1] = d
      BY <1>2
    <3>2. Before(<<d, k>>, at)
      BY <3>1 DEF Before, a
    <3> QED  BY <1>6, <3>1, <3>2
  <2> QED  BY <2>1 DEF HasFile
<1>8. a \in Levels => Decides = a
  <2> SUFFICES ASSUME a \in Levels
               PROVE  Decides = a
    OBVIOUS
  <2>1. \A e \in Levels : a <= e
    BY <1>1, <1>7
  <2>2. Decides \in Levels /\ \A e \in Levels : Decides <= e
    BY <2>1
  <2> HIDE DEF Decides
  <2>3. a \in Nat /\ Decides \in Nat
    BY <1>1, <2>2
  <2> QED  BY <2>1, <2>2, <2>3
<1>9. ASSUME view[at].kind = "pin"
      PROVE  Nearest(files) = view[at].sel
  <2>1. files[at] = view[at] /\ files[<<a, b>>].kind = "pin"
    BY <1>1, <1>4, <1>9
  <2>2. a \in Levels
    BY <1>1, <2>1 DEF HasFile
  <2>3. Decides = a
    BY <1>8, <2>2
  <2> HIDE DEF Decides, Levels
  <2>4. b \in Speaks
    BY <1>1, <2>1, <2>3
  <2>5. \A k \in Speaks : b <= k
    <3> SUFFICES ASSUME NEW k \in 1 .. Sources, k < b
                 PROVE  files[<<a, k>>].kind \notin {"pin", "malformed"}
      BY <1>1, <2>3
    <3>1. <<a, k>> \in Places /\ Before(<<a, k>>, at)
      BY <1>1, <1>2 DEF Before, a, b
    <3> QED  BY <1>6, <3>1
  <2> DEFINE First == CHOOSE k \in Speaks : \A l \in Speaks : k <= l
  <2>6. First \in Speaks /\ \A l \in Speaks : First <= l
    BY <2>4, <2>5
  <2>7. First \in Nat /\ b \in Nat
    BY <1>1, <2>6
  <2> HIDE DEF First
  <2>8. First = b
    BY <2>4, <2>5, <2>6, <2>7
  <2> HIDE DEF Speaks
  <2>9. Nearest(files) = files[<<Decides, First>>].sel
    BY <1>5, <2>2, <2>4 DEF First
  <2> QED  BY <1>1, <2>1, <2>3, <2>8, <2>9
<1>10. ASSUME view[at].kind \in {"absent", "silent"}, EndsHere(at, view)
       PROVE  Nearest(files) = NoPin
  <2>1. files[at] = view[at] /\ b = Sources
    BY <1>4, <1>10 DEF EndsHere, b
  <2>2. \A k \in 1 .. Sources :
          files[<<a, k>>] = view[<<a, k>>] /\ files[<<a, k>>].kind \in {"absent", "silent"}
    <3> SUFFICES ASSUME NEW k \in 1 .. Sources
                 PROVE  /\ files[<<a, k>>] = view[<<a, k>>]
                        /\ files[<<a, k>>].kind \in {"absent", "silent"}
      OBVIOUS
    <3>1. CASE k = b
      BY <1>1, <1>10, <2>1, <3>1
    <3>2. CASE k < b
      <4>1. <<a, k>> \in Places /\ Before(<<a, k>>, at)
        BY <1>1, <1>2, <3>2 DEF Before, a, b
      <4>2. view[<<a, k>>].kind \in {"absent", "silent"}
        BY <4>1 DEF Passed
      <4> QED  BY <1>4, <4>1, <4>2
    <3> QED  BY <1>1, <2>1, <3>1, <3>2
  <2>3. CASE HasFile(view, a)
    <3>1. a \in Levels
      BY <1>1, <2>2, <2>3 DEF HasFile
    <3>2. Decides = a
      BY <1>8, <3>1
    <3> HIDE DEF Decides, Levels
    <3>3. Speaks = {}
      BY <2>2, <3>2
    <3> HIDE DEF Speaks
    <3> QED  BY <1>5, <3>3
  <2>4. CASE ~HasFile(view, a) /\ a = Depth
    <3>1. a \notin Levels
      BY <2>2, <2>4 DEF HasFile
    <3>2. Levels = {}
      BY <1>1, <1>7, <2>4, <3>1
    <3> HIDE DEF Levels
    <3> QED  BY <1>5, <3>2
  <2> QED  BY <1>10, <2>3, <2>4 DEF EndsHere, a
<1> QED  BY <1>9, <1>10 DEF files

(* The walk comes to what the pin files come to, of any number of          *)
(* directories and of formats, however they are written meanwhile          *)
(* (cascade.rs:64-67).                                                     *)
THEOREM NearestPinDecides == Spec => []CascadeIsNearest
<1>1. ShimInv => CascadeIsNearest
  <2> SUFFICES ASSUME ShimInv, NEW p \in Procs, pc[p] \in {"vendor", "global"},
                      NEW rest \in [{f \in Places : run[p].view[f] = Unread} -> Contents]
               PROVE  Nearest(Filled(run[p].view, rest)) = run[p].sel
    BY DEF CascadeIsNearest
  <2> DEFINE at == run[p].at
             view == run[p].view
  <2>1. at \in Places /\ view \in [Places -> Contents \cup {Unread}] /\ Passed(at, view)
    BY TheRun DEF Sound, Walk
  <2>2. CASE pc[p] = "vendor"
    <3>1. view[at].kind = "pin" /\ view[at].sel = run[p].sel
      BY <2>2, TheRun DEF Sound, Walk
    <3> QED  BY <2>1, <3>1, WalkDecides
  <2>3. CASE pc[p] = "global"
    <3>1. view[at].kind \in {"absent", "silent"} /\ EndsHere(at, view) /\ run[p].sel = NoPin
      BY <2>3, TheRun DEF Sound, Walk
    <3> QED  BY <2>1, <3>1, WalkDecides
  <2> QED  BY <2>2, <2>3
<1> QED  BY <1>1, ShimInvHolds, PTL

(* What runs for a pin is of the pinned vendor and line, whatever the      *)
(* packages and however many install, uninstall and configure meanwhile    *)
(* (main.rs:98-117).                                                       *)
THEOREM ThePinRuns == Spec => []RunsThePin
<1>1. ShimInv => RunsThePin
  <2> SUFFICES ASSUME ShimInv, NEW p \in Procs, pc[p] = "launch", run[p].sel # NoPin
               PROVE  LET v == Parse(Target(p).version)
                          flat == IF LoneBuild(v) THEN Folded(v) ELSE v.nums
                      IN  /\ run[p].sel.vendor \in {NoVendor, Target(p).vendor}
                          /\ IsPrefix(run[p].sel.version.head, flat)
    BY DEF RunsThePin
  <2>1. /\ Answers(run[p].pick, run[p].vendor, run[p].sel)
        /\ run[p].sel.vendor \in {NoVendor, run[p].vendor}
        /\ Target(p) = run[p].pick
    BY TheRun DEF Sound, Doing, Pins, Target
  <2>2. run[p].pick.version \in Texts /\ run[p].sel.version \in Texts
    <3>1. run[p].pick \in Jdks \cup {NoJdk} /\ run[p].sel \in Selectors
      BY TheRun DEF RunType
    <3> QED  BY <3>1, JdkTexts, ShimAssumption DEF NoJdk, Selector
  <2>3. IsVersion(Parse(run[p].pick.version)) /\ IsVersion(Parse(run[p].sel.version))
        /\ Parse(run[p].sel.version).nums = run[p].sel.version.head
    BY <2>2, ParseTypes
  <2> QED  BY <2>1, <2>3, MatchingIsOfTheLine DEF Answers
<1> QED  BY <1>1, ShimInvHolds, PTL

(* Of what is installed and answers a selector exactly one JDK is the best,*)
(* whatever is installed: the ranking is a strict total order, and the name*)
(* of a store directory that of one version (version.rs:24-28).            *)
THEOREM OneIsBest == Spec => []RankDecides
<1>1. ShimInv => RankDecides
  <2> SUFFICES ASSUME ShimInv, NEW v \in Vendors, NEW s \in Selectors, Candidates(v, s) # {}
               PROVE  Cardinality(Best(Candidates(v, s))) = 1
    BY DEF RankDecides
  <2> DEFINE C == Candidates(v, s)
  <2>1. C \in SUBSET Jdks /\ C \subseteq installed /\ \A j, k \in C : j.vendor = k.vendor
    BY DEF Candidates, ShimInv, ShimTyped
  <2>2. IsFiniteSet(C)
    BY <2>1, FS_Subset DEF ShimInv, ShimTyped
  <2> HIDE DEF C
  <2>3. Cardinality(Best(C)) = 1
    BY <2>1, <2>2, BestIsOne DEF C
  <2> QED  BY <2>3 DEF C
<1> QED  BY <1>1, ShimInvHolds, PTL

-----------------------------------------------------------------------------
(* What a command knows of the configuration and the store, as long as     *)
(* nobody has changed them but by installing.                              *)

(* A java goes by the configured vendor where the pin names none; what is  *)
(* installed for it answers the pin, and has no terms to accept.           *)
JavaKnows(p) ==
    /\ pc[p] \in {"find", "policy", "ask", "spawn", "catalog"} =>
         run[p].vendor = Means(run[p].sel, config.vendor)
    /\ pc[p] \in {"terms", "install", "elect", "rescan"} =>
         Answers(run[p].pick, run[p].vendor, run[p].sel)
    /\ pc[p] = "install" =>
         run[p].pick.vendor \notin Proprietary \/ run[p].pick \in installed
    /\ pc[p] \in {"elect", "rescan"} => run[p].pick \in installed

Knows(p) ==
    /\ pc[p] # "idle" => code[p] = "none"
    /\ run[p].op = "java" => ~run[p].consent
    /\ run[p].op = "java" /\ ~run[p].edited => JavaKnows(p)

(* What it knows if it is alone: that nothing answers, and what is best.   *)
JavaAlone(p) ==
    pc[p] \in {"policy", "ask", "spawn", "catalog"} =>
        Candidates(run[p].vendor, run[p].sel) = {}

ReportAlone(p) ==
    /\ pc[p] \in {"cascade", "vendor"} => run[p].vendor = config.vendor
    /\ pc[p] = "find" => run[p].vendor = Means(run[p].sel, config.vendor)
    /\ pc[p] = "exists" => Target(p) \in ShimRuns(run[p].sel)

Alone(p) ==
    ~run[p].edited =>
        /\ run[p].op = "java" => JavaAlone(p)
        /\ run[p].op \in Reports => ReportAlone(p)

KnowInv == ShimInv /\ code = [p \in Procs |-> code[p]] /\ \A p \in Procs : Knows(p)

OneProcess == \A p, q \in Procs : p = q

AloneInv == KnowInv /\ \A p \in Procs : Alone(p)

-----------------------------------------------------------------------------
(* One command acts at a time, and the others' installs only add.          *)

Begins(p) ==
    \/ \E t \in BOOLEAN :
         \/ BeginJava(p, t)
         \/ \E s \in Selectors, flag \in BOOLEAN : BeginInstall(p, s, flag, t)
    \/ \E c \in Reports : BeginReport(p, c)

Acts(p) == Begins(p) \/ Step(p) \/ Answer(p)

(* Of the others, and of the configuration, nothing changes.               *)
Apart(p) ==
    /\ \A q \in Procs : q # p =>
         pc'[q] = pc[q] /\ run'[q] = run[q] /\ code'[q] = code[q]
    /\ code' = [q \in Procs |-> code'[q]]
    /\ config' = config /\ installed \subseteq installed'

(* How an action of a command changes what it is about.                    *)
LEMMA Apartness ==
    ASSUME KnowInv, NEW p \in Procs,
           \/ \E w : pc' = [pc EXCEPT ![p] = w]
           \/ UNCHANGED pc,
           \/ \E r : run' = [run EXCEPT ![p] = r]
           \/ UNCHANGED run,
           \/ \E c : code' = [code EXCEPT ![p] = c]
           \/ UNCHANGED code,
           config' = config, installed \subseteq installed'
    PROVE  Apart(p)
<1>1. pc \in [Procs -> Steps] /\ run \in [Procs -> RunType] /\ code = [q \in Procs |-> code[q]]
  BY DEF KnowInv, ShimInv, ShimTyped
<1>2. \A q \in Procs : q # p => pc'[q] = pc[q]
  BY <1>1
<1>3. \A q \in Procs : q # p => run'[q] = run[q]
  BY <1>1
<1>4. (\A q \in Procs : q # p => code'[q] = code[q]) /\ code' = [q \in Procs |-> code'[q]]
  BY <1>1
<1> QED  BY <1>2, <1>3, <1>4 DEF Apart

LEMMA EndsApart ==
    ASSUME KnowInv, NEW p \in Procs, NEW c, End(p, c), config' = config,
           installed \subseteq installed'
    PROVE  /\ Apart(p)
           /\ pc'[p] = "idle" /\ run'[p] = NoRun /\ code'[p] = c
<1>1. Apart(p)
  BY Apartness DEF End
<1>2. pc \in [Procs -> Steps] /\ run \in [Procs -> RunType] /\ code = [q \in Procs |-> code[q]]
  BY DEF KnowInv, ShimInv, ShimTyped
<1> QED  BY <1>1, <1>2 DEF End

(* It goes on: r is what it has found out.                                 *)
LEMMA GoesApart ==
    ASSUME KnowInv, NEW p \in Procs, NEW w, NEW r, Goto(p, w), run' = [run EXCEPT ![p] = r],
           config' = config, installed \subseteq installed'
    PROVE  /\ Apart(p)
           /\ pc'[p] = w /\ run'[p] = r /\ code'[p] = code[p]
<1>1. Apart(p)
  BY Apartness DEF Goto
<1>2. pc \in [Procs -> Steps] /\ run \in [Procs -> RunType]
  BY DEF KnowInv, ShimInv, ShimTyped
<1> QED  BY <1>1, <1>2 DEF Goto

LEMMA StaysApart ==
    ASSUME KnowInv, NEW p \in Procs, NEW w, Goto(p, w), UNCHANGED run,
           config' = config, installed \subseteq installed'
    PROVE  /\ Apart(p)
           /\ pc'[p] = w /\ run'[p] = run[p] /\ code'[p] = code[p]
<1>1. run' = [run EXCEPT ![p] = run[p]]
  BY DEF KnowInv, ShimInv, ShimTyped
<1> QED  BY <1>1, GoesApart

-----------------------------------------------------------------------------
(* What an action of a command leaves it knowing.                          *)

Told(p) == Apart(p) /\ Knows(p)' /\ (Alone(p) => Alone(p)')

LEMMA EndsTold ==
    ASSUME KnowInv, NEW p \in Procs, NEW c, End(p, c), config' = config,
           installed \subseteq installed'
    PROVE  Told(p)
<1>1. /\ Apart(p) /\ pc'[p] = "idle" /\ run'[p] = NoRun
      /\ NoRun.op = "java" /\ ~NoRun.consent /\ "java" \notin Reports
  BY EndsApart DEF NoRun, Reports
<1> QED  BY <1>1 DEF Told, Knows, JavaKnows, Alone, JavaAlone

LEMMA EnvSame ==
    ASSUME UNCHANGED env
    PROVE  config' = config /\ installed' = installed /\ global' = global
           /\ installed \subseteq installed'
BY DEF env

(* It goes on to what is of no account here.                               *)
LEMMA GoesTold ==
    ASSUME KnowInv, NEW p \in Procs, pc[p] # "idle",
           NEW w \in {"cascade", "vendor", "global", "exists", "launch"},
           Apart(p), pc'[p] = w, code'[p] = code[p],
           run'[p].op = run[p].op, run'[p].consent = run[p].consent
    PROVE  Knows(p)'
BY DEF KnowInv, Knows, JavaKnows

LEMMA BeginsTold ==
    ASSUME KnowInv, NEW p \in Procs, Begins(p)
    PROVE  Told(p) /\ code'[p] = "none"
<1>1. /\ pc \in [Procs -> Steps] /\ run \in [Procs -> RunType]
      /\ code = [q \in Procs |-> code[q]]
      /\ NoRun.op = "java" /\ ~NoRun.consent /\ "java" \notin Reports /\ "install" \notin Reports
  BY DEF KnowInv, ShimInv, ShimTyped, NoRun, Reports
<1>2. ASSUME NEW l \in {"cascade", "catalog", "settings"}, NEW r, Start(p, l, r)
      PROVE  /\ Apart(p)
             /\ pc'[p] = l /\ run'[p] = r /\ code'[p] = "none"
  <2>1. Apart(p)
    BY <1>2, Apartness, EnvSame DEF Start
  <2> QED  BY <1>1, <1>2, <2>1 DEF Start
<1>3. ASSUME NEW t \in BOOLEAN, BeginJava(p, t)
      PROVE  Told(p) /\ code'[p] = "none"
  <2> DEFINE r == [NoRun EXCEPT !.tty = t]
  <2>1. r.op = "java" /\ ~r.consent
    BY DEF NoRun
  <2>2. Start(p, "cascade", r)
    BY <1>3 DEF BeginJava
  <2> HIDE DEF r
  <2>3. Apart(p) /\ pc'[p] = "cascade" /\ run'[p] = r /\ code'[p] = "none"
    BY <1>2, <2>2
  <2> QED  BY <1>1, <2>1, <2>3 DEF Told, Knows, JavaKnows, Alone, JavaAlone
<1>4. ASSUME NEW t \in BOOLEAN, NEW s \in Selectors, NEW flag \in BOOLEAN,
             BeginInstall(p, s, flag, t)
      PROVE  Told(p) /\ code'[p] = "none"
  <2> DEFINE r == [NoRun EXCEPT !.op = "install", !.sel = s, !.consent = flag, !.tty = t]
  <2>1. r.op = "install"
    BY DEF NoRun
  <2>2. Start(p, "catalog", r)
    BY <1>4 DEF BeginInstall
  <2> HIDE DEF r
  <2>3. Apart(p) /\ pc'[p] = "catalog" /\ run'[p] = r /\ code'[p] = "none"
    BY <1>2, <2>2
  <2> QED  BY <1>1, <2>1, <2>3 DEF Told, Knows, Alone
<1>5. ASSUME NEW c \in Reports, BeginReport(p, c)
      PROVE  Told(p) /\ code'[p] = "none"
  <2> DEFINE r == [NoRun EXCEPT !.op = c]
  <2>1. r.op \in Reports
    BY DEF NoRun
  <2>2. Start(p, "settings", r)
    BY <1>5 DEF BeginReport
  <2> HIDE DEF r
  <2>3. Apart(p) /\ pc'[p] = "settings" /\ run'[p] = r /\ code'[p] = "none"
    BY <1>2, <2>2
  <2> QED  BY <1>1, <2>1, <2>3 DEF Told, Knows, Alone, ReportAlone
<1> QED  BY <1>3, <1>4, <1>5 DEF Begins

LEMMA NoPinIsNone == NoPin \notin Selectors /\ NoPin.vendor = NoVendor
<1>1. NoPin.version.head = <<>> /\ NoPin.vendor = NoVendor
  BY DEF NoPin, NoJdk, NoText
<1> QED  BY <1>1, ShimAssumption

(* What the shim would run for a pin goes by the vendor the pin means.     *)
LEMMA ShimRunsIs ==
    ASSUME NEW s \in Selectors
    PROVE  ShimRuns(s) = Best(Candidates(Means(s, config.vendor), s))
<1>1. s # NoPin
  BY NoPinIsNone
<1>2. Means(s, IF NeedsVendor(s) THEN config.vendor ELSE Default) = Means(s, config.vendor)
  BY DEF Means, NeedsVendor
<1> QED  BY <1>1, <1>2 DEF ShimRuns

LEMMA ReadingTold ==
    ASSUME KnowInv, NEW p \in Procs,
           \/ LoadSettings(p) \/ CascadeFails(p)
           \/ \E c \in Contents : NoDeclaration(p, c) \/ Declaration(p, c)
    PROVE  Told(p)
<1>1. run[p] \in RunType /\ pc \in [Procs -> Steps] /\ run \in [Procs -> RunType]
  BY DEF KnowInv, ShimInv, ShimTyped
<1>2. CASE LoadSettings(p)
  <2>1. config' = config /\ installed \subseteq installed' /\ pc[p] = "settings"
        /\ run[p].op \in Reports /\ "java" \notin Reports
    BY <1>2, TheRun, EnvSame DEF KnowInv, LoadSettings, Sound, Doing, Reports
  <2>2. CASE End(p, "badconfig")
    BY <2>1, <2>2, EndsTold
  <2>3. CASE run' = [run EXCEPT ![p].vendor = config.vendor] /\ Goto(p, "cascade")
    <3> DEFINE r == [run[p] EXCEPT !.vendor = config.vendor]
    <3>1. r.op = run[p].op /\ r.consent = run[p].consent /\ r.vendor = config.vendor
      BY <1>1 DEF RunType
    <3>2. Apart(p) /\ pc'[p] = "cascade" /\ run'[p] = r /\ code'[p] = code[p]
      BY <2>1, <2>3, GoesApart
    <3> HIDE DEF r
    <3>3. Knows(p)'
      BY <2>1, <3>1, <3>2, GoesTold
    <3> QED  BY <2>1, <3>1, <3>2, <3>3 DEF Told, Alone, ReportAlone
  <2> QED  BY <1>2, <2>2, <2>3 DEF LoadSettings
<1>3. CASE CascadeFails(p)
  BY <1>3, EndsTold, EnvSame DEF CascadeFails
<1>4. ASSUME NEW c \in Contents, NoDeclaration(p, c)
      PROVE  Told(p)
  <2> DEFINE view == Seen(p, c)
  <2>1. config' = config /\ installed \subseteq installed' /\ pc[p] = "cascade"
    BY <1>4, EnvSame DEF NoDeclaration
  <2>2. CASE run' = [run EXCEPT ![p].view = view] /\ Goto(p, "global")
    <3> DEFINE r == [run[p] EXCEPT !.view = view]
    <3>1. r.op = run[p].op /\ r.consent = run[p].consent
      BY <1>1 DEF RunType
    <3>2. Apart(p) /\ pc'[p] = "global" /\ run'[p] = r /\ code'[p] = code[p]
      BY <2>1, <2>2, GoesApart
    <3> HIDE DEF r
    <3>3. Knows(p)'
      BY <2>1, <3>1, <3>2, GoesTold
    <3> QED  BY <3>2, <3>3 DEF Told, Alone, ReportAlone, JavaAlone
  <2>3. CASE UNCHANGED <<pc, code>>
             /\ run' = [run EXCEPT ![p].view = view, ![p].at = NextPlace(@)]
    <3> DEFINE n == NextPlace(run[p].at)
               r == [run[p] EXCEPT !.view = view, !.at = n]
    <3>1. r.op = run[p].op /\ r.consent = run[p].consent /\ r.vendor = run[p].vendor
          /\ r.edited = run[p].edited
      BY <1>1 DEF RunType
    <3>2. run' = [run EXCEPT ![p] = r] /\ run'[p] = r
      BY <1>1, <2>3
    <3> HIDE DEF r
    <3>3. Apart(p) /\ pc'[p] = "cascade" /\ code'[p] = code[p]
      BY <2>1, <2>3, <3>2, Apartness
    <3>4. Knows(p)'
      BY <2>1, <3>1, <3>2, <3>3, GoesTold
    <3> QED  BY <2>1, <3>1, <3>2, <3>3, <3>4 DEF Told, Alone, ReportAlone, JavaAlone
  <2> QED  BY <1>4, <2>2, <2>3 DEF NoDeclaration
<1>5. ASSUME NEW c \in Contents, Declaration(p, c)
      PROVE  Told(p)
  <2> DEFINE r == [run[p] EXCEPT !.view = Seen(p, c), !.sel = c.sel]
  <2>1. config' = config /\ installed \subseteq installed' /\ pc[p] = "cascade"
        /\ Goto(p, "vendor") /\ run' = [run EXCEPT ![p] = r]
    BY <1>5, EnvSame DEF Declaration
  <2>2. r.op = run[p].op /\ r.consent = run[p].consent /\ r.vendor = run[p].vendor
        /\ r.edited = run[p].edited
    BY <1>1 DEF RunType
  <2> HIDE DEF r
  <2>3. Apart(p) /\ pc'[p] = "vendor" /\ run'[p] = r /\ code'[p] = code[p]
    BY <2>1, GoesApart
  <2>4. Knows(p)'
    BY <2>1, <2>2, <2>3, GoesTold
  <2> QED  BY <2>1, <2>2, <2>3, <2>4 DEF Told, Alone, ReportAlone, JavaAlone
<1> QED  BY <1>2, <1>3, <1>4, <1>5

LEMMA VendorTold ==
    ASSUME KnowInv, NEW p \in Procs, LoadVendor(p)
    PROVE  Told(p)
<1> DEFINE v == Means(run[p].sel, Given(p))
           r == [run[p] EXCEPT !.vendor = v, !.view = NoView, !.at = NoRun.at]
<1>1. /\ config' = config /\ installed \subseteq installed' /\ pc[p] = "vendor"
      /\ run[p].op \in {"java"} \cup Reports /\ "java" \notin Reports
  BY TheRun, EnvSame DEF KnowInv, LoadVendor, Sound, Doing, RunType, Ops, Reports
<1>2. CASE End(p, "badconfig")
  BY <1>1, <1>2, EndsTold
<1>3. CASE Goto(p, "find")
           /\ run' = [run EXCEPT ![p].vendor = v, ![p].view = NoView, ![p].at = NoRun.at]
  <2>1. /\ r.op = run[p].op /\ r.consent = run[p].consent /\ r.vendor = v
        /\ r.edited = run[p].edited /\ r.sel = run[p].sel
    BY TheRun DEF KnowInv, RunType
  <2>2. run' = [run EXCEPT ![p] = r]
    BY <1>3
  <2> HIDE DEF r
  <2>3. Apart(p) /\ pc'[p] = "find" /\ run'[p] = r /\ code'[p] = code[p]
    BY <1>1, <1>3, <2>2, GoesApart
  <2>4. run[p].op = "java" => v = Means(run[p].sel, config.vendor)
    <3> SUFFICES ASSUME run[p].op = "java"
                 PROVE  v = Means(run[p].sel, config.vendor)
      OBVIOUS
    <3>1. run[p].op \notin Reports
      BY <1>1
    <3>2. CASE run[p].sel.vendor = NoVendor
      BY <3>1, <3>2 DEF Given, Means, NeedsVendor
    <3>3. CASE run[p].sel.vendor # NoVendor
      BY <3>3 DEF Means
    <3> QED  BY <3>2, <3>3
  <2>5. run[p].op \in Reports => v = Means(run[p].sel, run[p].vendor)
    BY <1>1 DEF Given
  <2> HIDE DEF v
  <2>6. code[p] = "none" /\ (run[p].op = "java" => ~run[p].consent)
    BY <1>1 DEF KnowInv, Knows
  <2>7. Knows(p)'
    BY <1>1, <2>1, <2>3, <2>4, <2>6 DEF Knows, JavaKnows
  <2>8. Alone(p) => Alone(p)'
    BY <1>1, <2>1, <2>3, <2>5 DEF Alone, ReportAlone, JavaAlone
  <2> QED  BY <2>3, <2>7, <2>8 DEF Told
<1> QED  BY <1>2, <1>3 DEF LoadVendor

LEMMA FindTold ==
    ASSUME KnowInv, NEW p \in Procs, Find(p)
    PROVE  Told(p)
<1>1. PICK j \in Best(Answering(p)) : run' = [run EXCEPT ![p].pick = j]
  BY DEF Find
<1> DEFINE r == [run[p] EXCEPT !.pick = j]
<1>2. /\ r.op = run[p].op /\ r.consent = run[p].consent /\ r.vendor = run[p].vendor
      /\ r.edited = run[p].edited /\ r.sel = run[p].sel /\ r.pick = j
  BY TheRun DEF KnowInv, RunType
<1>3. run' = [run EXCEPT ![p] = r]
  BY <1>1
<1> HIDE DEF r
<1>4. /\ config' = config /\ installed' = installed /\ global' = global
      /\ installed \subseteq installed' /\ Goto(p, "exists")
      /\ pc[p] \in {"find", "rescan"} /\ pc[p] # "idle"
      /\ pc[p] = "rescan" => run[p].op \notin Reports
      /\ run[p].sel \in Selectors
  BY TheRun, EnvSame DEF KnowInv, Find, Sound, Doing, Walk, Looking, Reports
<1>5. Apart(p) /\ pc'[p] = "exists" /\ run'[p] = r /\ code'[p] = code[p]
  BY <1>3, <1>4, GoesApart
<1>6. Knows(p)'
  BY <1>2, <1>4, <1>5, GoesTold
<1>7. ASSUME Alone(p)
      PROVE  Alone(p)'
  <2> DEFINE best == Best(Candidates(Means(run[p].sel, config.vendor), run[p].sel))
  <2>1. run'[p].sel = run[p].sel /\ run[p].sel # NoPin /\ run'[p].pick = j
    BY <1>2, <1>4, <1>5, NoPinIsNone
  <2>2. ASSUME ~run[p].edited, run[p].op \in Reports
        PROVE  j \in best
    <3>1. run[p].vendor = Means(run[p].sel, config.vendor)
      BY <1>4, <1>7, <2>2 DEF Alone, ReportAlone
    <3> QED  BY <1>1, <3>1 DEF Answering
  <2>3. Target(p)' = j
    BY <2>1 DEF Target
  <2>4. ShimRuns(run[p].sel)' = best
    <3>1. Means(run[p].sel, IF NeedsVendor(run[p].sel) THEN config.vendor ELSE Default)
            = Means(run[p].sel, config.vendor)
      BY DEF Means, NeedsVendor
    <3> QED  BY <1>4, <2>1, <3>1 DEF ShimRuns, Candidates, Best, NeedsVendor
  <2> HIDE DEF best
  <2> QED  BY <1>2, <1>5, <2>2, <2>3, <2>4 DEF Alone, ReportAlone, JavaAlone
<1> QED  BY <1>5, <1>6, <1>7 DEF Told

LEMMA AskingTold ==
    ASSUME KnowInv, NEW p \in Procs,
           \/ FindsNothing(p) \/ ScanFails(p) \/ DecideInstall(p) \/ Answer(p) \/ Spawn(p)
    PROVE  Told(p)
<1>1. /\ config' = config /\ installed' = installed /\ installed \subseteq installed'
      /\ pc[p] \in {"find", "rescan", "policy", "ask", "spawn"}
      /\ pc[p] \in {"policy", "ask", "spawn", "rescan"} => run[p].op = "java"
  BY TheRun, EnvSame DEF KnowInv, FindsNothing, ScanFails, DecideInstall, Answer, Spawn,
     Sound, Doing
<1>2. ASSUME NEW c, End(p, c)
      PROVE  Told(p)
  BY <1>1, <1>2, EndsTold
<1>3. ASSUME NEW w \in {"policy", "ask", "spawn", "catalog"}, Goto(p, w), UNCHANGED run,
             pc[p] \in {"find", "policy", "ask", "spawn"}, run[p].op = "java",
             pc[p] = "find" => Answering(p) = {}
      PROVE  Told(p)
  <2>1. Apart(p) /\ pc'[p] = w /\ run'[p] = run[p] /\ code'[p] = code[p]
    BY <1>1, <1>3, StaysApart
  <2>2. Knows(p) /\ "java" \notin Reports
    BY DEF KnowInv, Reports
  <2>3. Knows(p)'
    BY <1>1, <1>3, <2>1, <2>2 DEF Knows, JavaKnows
  <2>4. Alone(p) => Alone(p)'
    BY <1>1, <1>3, <2>1, <2>2 DEF Alone, JavaAlone, Candidates, Answering
  <2> QED  BY <2>1, <2>3, <2>4 DEF Told
<1>4. CASE FindsNothing(p)
  BY <1>2, <1>3, <1>4 DEF FindsNothing
<1>5. CASE ScanFails(p)
  BY <1>2, <1>5 DEF ScanFails
<1>6. CASE DecideInstall(p)
  <2>1. pc[p] = "policy" /\ run[p].op = "java"
    BY <1>1, <1>6 DEF DecideInstall
  <2> QED  BY <1>2, <1>3, <1>6, <2>1 DEF DecideInstall
<1>7. CASE Answer(p)
  <2>1. pc[p] = "ask" /\ run[p].op = "java"
    BY <1>1, <1>7 DEF Answer
  <2> QED  BY <1>2, <1>3, <1>7, <2>1 DEF Answer
<1>8. CASE Spawn(p)
  <2>1. pc[p] = "spawn" /\ run[p].op = "java"
    BY <1>1, <1>8 DEF Spawn
  <2> QED  BY <1>2, <1>3, <1>8, <2>1 DEF Spawn
<1> QED  BY <1>4, <1>5, <1>6, <1>7, <1>8

(* What the catalogue chooses for the shim answers the pin in the store:   *)
(* both are read back as they were written.                                *)
LEMMA ChosenAnswers ==
    ASSUME KnowInv, NEW p \in Procs, pc[p] = "catalog", run[p].op = "java",
           ~run[p].edited, NEW k \in Offers(p)
    PROVE  Answers(Jdk(k), run[p].vendor, run[p].sel)
<1>1. /\ run[p].sel \in Selectors
      /\ run[p].vendor = Means(run[p].sel, config.vendor)
  BY TheRun DEF KnowInv, Knows, JavaKnows, Sound, Walk, Looking
<1>2. /\ k \in Published \cup Live /\ k.vendor = Meant(p)
      /\ Matches(Parse(k.version), Asked(p))
  BY DEF Offers, PickBest, Eligible, Matching
<1>3. Asked(p) = Parse(run[p].sel.version)
  <2>1. run[p].sel.version \in Texts
    BY <1>1, ShimAssumption DEF Selector
  <2> QED  BY <2>1, RoundTrip DEF Asked
<1>4. /\ Jdk(k).vendor = k.vendor
      /\ Parse(Jdk(k).version) = Parse(k.version)
  <2>1. k.version \in Texts
    BY <1>2, ShimAssumption DEF Package
  <2> QED  BY <2>1, RoundTrip DEF Jdk
<1> QED  BY <1>1, <1>2, <1>3, <1>4 DEF Answers, Meant

LEMMA ResolveTold ==
    ASSUME KnowInv, NEW p \in Procs, Resolve(p) \/ ResolveFails(p)
    PROVE  Told(p)
<1>1. /\ config' = config /\ installed' = installed /\ installed \subseteq installed'
      /\ pc[p] = "catalog" /\ run[p].op \notin Reports
  BY TheRun, EnvSame DEF KnowInv, Resolve, ResolveFails, Sound, Doing, Reports
<1>2. CASE ResolveFails(p)
  BY <1>1, <1>2, EndsTold DEF ResolveFails
<1>3. CASE Resolve(p)
  <2>1. PICK k \in Offers(p) :
          run' = [run EXCEPT ![p].pick = Jdk(k), ![p].consent = Consent(p)]
    BY <1>3 DEF Resolve
  <2> DEFINE j == Jdk(k)
             c == Consent(p)
             r == [run[p] EXCEPT !.pick = j, !.consent = c]
  <2>2. /\ run' = [run EXCEPT ![p] = r] /\ Goto(p, "terms")
    BY <1>3, <2>1 DEF Resolve
  <2>3. run[p].op = "java" => ~run[p].consent /\ ~c
    BY DEF KnowInv, Knows, Consent
  <2>4. run[p].op = "java" /\ ~run[p].edited => Answers(j, run[p].vendor, run[p].sel)
    BY <1>1, ChosenAnswers
  <2> HIDE DEF j, c
  <2>5. /\ r.op = run[p].op /\ r.consent = c /\ r.vendor = run[p].vendor
        /\ r.edited = run[p].edited /\ r.sel = run[p].sel /\ r.pick = j
    BY TheRun DEF KnowInv, RunType
  <2> HIDE DEF r
  <2>6. Apart(p) /\ pc'[p] = "terms" /\ run'[p] = r /\ code'[p] = code[p]
    BY <1>1, <2>2, GoesApart
  <2>7. code[p] = "none"
    BY <1>1 DEF KnowInv, Knows
  <2>8. Knows(p)'
    BY <2>3, <2>4, <2>5, <2>6, <2>7 DEF Knows, JavaKnows, Answers
  <2>9. Alone(p)'
    BY <1>1, <2>5, <2>6 DEF Alone, JavaAlone
  <2> QED  BY <2>6, <2>8, <2>9 DEF Told
<1> QED  BY <1>2, <1>3

LEMMA TermsTold ==
    ASSUME KnowInv, NEW p \in Procs, Terms(p)
    PROVE  Told(p)
<1>1. /\ config' = config /\ installed' = installed /\ installed \subseteq installed'
      /\ pc[p] = "terms" /\ run[p].op \notin Reports
  BY TheRun, EnvSame DEF KnowInv, Terms, Sound, Doing, Reports
<1>2. CASE End(p, "declined")
  BY <1>1, <1>2, EndsTold
<1>3. CASE /\ Goto(p, "install") /\ UNCHANGED run
           /\ \/ run[p].pick.vendor \notin Proprietary \/ run[p].pick \in installed
              \/ run[p].consent
              \/ run[p].op = "install" /\ run[p].tty
  <2>1. Apart(p) /\ pc'[p] = "install" /\ run'[p] = run[p] /\ code'[p] = code[p]
    BY <1>1, <1>3, StaysApart
  <2>2. Knows(p)
    BY DEF KnowInv
  <2>3. Knows(p)'
    BY <1>1, <1>3, <2>1, <2>2 DEF Knows, JavaKnows, Answers
  <2>4. Alone(p)'
    BY <1>1, <2>1 DEF Alone, JavaAlone
  <2> QED  BY <2>1, <2>3, <2>4 DEF Told
<1> QED  BY <1>2, <1>3 DEF Terms

LEMMA InstallTold ==
    ASSUME KnowInv, NEW p \in Procs, Install(p) \/ Elect(p) \/ ElectFails(p)
    PROVE  Told(p)
<1>1. /\ config' = config /\ installed \subseteq installed'
      /\ pc[p] \in {"install", "elect"} /\ run[p].op \notin Reports
  BY TheRun, EnvSame DEF KnowInv, Install, Elect, ElectFails, Sound, Doing, Reports
<1>2. ASSUME NEW c, End(p, c)
      PROVE  Told(p)
  BY <1>1, <1>2, EndsTold
<1>3. ASSUME NEW w \in {"elect", "rescan"}, Goto(p, w), UNCHANGED run,
             run[p].pick \in installed' \/ pc[p] = "elect"
      PROVE  Told(p)
  <2>1. Apart(p) /\ pc'[p] = w /\ run'[p] = run[p] /\ code'[p] = code[p]
    BY <1>1, <1>3, StaysApart
  <2>2. Knows(p)
    BY DEF KnowInv
  <2>3. Knows(p)'
    BY <1>1, <1>3, <2>1, <2>2 DEF Knows, JavaKnows, Answers
  <2>4. Alone(p)'
    BY <1>1, <2>1 DEF Alone, JavaAlone
  <2> QED  BY <2>1, <2>3, <2>4 DEF Told
<1>4. CASE Install(p)
  BY <1>2, <1>3, <1>4 DEF Install
<1>5. CASE Elect(p)
  BY <1>2, <1>3, <1>5 DEF Elect
<1>6. CASE ElectFails(p)
  BY <1>2, <1>6 DEF ElectFails
<1> QED  BY <1>4, <1>5, <1>6

LEMMA LaunchTold ==
    ASSUME KnowInv, NEW p \in Procs,
           UseGlobal(p) \/ Exists(p) \/ ReportTool(p) \/ ReportCurrent(p) \/ Launch(p)
    PROVE  Told(p)
<1>1. /\ config' = config /\ installed' = installed /\ global' = global
      /\ installed \subseteq installed'
      /\ pc[p] \in {"global", "exists", "launch"}
  BY EnvSame DEF UseGlobal, Exists, ReportTool, ReportCurrent, Launch
<1>2. ASSUME NEW c, End(p, c)
      PROVE  Told(p)
  BY <1>1, <1>2, EndsTold
<1>3. CASE UseGlobal(p)
  <2>1. CASE /\ run' = [run EXCEPT ![p].view = NoView, ![p].at = NoRun.at]
             /\ Goto(p, "exists") /\ global \in installed
    <3> DEFINE r == [run[p] EXCEPT !.view = NoView, !.at = NoRun.at]
    <3>1. /\ r.op = run[p].op /\ r.consent = run[p].consent /\ r.sel = run[p].sel
      BY TheRun DEF KnowInv, RunType
    <3>2. run' = [run EXCEPT ![p] = r]
      BY <2>1
    <3> HIDE DEF r
    <3>3. Apart(p) /\ pc'[p] = "exists" /\ run'[p] = r /\ code'[p] = code[p]
      BY <1>1, <2>1, <3>2, GoesApart
    <3>4. Knows(p)'
      BY <1>1, <3>1, <3>3, GoesTold
    <3>5. run[p].sel = NoPin
      BY <1>3, TheRun DEF KnowInv, UseGlobal, Sound, Walk
    <3>6. Target(p)' = global /\ ShimRuns(run[p].sel)' = {global} \cap installed
      BY <1>1, <3>1, <3>3, <3>5 DEF Target, ShimRuns
    <3>7. Target(p)' \in ShimRuns(run[p].sel)'
      BY <2>1, <3>6
    <3> QED  BY <3>3, <3>4, <3>7 DEF Told, Alone, ReportAlone, JavaAlone
  <2> QED  BY <1>2, <1>3, <2>1 DEF UseGlobal
<1>4. CASE Exists(p)
  <2>1. CASE Goto(p, "launch") /\ UNCHANGED run
    <3>1. Apart(p) /\ pc'[p] = "launch" /\ run'[p] = run[p] /\ code'[p] = code[p]
      BY <1>1, <2>1, StaysApart
    <3>2. Knows(p)'
      BY <1>1, <3>1, GoesTold
    <3> QED  BY <3>1, <3>2 DEF Told, Alone, ReportAlone, JavaAlone
  <2> QED  BY <1>2, <1>4, <2>1 DEF Exists
<1> QED  BY <1>2, <1>3, <1>4 DEF ReportTool, ReportCurrent, Launch

LEMMA ActsTold ==
    ASSUME KnowInv, NEW p \in Procs, Acts(p)
    PROVE  Told(p)
<1>1. CASE Begins(p)
  BY <1>1, BeginsTold
<1>2. CASE Answer(p)
  BY <1>2, AskingTold
<1>3. CASE Step(p)
  <2>1. CASE \/ LoadSettings(p) \/ CascadeFails(p)
             \/ \E c \in Contents : NoDeclaration(p, c) \/ Declaration(p, c)
    BY <2>1, ReadingTold
  <2>2. CASE LoadVendor(p) \/ Find(p)
    BY <2>2, VendorTold, FindTold
  <2>3. CASE FindsNothing(p) \/ ScanFails(p) \/ DecideInstall(p) \/ Spawn(p)
    BY <2>3, AskingTold
  <2>4. CASE Resolve(p) \/ ResolveFails(p) \/ Terms(p)
    BY <2>4, ResolveTold, TermsTold
  <2>5. CASE Install(p) \/ Elect(p) \/ ElectFails(p)
    BY <2>5, InstallTold
  <2>6. CASE UseGlobal(p) \/ Exists(p) \/ ReportTool(p) \/ ReportCurrent(p) \/ Launch(p)
    BY <2>6, LaunchTold
  <2> QED  BY <1>3, <2>1, <2>2, <2>3, <2>4, <2>5, <2>6 DEF Step
<1> QED  BY <1>1, <1>2, <1>3 DEF Acts

-----------------------------------------------------------------------------

(* Others: whoever is under way has been disturbed.                        *)
LEMMA TouchTold ==
    ASSUME KnowInv,
           \/ \E c \in Configs : Configure(c)
           \/ \E j \in Jdks : Arrive(j) \/ Use(j) \/ Uninstall(j)
    PROVE  /\ code' = [q \in Procs |-> code'[q]]
           /\ \A q \in Procs : Knows(q)' /\ Alone(q)'
<1>1. Touch
  BY DEF Configure, Arrive, Use, Uninstall
<1>2. ASSUME NEW q \in Procs
      PROVE  Knows(q)' /\ Alone(q)'
  <2> DEFINE r == [run[q] EXCEPT !.edited = pc[q] # "idle"]
  <2>1. run'[q] = r /\ pc'[q] = pc[q] /\ code'[q] = code[q]
    BY <1>1 DEF Touch
  <2>2. r.op = run[q].op /\ r.consent = run[q].consent /\ r.edited = (pc[q] # "idle")
    BY TheRun DEF KnowInv, RunType
  <2> HIDE DEF r
  <2>3. Knows(q)
    BY DEF KnowInv
  <2>4. Knows(q)'
    BY <2>1, <2>2, <2>3 DEF Knows, JavaKnows
  <2>5. Alone(q)'
    BY <2>1, <2>2 DEF Alone, JavaAlone, ReportAlone
  <2> QED  BY <2>4, <2>5
<1> QED  BY <1>1, <1>2 DEF Touch, KnowInv

(* What the others know is not less true for another's step.               *)
LEMMA OthersKnow ==
    ASSUME KnowInv, NEW p \in Procs, Told(p), NEW q \in Procs
    PROVE  Knows(q)'
<1>1. CASE q = p
  BY <1>1 DEF Told
<1>2. CASE q # p
  <2>1. pc'[q] = pc[q] /\ run'[q] = run[q] /\ code'[q] = code[q]
        /\ config' = config /\ installed \subseteq installed' /\ Knows(q)
    BY <1>2 DEF Told, Apart, KnowInv
  <2> QED  BY <2>1 DEF Knows, JavaKnows, Answers
<1> QED  BY <1>1, <1>2

(* A step is that of a command or of others.                               *)
LEMMA StepIs ==
    ASSUME [Next]_vars
    PROVE  \/ \E p \in Procs : Acts(p)
           \/ \/ \E c \in Configs : Configure(c)
              \/ \E j \in Jdks : Arrive(j) \/ Use(j) \/ Uninstall(j)
           \/ UNCHANGED vars
<1>1. CASE Next
  BY <1>1 DEF Next, Acts, Begins
<1> QED  BY <1>1

LEMMA KnowKeeps == KnowInv /\ [Next]_vars => KnowInv'
<1> SUFFICES ASSUME KnowInv, [Next]_vars
             PROVE  KnowInv'
  OBVIOUS
<1>1. ShimInv'
  BY ShimKeeps DEF KnowInv
<1>2. ASSUME NEW p \in Procs, Acts(p)
      PROVE  code' = [q \in Procs |-> code'[q]] /\ \A q \in Procs : Knows(q)'
  <2>1. Told(p)
    BY <1>2, ActsTold
  <2> QED  BY <2>1, OthersKnow DEF Told, Apart
<1>3. CASE UNCHANGED vars
  BY <1>1, <1>3 DEF vars, KnowInv, Knows, JavaKnows, Answers
<1>4. CASE \/ \E c \in Configs : Configure(c)
           \/ \E j \in Jdks : Arrive(j) \/ Use(j) \/ Uninstall(j)
  <2>1. code' = [q \in Procs |-> code'[q]] /\ \A q \in Procs : Knows(q)'
    BY <1>4, TouchTold
  <2> QED  BY <1>1, <2>1 DEF KnowInv
<1>5. CASE \E p \in Procs : Acts(p)
  BY <1>1, <1>2, <1>5 DEF KnowInv
<1> QED  BY <1>3, <1>4, <1>5, StepIs

LEMMA KnowStarts == Init => KnowInv /\ \A p \in Procs : Alone(p)
<1> SUFFICES ASSUME Init
             PROVE  KnowInv /\ \A p \in Procs : Alone(p)
  OBVIOUS
<1>1. ShimInv /\ NoRun.op = "java" /\ ~NoRun.consent /\ "java" \notin Reports
  BY ShimStarts DEF NoRun, Reports
<1>2. \A p \in Procs : pc[p] = "idle" /\ run[p] = NoRun
  BY DEF Init
<1>3. code = [p \in Procs |-> code[p]]
  BY DEF Init
<1> QED  BY <1>1, <1>2, <1>3 DEF KnowInv, Knows, JavaKnows, Alone, JavaAlone

LEMMA KnowHolds == Spec => []KnowInv
BY KnowStarts, KnowKeeps, PTL DEF Spec

LEMMA AloneKeeps == OneProcess /\ AloneInv /\ [Next]_vars => AloneInv'
<1> SUFFICES ASSUME OneProcess, AloneInv, [Next]_vars
             PROVE  AloneInv'
  OBVIOUS
<1>1. KnowInv'
  BY KnowKeeps DEF AloneInv
<1>2. CASE \E p \in Procs : Acts(p)
  <2>1. PICK p \in Procs : Acts(p)
    BY <1>2
  <2>2. Alone(p)'
    BY <2>1, ActsTold DEF AloneInv, Told
  <2>3. \A q \in Procs : q = p
    BY DEF OneProcess
  <2> QED  BY <1>1, <2>2, <2>3 DEF AloneInv
<1>3. CASE \/ \E c \in Configs : Configure(c)
           \/ \E j \in Jdks : Arrive(j) \/ Use(j) \/ Uninstall(j)
  <2>1. \A q \in Procs : Alone(q)'
    BY <1>3, TouchTold DEF AloneInv
  <2> QED  BY <1>1, <2>1 DEF AloneInv
<1>4. CASE UNCHANGED vars
  <2>1. \A q \in Procs : Alone(q)'
    BY <1>4 DEF vars, AloneInv, Alone, JavaAlone, ReportAlone, Candidates, Target,
       ShimRuns, Best
  <2> QED  BY <1>1, <2>1 DEF AloneInv
<1> QED  BY <1>2, <1>3, <1>4, StepIs

LEMMA AloneHolds == OneProcess => (Spec => []AloneInv)
<1> SUFFICES ASSUME OneProcess
             PROVE  Spec => []AloneInv
  OBVIOUS
<1>1. Init => AloneInv
  BY KnowStarts DEF AloneInv
<1>2. AloneInv /\ [Next]_vars => AloneInv'
  BY AloneKeeps
<1> QED  BY <1>1, <1>2, PTL DEF Spec

-----------------------------------------------------------------------------
(* How a command ends, by the action that ends it.                         *)

LEMMA CodeIs ==
    ASSUME KnowInv, NEW p \in Procs
    PROVE  /\ \A c : End(p, c) => code'[p] = c
           /\ \A w : Goto(p, w) => code'[p] = code[p]
           /\ UNCHANGED code => code'[p] = code[p]
BY DEF KnowInv, End, Goto

LEMMA CodeMoves ==
    ASSUME KnowInv, [Next]_vars, NEW p \in Procs, code'[p] # code[p],
           code'[p] # "none"
    PROVE  Step(p) \/ Answer(p)
<1>1. ASSUME NEW q \in Procs, Acts(q)
      PROVE  q = p /\ (Step(p) \/ Answer(p))
  <2>1. q = p
    BY <1>1, ActsTold DEF Told, Apart
  <2> QED  BY <1>1, <2>1, BeginsTold DEF Acts
<1>2. CASE \/ \E c \in Configs : Configure(c)
           \/ \E j \in Jdks : Arrive(j) \/ Use(j) \/ Uninstall(j)
  BY <1>2 DEF Configure, Arrive, Use, Uninstall, Touch
<1>3. CASE UNCHANGED vars
  BY <1>3 DEF vars
<1> QED  BY <1>1, <1>2, <1>3, StepIs

LEMMA EndIs ==
    ASSUME KnowInv, NEW p \in Procs, Step(p) \/ Answer(p), code[p] = "none"
    PROVE  /\ code'[p] = "badconfig" =>
                \/ pc[p] = "settings"
                \/ pc[p] = "vendor" /\ NeedsVendor(run[p].sel)
                \/ pc[p] \in {"policy", "catalog"}
           /\ code'[p] = "shown" => pc[p] = "exists"
           /\ code'[p] = "notinstalled" =>
                \/ FindsNothing(p)
                \/ pc[p] \in {"policy", "ask"}
                \/ pc[p] = "global" /\ global \notin installed
           /\ code'[p] = "eaonly" => SuggestsLine(p)
<1>1. CASE \/ LoadSettings(p) \/ LoadVendor(p) \/ DecideInstall(p) \/ Resolve(p)
           \/ ResolveFails(p)
  BY <1>1, CodeIs DEF LoadSettings, LoadVendor, DecideInstall, Resolve, ResolveFails
<1>2. CASE \/ CascadeFails(p) \/ Find(p) \/ ScanFails(p) \/ Answer(p)
           \/ Spawn(p) \/ Terms(p) \/ Install(p)
           \/ \E c \in Contents : NoDeclaration(p, c) \/ Declaration(p, c)
  BY <1>2, CodeIs DEF CascadeFails, Find, ScanFails, Answer, Spawn, Terms, Install,
     NoDeclaration, Declaration
<1>3. CASE FindsNothing(p)
  BY <1>3, CodeIs DEF FindsNothing
<1>4. CASE \/ Elect(p) \/ ElectFails(p) \/ UseGlobal(p) \/ Exists(p) \/ ReportTool(p)
           \/ ReportCurrent(p) \/ Launch(p)
  BY <1>4, CodeIs DEF Elect, ElectFails, UseGlobal, Exists, ReportTool, ReportCurrent, Launch
<1> QED  BY <1>1, <1>2, <1>3, <1>4 DEF Step

-----------------------------------------------------------------------------
(* No java accepts a vendor's terms, whatever config.toml accepts and      *)
(* however many install at a time (install.rs:136-141).                    *)
THEOREM JavaTakesNoTerms == Spec => NoTermsThroughTheShim
<1>1. KnowInv /\ [Next]_vars =>
        [\A p \in Procs :
           run[p].op = "java" /\ pc[p] = "install" /\ pc'[p] = "elect"
               /\ run[p].pick \notin installed /\ ~run[p].edited
             => run[p].pick.vendor \notin Proprietary]_vars
  BY DEF KnowInv, Knows, JavaKnows
<1> QED  BY <1>1, KnowHolds, PTL DEF Spec, NoTermsThroughTheShim

(* What was installed for the shim is found for the pin: the catalogue and *)
(* the store read selectors and versions alike, and a text that was written*)
(* is read as what it was (catalog.rs:305-310).                            *)
THEOREM TheInstallIsFound == Spec => InstalledIsFound
<1>1. KnowInv /\ [Next]_vars =>
        [\A p \in Procs :
           pc[p] = "rescan" /\ ~run[p].edited => code'[p] # "notinstalled"]_vars
  <2> SUFFICES ASSUME KnowInv, [Next]_vars, NEW p \in Procs,
                      pc[p] = "rescan", ~run[p].edited, code'[p] = "notinstalled"
               PROVE  FALSE
    OBVIOUS
  <2>1. code[p] = "none" /\ run[p].op = "java"
    BY TheRun DEF KnowInv, Knows, Sound, Doing
  <2>2. FindsNothing(p)
    BY <2>1, CodeMoves, EndIs
  <2>3. run[p].pick \in installed /\ Answers(run[p].pick, run[p].vendor, run[p].sel)
    BY <2>1 DEF KnowInv, Knows, JavaKnows
  <2> QED  BY <2>2, <2>3 DEF FindsNothing, Answering, Candidates, Answers
<1> QED  BY <1>1, KnowHolds, PTL DEF Spec, InstalledIsFound

-----------------------------------------------------------------------------
(* The suggestion of a line.                                               *)

(* A version matches itself, and a build its line.                         *)
LEMMA LineMatches ==
    ASSUME NEW v, IsVersion(v), v.pre # None, v.pre[1] # Plus
    PROVE  Matches(v, EaLine(v)) /\ EaLine(v).pre # None
<1> DEFINE I == {i \in 1 .. Len(v.pre) : v.pre[i] = Plus}
           cut == SelectInSeq(v.pre, LAMBDA t : t = Plus)
<1>1. cut = IF I # {} THEN Min(I) ELSE 0
  BY DEF SelectInSeq
<1>2. /\ v.nums \in Seq(Int) /\ v.build \in Seq(Nat) /\ v.pre \in Seq(Int)
      /\ Len(v.pre) \in Nat /\ Plus \in Signs
      /\ v = [nums |-> v.nums, build |-> v.build, pre |-> v.pre]
  BY DEF IsVersion, Signs
<1>3. IsPrefix(v.nums, v.nums)
  BY <1>2, PrefixIs
<1> HIDE DEF cut
<1>4. CASE cut = 0
  <2>1. EaLine(v) = v
    BY <1>4 DEF EaLine, cut
  <2> QED  BY <1>3, <2>1 DEF Matches, MatchesDirectly, PreAccepts
<1>5. CASE cut # 0
  <2>1. PICK m \in I : \A i \in I : m <= i
    <3>1. I \in SUBSET Nat /\ I # {}
      BY <1>1, <1>5
    <3> HIDE DEF I
    <3> QED  BY <3>1, LeastExists
  <2>2. Min(I) \in I
    BY <2>1 DEF Min
  <2>3. cut \in 1 .. Len(v.pre) /\ v.pre[cut] = Plus /\ cut # 1
    BY <1>1, <1>5, <2>2
  <2> DEFINE line == SubSeq(v.pre, 1, cut - 1)
  <2>4. /\ line \in Seq(Int) /\ Len(line) = cut - 1
        /\ \A i \in 1 .. (cut - 1) : line[i] = v.pre[i]
    <3>1. cut - 1 \in Int /\ 1 <= cut - 1 /\ \A i \in 1 .. (cut - 1) : i \in 1 .. Len(v.pre)
      BY <1>2, <2>3
    <3>2. \A i \in 1 .. (cut - 1) : v.pre[i] \in Int
      BY <1>2, <3>1
    <3>3. /\ line \in Seq(Int)
          /\ Len(line) = IF 1 <= cut - 1 THEN (cut - 1) - 1 + 1 ELSE 0
          /\ \A i \in 1 .. ((cut - 1) - 1 + 1) : line[i] = v.pre[1 + i - 1]
      BY <3>1, <3>2, SubSeqProperties
    <3>4. (cut - 1) - 1 + 1 = cut - 1 /\ \A i \in 1 .. (cut - 1) : 1 + i - 1 = i
      BY <3>1
    <3> HIDE DEF line
    <3>5. Len(line) = cut - 1
      BY <3>1, <3>3, <3>4
    <3>6. \A i \in 1 .. (cut - 1) : line[i] = v.pre[i]
      <4>1. \A i \in 1 .. (cut - 1) : line[i] = v.pre[1 + i - 1]
        BY <3>3, <3>4
      <4> QED  BY <3>4, <4>1
    <3> QED  BY <3>3, <3>5, <3>6
  <2>5. EaLine(v) = [nums |-> v.nums, build |-> None, pre |-> line]
    <3>1. EaLine(v) = [v EXCEPT !.build = None, !.pre = SubSeq(@, 1, cut - 1)]
      BY <1>5 DEF EaLine, cut
    <3> QED  BY <1>2, <3>1
  <2> HIDE DEF line
  <2>6. Len(line) # 0 /\ line # None
    <3>1. Len(line) # 0
      BY <1>2, <2>3, <2>4
    <3>2. Len(None) = 0
      BY DEF None
    <3> QED  BY <3>1, <3>2
  <2>7. IsStrictPrefix(line, v.pre) /\ v.pre[Len(line) + 1] \in Signs
    <3>1. Len(line) < Len(v.pre) /\ Len(line) + 1 = cut
      BY <1>2, <2>3, <2>4
    <3>2. IsPrefix(line, v.pre)
      <4>1. Len(line) <= Len(v.pre) /\ \A i \in 1 .. Len(line) : line[i] = v.pre[i]
        BY <1>2, <2>3, <2>4, <3>1
      <4> QED  BY <1>2, <2>4, <4>1, PrefixIs
    <3>3. line # v.pre
      BY <3>1, <1>2, <2>4
    <3> QED  BY <1>2, <2>3, <3>1, <3>2, <3>3 DEF IsStrictPrefix
  <2> QED  BY <1>3, <2>5, <2>6, <2>7 DEF Matches, MatchesDirectly, PreAccepts
<1> QED  BY <1>4, <1>5

(* No version of the index has its build number where the pre-release      *)
(* should begin, as in `27-+31`: such a build is of no line.               *)
LinesAreNamed ==
    \A k \in Published :
        Parse(k.version).pre # None => Parse(k.version).pre[1] # Plus

(* The line that a refusal suggests is not refused again, whatever else the*)
(* index has (catalog.rs:285-290).                                         *)
THEOREM TheSuggestionResolves == LinesAreNamed => (Spec => SuggestionResolves)
<1> SUFFICES ASSUME LinesAreNamed
             PROVE  Spec => SuggestionResolves
  OBVIOUS
<1>1. KnowInv /\ [Next]_vars =>
        [\A p \in Procs :
           code[p] = "none" /\ code'[p] = "eaonly" =>
             \A k \in EarlyAccess(Meant(p), Asked(p)) :
               ~Stable(Parse(k.version)) =>
                 Eligible(Published, Meant(p), EaLine(Parse(k.version))) # {}]_vars
  <2> SUFFICES ASSUME NEW p \in Procs, NEW k \in EarlyAccess(Meant(p), Asked(p)),
                      ~Stable(Parse(k.version))
               PROVE  Eligible(Published, Meant(p), EaLine(Parse(k.version))) # {}
    OBVIOUS
  <2>1. k \in Published /\ k.vendor = Meant(p)
    BY DEF EarlyAccess, Matching
  <2>2. IsVersion(Parse(k.version))
    BY <2>1, ParseTypes, ShimAssumption DEF Package
  <2>3. /\ Matches(Parse(k.version), EaLine(Parse(k.version)))
        /\ EaLine(Parse(k.version)).pre # None
    BY <2>1, <2>2, LineMatches DEF Stable, LinesAreNamed
  <2>4. k \in Eligible(Published, Meant(p), EaLine(Parse(k.version)))
    BY <2>1, <2>3 DEF Eligible, Matching
  <2> QED  BY <2>4
<1> QED  BY <1>1, KnowHolds, PTL DEF Spec, SuggestionResolves

-----------------------------------------------------------------------------
(* With one command at a time.                                             *)

(* A malformed config.toml stops no java that would not have needed it     *)
(* (main.rs:92-97).                                                        *)
THEOREM ConfigIsReadLate == OneProcess => (Spec => LazyConfig)
<1> SUFFICES ASSUME OneProcess
             PROVE  Spec => LazyConfig
  OBVIOUS
<1>1. AloneInv /\ [Next]_vars =>
        [\A p \in Procs :
           run[p].op = "java" /\ code[p] = "none" /\ code'[p] = "badconfig" /\ ~run[p].edited =>
             /\ run[p].sel # NoPin
             /\ \/ run[p].sel.vendor = NoVendor
                \/ Candidates(run[p].sel.vendor, run[p].sel) = {}]_vars
  <2> SUFFICES ASSUME AloneInv, [Next]_vars, NEW p \in Procs, run[p].op = "java",
                      code[p] = "none", code'[p] = "badconfig", ~run[p].edited
               PROVE  /\ run[p].sel # NoPin
                      /\ \/ run[p].sel.vendor = NoVendor
                         \/ Candidates(run[p].sel.vendor, run[p].sel) = {}
    OBVIOUS
  <2>1. KnowInv /\ ShimInv /\ "java" \notin Reports
    BY DEF AloneInv, KnowInv, Reports
  <2>2. \/ pc[p] = "settings"
        \/ pc[p] = "vendor" /\ NeedsVendor(run[p].sel)
        \/ pc[p] \in {"policy", "catalog"}
    BY <2>1, CodeMoves, EndIs
  <2>3. pc[p] # "settings"
    BY <2>1, TheRun DEF Sound, Doing
  <2>4. run[p].sel \in Selectors
    BY <2>1, <2>2, <2>3, TheRun DEF Sound, Walk, Looking
  <2>5. CASE pc[p] = "vendor"
    BY <2>2, <2>4, <2>5, NoPinIsNone DEF NeedsVendor
  <2>6. CASE pc[p] \in {"policy", "catalog"}
    <3>1. Candidates(run[p].vendor, run[p].sel) = {}
      BY <2>6 DEF AloneInv, Alone, JavaAlone
    <3>2. run[p].sel.vendor \in {NoVendor, run[p].vendor}
      BY <2>1, <2>6, TheRun DEF Sound, Pins
    <3> QED  BY <2>4, <3>1, <3>2, NoPinIsNone
  <2> QED  BY <2>2, <2>3, <2>5, <2>6
<1> QED  BY <1>1, AloneHolds, PTL DEF Spec, LazyConfig

(* What `jdk which` and `jdk current` show is what `java` would run, and   *)
(* where they show nothing, nothing would run (resolve.rs:1-3).            *)
THEOREM ReportsAreRight == OneProcess => (Spec => ReportIsWhatRuns)
<1> SUFFICES ASSUME OneProcess
             PROVE  Spec => ReportIsWhatRuns
  OBVIOUS
<1>1. AloneInv /\ [Next]_vars =>
        [\A p \in Procs :
           run[p].op \in Reports /\ code[p] = "none" /\ ~run[p].edited =>
             /\ code'[p] = "shown" => Target(p) \in ShimRuns(run[p].sel)
             /\ code'[p] = "notinstalled" => ShimRuns(run[p].sel) = {}]_vars
  <2> SUFFICES ASSUME AloneInv, [Next]_vars, NEW p \in Procs,
                      run[p].op \in Reports, code[p] = "none", ~run[p].edited
               PROVE  /\ code'[p] = "shown" => Target(p) \in ShimRuns(run[p].sel)
                      /\ code'[p] = "notinstalled" => ShimRuns(run[p].sel) = {}
    OBVIOUS
  <2>1. KnowInv /\ ShimInv /\ run[p].op # "java"
    BY DEF AloneInv, KnowInv, Reports
  <2>2. Alone(p)
    BY DEF AloneInv
  <2>3. ASSUME code'[p] = "shown"
        PROVE  Target(p) \in ShimRuns(run[p].sel)
    <3>1. pc[p] = "exists"
      BY <2>1, <2>3, CodeMoves, EndIs
    <3> QED  BY <2>2, <3>1 DEF Alone, ReportAlone
  <2>4. ASSUME code'[p] = "notinstalled"
        PROVE  ShimRuns(run[p].sel) = {}
    <3>1. \/ FindsNothing(p)
          \/ pc[p] \in {"policy", "ask"}
          \/ pc[p] = "global" /\ global \notin installed
      BY <2>1, <2>4, CodeMoves, EndIs
    <3>2. pc[p] \notin {"policy", "ask", "rescan"}
      BY <2>1, TheRun DEF Sound, Doing
    <3>3. CASE pc[p] = "global" /\ global \notin installed
      <4>1. run[p].sel = NoPin
        BY <2>1, <3>3, TheRun DEF Sound, Walk
      <4> QED  BY <3>3, <4>1 DEF ShimRuns
    <3>4. CASE FindsNothing(p)
      <4>1. pc[p] = "find" /\ Candidates(run[p].vendor, run[p].sel) = {}
        BY <3>2, <3>4 DEF FindsNothing, Answering
      <4>2. run[p].vendor = Means(run[p].sel, config.vendor) /\ run[p].sel \in Selectors
        BY <2>1, <2>2, <4>1, TheRun DEF Alone, ReportAlone, Sound, Walk, Looking
      <4>3. ShimRuns(run[p].sel) = Best({})
        BY <4>1, <4>2, ShimRunsIs
      <4> QED  BY <4>3 DEF Best
    <3> QED  BY <3>1, <3>2, <3>3, <3>4
  <2> QED  BY <2>3, <2>4
<1> QED  BY <1>1, AloneHolds, PTL DEF Spec, ReportIsWhatRuns

=============================================================================
